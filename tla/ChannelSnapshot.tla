-------------------------- MODULE ChannelSnapshot ---------------------------
(***************************************************************************)
(* list_channels_result (clients/esl.py) and parse_channel_snapshot        *)
(* (models/channels.py): the switch's live channels, its JSON answer to    *)
(* "show channels as json", what may be wrong with that answer, and the    *)
(* snapshot the caller gets.                                               *)
(*                                                                         *)
(* An answer is a record: whether it is JSON at all, its row_count and its *)
(* rows, each present or not.  A row has the channel's uuid, in one of two *)
(* spellings, and whether every field _channel looks at is well-formed.    *)
(***************************************************************************)
EXTENDS Naturals, Sequences, SequencesExt

CONSTANTS
  Uuids,
  MaxRows,   \* MAX_CHANNEL_ROWS
  MaxFaults  \* bound: how many things may be wrong with an answer

VARIABLES
  channels,  \* the live channels
  pc,        \* "idle", "asked", or "replied"
  answer,
  faults,    \* what has become of it: how many faults
  held,      \* channels when the switch answered (history)
  result     \* the snapshot: its state, its channels and row_count

vars == <<channels, pc, answer, faults, held, result>>

Row(u) == [uuid |-> u, upper |-> FALSE, sound |-> TRUE]
Answer(form, counted, count, listed, rows) ==
  [form |-> form, counted |-> counted, count |-> count, listed |-> listed, rows |-> rows]
NoAnswer == Answer("noise", FALSE, 0, FALSE, <<>>)

Snapshot(state, shown, count) == [state |-> state, channels |-> shown, row_count |-> count]
Malformed == Snapshot("malformed", {}, 0)
Refusal == Snapshot("error", {}, 0)
IsAuthoritative(s) == s.state \in {"complete", "empty"}

-----------------------------------------------------------------------------
(* Fault: identities are compared as they are spelled. *)
DistinctAsSpelled(rows) == \A i, j \in 1..Len(rows) :
  rows[i].uuid = rows[j].uuid /\ rows[i].upper = rows[j].upper => i = j

(* The uuids differ, in lower case. *)
Distinct(rows) == \A i, j \in 1..Len(rows) : rows[i].uuid = rows[j].uuid => i = j

(* The count is there and within the budget, the rows are as many, each is  *)
(* well-formed, and none comes twice.                                       *)
Complete(a, rows) ==
  /\ a.counted /\ a.count \in 0..MaxRows
  /\ Len(rows) = a.count
  /\ \A i \in 1..Len(rows) : rows[i].sound
  /\ Distinct(rows)

(* parse_channel_snapshot: rows may be missing when the count is 0.         *)
Parse(a) ==
  LET rows == IF a.listed THEN a.rows ELSE <<>> IN
  CASE a.form = "refusal" -> Refusal
    [] a.form = "json" /\ (a.listed \/ a.count = 0) /\ Complete(a, rows) ->
         Snapshot(IF a.count = 0 THEN "empty" ELSE "complete",
                  {rows[i].uuid : i \in 1..Len(rows)}, a.count)
    [] OTHER -> Malformed

-----------------------------------------------------------------------------
Init ==
  /\ channels = {} /\ held = {}
  /\ pc = "idle" /\ answer = NoAnswer /\ faults = 0 /\ result = Malformed

(* Calls come and go all the time. *)
Start(u) == channels' = channels \cup {u} /\ UNCHANGED <<pc, answer, faults, held, result>>
Hangup(u) == channels' = channels \ {u} /\ UNCHANGED <<pc, answer, faults, held, result>>

Ask ==
  /\ pc = "idle" /\ pc' = "asked"
  /\ UNCHANGED <<channels, answer, faults, held, result>>

(* mod_commands: the rows in any order, none when there is no channel; or   *)
(* a refusal; or text that is not JSON.                                     *)
Reply ==
  /\ pc = "asked" /\ pc' = "replied"
  /\ held' = channels /\ faults' = 0
  /\ LET rows == SetToSeq({Row(u) : u \in channels})
         n == Len(rows)
     IN  answer' \in {Answer("json", TRUE, n, n > 0 \/ present, rows) : present \in BOOLEAN}
                     \cup {[NoAnswer EXCEPT !.form = f] : f \in {"refusal", "noise"}}
  /\ UNCHANGED <<channels, result>>

(* A row in the other spelling, or not well-formed. *)
Spelled(row, upper) == [row EXCEPT !.upper = upper]
Broken(row) == [row EXCEPT !.sound = FALSE]

(* One thing after another goes wrong with a JSON answer, each to what is   *)
(* JSON still: rows lost, repeated in either spelling or malformed, the     *)
(* list or the count missing; or to what is not.                            *)
Spoiled(a) ==
  {[a EXCEPT !.rows = RemoveAt(a.rows, i)] : i \in 1..Len(a.rows)}
  \cup {[a EXCEPT !.rows = Append(a.rows, Spelled(a.rows[i], b))] :
          i \in 1..Len(a.rows), b \in BOOLEAN}
  \cup {[a EXCEPT !.rows[i] = Broken(a.rows[i])] : i \in 1..Len(a.rows)}
  \cup {[a EXCEPT !.listed = FALSE, !.rows = <<>>], [a EXCEPT !.counted = FALSE, !.count = 0],
        [a EXCEPT !.form = "noise"]}

Spoil ==
  /\ pc = "replied" /\ answer.form = "json" /\ faults < MaxFaults
  /\ answer' \in Spoiled(answer) /\ faults' = faults + 1
  /\ UNCHANGED <<channels, pc, held, result>>

list_channels_result ==
  /\ pc = "replied" /\ pc' = "idle"
  /\ result' = Parse(answer) /\ answer' = NoAnswer /\ faults' = 0
  /\ UNCHANGED <<channels, held>>

(* Timeout, lost connection: the method raises. *)
Raise ==
  /\ pc # "idle" /\ pc' = "idle" /\ answer' = NoAnswer /\ faults' = 0
  /\ UNCHANGED <<channels, held, result>>

Next ==
  \/ \E u \in Uuids : Start(u) \/ Hangup(u)
  \/ Ask \/ Reply \/ Spoil \/ list_channels_result \/ Raise

Spec == Init /\ [][Next]_vars
=============================================================================
