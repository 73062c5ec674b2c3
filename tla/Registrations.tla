--------------------------- MODULE Registrations ----------------------------
(***************************************************************************)
(* list_registrations_result (clients/esl.py) and its parser               *)
(* (models/registrations.py): one sofia profile whose phones come and go,  *)
(* the report the switch writes of them, what may become of the report on  *)
(* its way into the parser, and what the caller is told.                   *)
(*                                                                         *)
(* A text is a sequence of lines; a line has a kind, by how it begins, a   *)
(* value: of a User line the part before the "@", and may have one of the  *)
(* markers of a report anywhere in it (none of them spans two lines).      *)
(***************************************************************************)
EXTENDS Naturals, Sequences, SequencesExt

CONSTANTS
  Extensions, Contacts,
  Damage,   \* may a report be cut short?
  MaxStray  \* bound: lines of an answer that is no report

VARIABLES
  phones,   \* what is registered: pairs of an extension and a contact
  pc,       \* "idle", "asked", or "replied"
  text,     \* the reply
  held,     \* phones when the switch replied (history)
  reported, \* the switch's reply was a report (history)
  result    \* SofiaRegResult of the last call

vars == <<phones, pc, text, held, reported, result>>

Line(kind, value) ==
  [kind |-> kind, value |-> value, marked |-> kind \in {"header", "call-id", "total"}]
Plain(kind) == Line(kind, "")

States == {"complete", "empty", "error", "malformed"}
Result(state, rows) == [state |-> state, rows |-> rows]

-----------------------------------------------------------------------------
(* parse_sofia_reg *)

First(lines, kind) ==
  LET of == {i \in 1..Len(lines) : lines[i].kind = kind}
  IN  IF of = {} THEN "" ELSE lines[Min(of)].value

(* The blocks between Call-ID lines, and what stands before the first.      *)
Starts(t) == {1} \cup {i \in 1..Len(t) : t[i].kind = "call-id"}
Block(t, i) ==
  LET ends == {j \in Starts(t) : j > i}
      end == IF ends = {} THEN Len(t) + 1 ELSE CHOOSE j \in ends : \A k \in ends : j <= k
  IN  SubSeq(t, i, end - 1)

(* A block without a User, or with nothing before its "@", is skipped; a    *)
(* Contact may be missing.                                                  *)
Rows(t) ==
  {<<First(b, "user"), First(b, "contact")>> :
     b \in {c \in {Block(t, i) : i \in Starts(t)} : First(c, "user") # ""}}

-----------------------------------------------------------------------------
(* parse_sofia_reg_result: the error check runs first, rows decide next,    *)
(* then any marker of a registration report, wherever it stands.            *)
Has(t) == \E i \in 1..Len(t) : t[i].marked

(* Fault: rows decide before the error check. *)
ClassifyRowsFirst(t) ==
  IF Rows(t) # {} THEN Result("complete", Rows(t))
  ELSE IF Has(t) THEN Result("empty", {})
  ELSE Result("malformed", {})

Classify(t) ==
  LET written == {i \in 1..Len(t) : t[i].kind # "blank"} IN
  CASE written = {} -> Result("malformed", {})
    [] written # {} /\ t[Min(written)].kind = "refusal" -> Result("error", {})
    [] written # {} /\ t[Min(written)].kind # "refusal" ->
         IF Rows(t) # {} THEN Result("complete", Rows(t))
         ELSE IF Has(t) THEN Result("empty", {})
         ELSE Result("malformed", {})

IsAuthoritative(r) == r.state \in {"complete", "empty"}

-----------------------------------------------------------------------------
(* mod_sofia's report.  (Its heading is marked already: whether another of  *)
(* its lines has a marker by chance, say in a contact, decides nothing.)    *)
Entry(p) ==
  <<Plain("call-id"), Line("user", p[1]), Line("contact", p[2]), Plain("status")>>

Report(s) ==
  <<Plain("blank"), Plain("header")>>
  \o FlattenSeq(SetToSeq({Entry(p) : p \in s})) \o <<Plain("total")>>

(* What else a reply may be: nothing, a refusal, noise, and these together  *)
(* with lines like those of a report, in any order; any may have a marker.  *)
Stray ==
  LET some == {Plain(k) : k \in {"noise", "refusal"}} \cup {Line("user", e) : e \in Extensions \cup {""}}
  IN  {Plain("blank"), Plain("call-id")} \cup some \cup {[l EXCEPT !.marked = TRUE] : l \in some}

NoReport == SeqOf(Stray, MaxStray)

Refused(t) ==
  \E i \in 1..Len(t) : t[i].kind = "refusal" /\ \A j \in 1..(i - 1) : t[j].kind = "blank"
Names(t) == \E i \in 1..Len(t) : t[i].kind = "user" /\ t[i].value # ""

(* Fewer lines, the last one possibly cut within its value. *)
Beginnings(t) ==
  LET lines == {SubSeq(t, 1, n) : n \in 0..Len(t)}
      cut == {[u EXCEPT ![Len(u)].value = "..."] : u \in {v \in lines : v # <<>> /\ Last(v).value # ""}}
  IN  lines \cup cut

Init ==
  /\ phones = {} /\ held = {} /\ reported = FALSE
  /\ pc = "idle" /\ text = <<>> /\ result = Result("malformed", {})

Register(p) ==
  /\ phones' = phones \cup {p}
  /\ UNCHANGED <<pc, text, held, reported, result>>

Unregister(p) ==
  /\ phones' = phones \ {p}
  /\ UNCHANGED <<pc, text, held, reported, result>>

Ask ==
  /\ pc = "idle" /\ pc' = "asked"
  /\ UNCHANGED <<phones, text, held, reported, result>>

Reply ==
  /\ pc = "asked" /\ pc' = "replied"
  /\ held' = phones
  /\ \/ /\ reported' = TRUE
        /\ text' \in IF Damage THEN Beginnings(Report(phones)) ELSE {Report(phones)}
     \/ reported' = FALSE /\ text' \in NoReport
  /\ UNCHANGED <<phones, result>>

(* list_registrations_result; list_registrations keeps only the rows.       *)
list_registrations_result ==
  /\ pc = "replied" /\ pc' = "idle"
  /\ result' = Classify(text) /\ text' = <<>>
  /\ UNCHANGED <<phones, held, reported>>

(* Timeout, lost connection: the method raises, and there is no result.     *)
Raise ==
  /\ pc # "idle" /\ pc' = "idle" /\ text' = <<>>
  /\ UNCHANGED <<phones, held, reported, result>>

Next ==
  \/ \E p \in Extensions \X Contacts : Register(p) \/ Unregister(p)
  \/ Ask \/ Reply \/ list_registrations_result \/ Raise

Spec == Init /\ [][Next]_vars
-----------------------------------------------------------------------------
(* SofiaRegResult.is_authoritative: "True when the reply proves the         *)
(* profile's registration set"; of a report that may have been cut short.   *)
AuthorityIsProof ==
  [][list_registrations_result /\ reported /\ IsAuthoritative(result') => result'.rows = held]_vars
=============================================================================
