------------------------------ MODULE Verdicts ------------------------------
(***************************************************************************)
(* The two reads that come with a verdict, list_registrations_result and   *)
(* list_channels_result (clients/esl.py 311-351).  They have the same      *)
(* contract, an answer that calls itself authoritative is proof, and share *)
(* nothing else: a behaviour is of one of them.                            *)
(***************************************************************************)
EXTENDS Naturals, Sequences

CONSTANTS
  Extensions, Contacts, Damage, MaxStray,   \* of Registrations
  Uuids, MaxRows, MaxFaults       \* of ChannelSnapshot

(* A phone registers under a name. *)
ASSUME VerdictAssumption ==
  /\ Damage \in BOOLEAN /\ "" \notin Extensions
  /\ MaxStray \in Nat /\ MaxRows \in Nat /\ MaxFaults \in Nat

VARIABLES
  read,      \* which of the two it is
  phones, reported, channels, faults,
  pc, answer, held, result        \* of the one that is read

vars == <<read, phones, reported, channels, faults, pc, answer, held, result>>

Registered == INSTANCE Registrations WITH text <- answer
Shown == INSTANCE ChannelSnapshot

Init ==
  \/ read = "registrations" /\ Registered!Init /\ channels = {} /\ faults = 0
  \/ read = "channels" /\ Shown!Init /\ phones = {} /\ reported = FALSE

Next ==
  /\ UNCHANGED read
  /\ \/ read = "registrations" /\ Registered!Next /\ UNCHANGED <<channels, faults>>
     \/ read = "channels" /\ Shown!Next /\ UNCHANGED <<phones, reported>>

Spec == Init /\ [][Next]_vars
-----------------------------------------------------------------------------
(* A whole sofia report is authoritative and tells exactly the phones that  *)
(* were registered when the switch wrote it, none included.  An answer that *)
(* was no report is no evidence that phones went away if it is a refusal,   *)
(* whatever lines follow, or if nothing in it is like a report: no marker   *)
(* anywhere and no User line that names anybody.  (Text that is no refusal  *)
(* and has one of these, the code takes for a report: 110-151 of            *)
(* registrations.py.)                                                       *)
OnlyReportsCount ==
  [][read = "registrations" /\ Registered!list_registrations_result =>
       LET counts == Registered!IsAuthoritative(result')
       IN  /\ reported => counts /\ result'.rows = held
           /\ ~reported /\ counts =>
                ~Registered!Refused(answer) /\ (Registered!Has(answer) \/ Registered!Names(answer))]_vars

(* A snapshot that calls itself complete, or empty, shows exactly the       *)
(* channels that were live when the switch answered, whatever went wrong    *)
(* with the answer: no partial rows pass for a complete list; and an answer *)
(* nothing is wrong with counts, up to the row budget (channels.py 108-147).*)
AuthorityIsProof ==
  [][read = "channels" /\ Shown!list_channels_result =>
       /\ Shown!IsAuthoritative(result') =>
            result'.channels = held /\ (result'.state = "empty" <=> held = {})
       /\ faults = 0 /\ answer.form = "json" =>
            (Shown!IsAuthoritative(result') <=> answer.count <= MaxRows)]_vars
=============================================================================
