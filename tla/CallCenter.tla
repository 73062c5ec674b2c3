----------------------------- MODULE CallCenter -----------------------------
(***************************************************************************)
(* The typed mod_callcenter and call control methods of ESLClient          *)
(* (clients/esl.py) and the switch's agents, tiers and channels they read  *)
(* and change.                                                             *)
(*                                                                         *)
(* A command is its sequence of tokens.  ESLClient shows what happens to   *)
(* it below: the reply to that very command, an error, or a timeout, and   *)
(* the last two close the connection.  The command may be executed all the *)
(* same, then or much later, while the next one runs on a new connection.  *)
(* The switch and whoever provisions it are outside this repository.       *)
(***************************************************************************)
EXTENDS CallCenterTable, SequencesExt

CONSTANTS
  Spelling,    \* the pieces of a name: words, "@", " ", and a leading "-"
  Given,       \* names a caller passes
  Agents, Queues,   \* names the switch stores
  Contacts,    \* contacts of agents: the cells they take in a listing
  Columns,     \* orders of the columns of the agents table
  Uuids,       \* uuids the switch gives channels
  Handles, Destinations, Causes, Actions, Paths,
               \* what a caller passes to the uuid_* methods
  Raw,         \* commands a caller passes to api(); what they set of an agent
               \* is in the charts
  MaxCalls     \* bound on the history

(* No two names are spelled alike, and the leg flags begin with a hyphen.   *)
ASSUME NameAssumption ==
  /\ \A n \in DOMAIN Spelling : Spelling[n] \in Seq(STRING)
  /\ \A m, n \in DOMAIN Spelling : Spelling[m] = Spelling[n] => m = n
  /\ \A f \in {"-bleg", "-both"} : f \in DOMAIN Spelling /\ Spelling[f][1] = "-"
  /\ Given \subseteq DOMAIN Spelling
  /\ Agents \subseteq DOMAIN Spelling /\ Queues \subseteq DOMAIN Spelling
  /\ Uuids \cup Handles \cup Destinations \cup Causes \cup Paths \subseteq DOMAIN Spelling
  /\ "none" \notin Uuids
  /\ MaxCalls \in Nat

(* What a listing shows: finitely many agents and queues, none of them      *)
(* nameless, with their name, status and state among the columns.           *)
ASSUME ListingAssumption ==
  /\ IsFiniteSet(Agents) /\ IsFiniteSet(Queues)
  /\ Agents \cup Queues \subseteq STRING \ {""}
  /\ Contacts \subseteq Seq(STRING)
  /\ \A c \in Columns : c \in Seq(STRING) /\ {"name", "status", "state"} \subseteq Range(c)

VARIABLES
  agents,     \* the switch's agents: [name |-> [contact, status, state]]
  tiers,      \* its tiers: pairs of a queue and an agent
  channels,   \* its channels: [uuid |-> [at, peer]], where the call is and the
              \* channel it is bridged to
  allow,      \* config.allow_mutations
  connected,  \* the client has a connection
  calls,      \* methods called (history)
  call,       \* the one being executed
  due,        \* commands sent and not executed
  runs,       \* how often each command was executed (history)
  reply,      \* the reply on its way to the client
  after,      \* call's command was executed (history): the tables before and
              \* after it, and whether its reply left the switch whole
  result      \* how the last method ended

database == <<agents, tiers, channels>>
client == <<allow, connected, calls, call, result>>
vars == <<agents, tiers, channels, allow, connected, calls, call, due, runs, reply, after, result>>

CC == "callcenter_config"
NoWish == [uuid |-> "none", leg |-> "none", to |-> "none"]
Idle == [id |-> 0, reads |-> "none", parts |-> <<>>, unsafe |-> FALSE, wish |-> NoWish]
Nothing == [come |-> FALSE, text |-> <<>>]
Result(kind, of, rows, value) ==
  [kind |-> kind, id |-> of.id, parts |-> of.parts, wish |-> of.wish,
   rows |-> rows, value |-> value]

Tables == [agents |-> agents, tiers |-> tiers, channels |-> channels]
NoTables == [agents |-> <<>>, tiers |-> {}, channels |-> <<>>]
Unexecuted == [before |-> NoTables, now |-> NoTables, whole |-> FALSE]

-----------------------------------------------------------------------------
(* Names. *)
Count(name, piece) == Cardinality({i \in 1..Len(Spelling[name]) : Spelling[name][i] = piece})

IsAgentName(name) == name \in DOMAIN Spelling /\ Spelling[name] # <<>> /\ Count(name, " ") = 0

(* Fault: any agent name will do. *)
QualifiedLoosely(name) == IsAgentName(name)

IsQualified(name) ==
  /\ IsAgentName(name) /\ Count(name, "@") = 1
  /\ Spelling[name][1] # "@" /\ Spelling[name][Len(Spelling[name])] # "@"

(* _is_valid_sip_profile; agent names may have "@" besides.                 *)
Config == INSTANCE ESLConfig
SafeNames == {n \in DOMAIN Spelling : IsAgentName(n) /\ Count(n, "@") = 0}
IsProfile(name) == Config!normalize_sip_profiles("list", <<name>>, SafeNames) = <<name>>

(* Do the tokens begin with these? *)
Says(parts, verb) == Len(parts) >= Len(verb) /\ SubSeq(parts, 1, Len(verb)) = verb

(* What an "agent set" names is in the charts. *)
InChart(parts) ==
  Says(parts, <<CC, "agent", "set">>) =>
    /\ Len(parts) = 6
    /\ \/ parts[4] = "status" /\ parts[6] \in AgentStatus
       \/ parts[4] = "state" /\ parts[6] \in AgentState

ASSUME RawAssumption == \A p \in Raw : p \in Seq(STRING) /\ p # <<>> /\ InChart(p)

(* Fault: the verb decides. *)
ReadOnlyVerb(parts) == parts[1] \in {"status", "version", "uptime", "help", "show", "sofia", CC}

(* _is_read_only_api_command *)
ReadOnlyForm(parts) ==
  LET n == Len(parts) IN
  \/ n = 1 /\ parts[1] \in {"status", "version", "uptime", "help"}
  \/ n = 2 /\ parts[1] = "show" /\ parts[2] \in {"calls", "channels", "registrations",
       "bridged_calls", "detailed_calls", "detailed_bridged_calls"}
  \/ parts = <<"show", "channels", "as", "json">>
  \/ n = 2 /\ parts[1] = "sofia" /\ parts[2] \in {"status", "xmlstatus"}
  \/ n = 3 /\ parts[1] = CC /\ parts[2] \in {"agent", "queue", "tier"} /\ parts[3] = "list"
  \/ n = 4 /\ Says(parts, <<CC, "agent", "list">>) /\ IsAgentName(parts[4])
  \/ n = 5 /\ Says(parts, <<CC, "agent", "get">>)
           /\ parts[4] \in {"status", "state", "uuid"} /\ IsAgentName(parts[5])
  \/ n \in {4, 5} /\ Says(parts, <<"sofia", "status", "profile">>) /\ IsProfile(parts[4])
                  /\ (n = 5 => parts[5] = "reg")

-----------------------------------------------------------------------------
Init ==
  /\ agents \in [Agents -> [contact : Contacts, status : {"Available"}, state : {"Waiting"}]]
  /\ tiers = Queues \X Agents
  /\ \E bridge \in [Uuids -> Uuids] :
       /\ \A u \in Uuids : bridge[bridge[u]] = u /\ bridge[u] # u
       /\ channels = [u \in Uuids |-> [at |-> "ivr", peer |-> bridge[u]]]
  /\ allow \in BOOLEAN /\ connected = TRUE
  /\ calls = 0 /\ call = Idle /\ due = {} /\ runs = <<>>
  /\ reply = Nothing /\ after = Unexecuted
  /\ result = Result("none", Idle, {}, "")

(* A method's checks, and then api(): NotSupportedError, no connection, or  *)
(* the command goes out.  What is done with the reply is `reads'.           *)
WishMethod(wish, permitted, reads, parts, unsafe) ==
  /\ call = Idle /\ calls < MaxCalls
  /\ LET c == [id |-> calls + 1, reads |-> reads, parts |-> parts, unsafe |-> unsafe,
               wish |-> wish]
     IN  IF permitted /\ connected /\ (unsafe \/ ReadOnlyForm(parts))
         THEN /\ call' = c /\ due' = due \cup {c}
              /\ calls' = calls + 1 /\ runs' = Append(runs, 0)
              /\ result' = Result("none", Idle, {}, "")
         ELSE /\ result' = Result(IF permitted /\ (unsafe \/ ReadOnlyForm(parts))
                                  THEN "lost" ELSE "unsupported", Idle, {}, "")
              /\ UNCHANGED <<calls, call, due, runs>>
  /\ after' = Unexecuted
  /\ UNCHANGED <<database, allow, connected, reply>>

Method(permitted, reads, parts, unsafe) ==
  WishMethod(NoWish, permitted, reads, parts, unsafe)

(* api(), by a caller that may own the risk. *)
Api(parts, unsafe) == Method(TRUE, "text", parts, unsafe)

(* The untyped reads: one command each, or one for each profile. *)
FixedReads ==
  {<<"status">>, <<"sofia", "status">>, <<"sofia", "xmlstatus">>}
  \cup {<<CC, of, "list">> : of \in {"queue", "agent", "tier"}}
SofiaStatus(profile) ==
  Method(IsProfile(profile), "text", <<"sofia", "status", "profile", profile>>, FALSE)

(* _mutate: the only way the methods below set allow_unsafe. *)
Mutate(valid, parts) == Method(valid /\ allow, "ok", parts, TRUE)

DeleteTier(q, a) == Mutate(IsQualified(q) /\ IsQualified(a), <<CC, "tier", "del", q, a>>)
DeleteAgent(a) == Mutate(IsQualified(a), <<CC, "agent", "del", a>>)

(* Fault: any member of the enumeration is sent. *)
SetStatusUnknown(a, s) == Mutate(IsAgentName(a), <<CC, "agent", "set", "status", a, s>>)

SetStatus(a, s) ==
  Mutate(IsAgentName(a) /\ s \in AgentStatus, <<CC, "agent", "set", "status", a, s>>)
SetState(a, s) ==
  Mutate(IsAgentName(a) /\ s \in AgentState, <<CC, "agent", "set", "state", a, s>>)

(* uuid_kill, uuid_attended_transfer and uuid_record; the last word of the  *)
(* second is att_xfer::dial.                                                *)
IsUuid(u) == u \in Uuids
Kill(u, cause) ==
  Mutate(IsUuid(u) /\ \A i \in 1..Len(cause) : IsAgentName(cause[i]), <<"uuid_kill", u>> \o cause)
AttendedTransfer(u, dial) ==
  Mutate(IsUuid(u) /\ IsAgentName(dial), <<"uuid_broadcast", u, dial, "aleg">>)
Record(u, action, path) ==
  Mutate(IsUuid(u) /\ action \in {"start", "stop"} /\ IsAgentName(path) /\ Count(path, "..") = 0,
         <<"uuid_record", u, action, path>>)

(* Fault: a destination may begin with a hyphen. *)
AnyDestination(d) == d \in SafeNames

(* "A leading - would be re-read by the switch as a leg flag." *)
IsDestination(d) == d \in SafeNames /\ Spelling[d][1] # "-"

LegFlag == [aleg |-> <<>>, bleg |-> <<"-bleg">>, both |-> <<"-both">>]

(* uuid_transfer, in the default context or another. *)
Transfer(u, d, leg, context) ==
  WishMethod([uuid |-> u, leg |-> leg, to |-> d], allow /\ IsUuid(u) /\ IsDestination(d), "ok",
             <<"uuid_transfer", u>> \o LegFlag[leg]
             \o <<d, "XML">> \o context, TRUE)

ListAgents == Method(TRUE, "agents", <<CC, "agent", "list">>, FALSE)
ListAgent(a) == Method(IsAgentName(a), "agents", <<CC, "agent", "list", a>>, FALSE)
ListTiers == Method(TRUE, "tiers", <<CC, "tier", "list">>, FALSE)
GetStatus(a) == Method(IsAgentName(a), "status", <<CC, "agent", "get", "status", a>>, FALSE)
GetState(a) == Method(IsAgentName(a), "state", <<CC, "agent", "get", "state", a>>, FALSE)

-----------------------------------------------------------------------------
(* The end of a method. *)
Ended(r) ==
  /\ result' = r
  /\ call' = Idle /\ reply' = Nothing
  /\ UNCHANGED <<database, allow, calls, due, runs, after>>

TakeReply ==
  /\ reply.come
  /\ LET t == reply.text
         of(kind, rows, value) == Ended(Result(kind, call, rows, value))
     IN  CASE call.reads = "ok" -> of(IF ReplyOk(t) THEN "ok"
                                      ELSE IF NotFound(t) THEN "not_found" ELSE "failed", {}, "")
           [] call.reads = "text" -> of("text", {}, "")
           [] call.reads \notin {"ok", "text"} /\ Refused(t) -> of("error", {}, "")
           [] call.reads = "agents" /\ ~Refused(t) -> of("agents", AgentList(t), "")
           [] call.reads = "tiers" /\ ~Refused(t) -> of("tiers", TierList(t), "")
           [] call.reads = "status" /\ ~Refused(t) ->
                of("status", {}, FromText(AgentStatus, BareValue(t)))
           [] call.reads = "state" /\ ~Refused(t) ->
                of("state", {}, FromText(AgentState, BareValue(t)))
  /\ UNCHANGED connected

(* Fault: a command that timed out is sent again. *)
ExpireReplays ==
  /\ call # Idle
  /\ due' = due \cup {call} /\ reply' = Nothing
  /\ UNCHANGED <<database, client, runs, after>>

(* No reply in time, or the connection is lost: closed, never replayed.     *)
Expire ==
  /\ call # Idle
  /\ connected' = FALSE
  /\ \E kind \in {"timeout", "lost"} : Ended(Result(kind, call, {}, ""))

(* connect() and authenticate(). *)
Connect ==
  /\ call = Idle /\ ~connected /\ connected' = TRUE
  /\ UNCHANGED <<database, allow, calls, call, due, runs, reply, after, result>>

-----------------------------------------------------------------------------
(* The switch (mod_callcenter), as the client's code expects it.            *)
AgentRow(a, columns) ==
  LET cell(c) == IF c = "name" THEN <<a>>
                 ELSE IF c = "contact" THEN agents[a].contact
                 ELSE IF c \in {"status", "state"} THEN <<agents[a][c]>> ELSE <<"0">>
  IN  FlattenSeq([i \in 1..Len(columns) |-> cell(columns[i])])

Lines(rows) == SetToSeq({Cells(r) : r \in rows})

AgentTable(names, columns) ==
  <<Cells(columns)>> \o Lines({AgentRow(a, columns) : a \in names \cap DOMAIN agents}) \o <<OkLine>>

TierTable == <<Cells(<<"queue", "agent">>)>> \o Lines(tiers) \o <<OkLine>>

(* The legs a transfer of u means, by the flag the switch reads, and where  *)
(* they go: what follows the flag.                                          *)
Moved(u, flag) ==
  CASE flag = "-bleg" -> {channels[u].peer} [] flag = "-both" -> {u, channels[u].peer}
    [] OTHER -> {u}
Goes(p) == IF Spelling[p[3]][1] = "-" THEN p[4] ELSE p[3]

(* The channels c, those bridged to one of `gone' left alone.               *)
Unbridged(c, gone) ==
  [u \in DOMAIN c |-> IF c[u].peer \in gone THEN [c[u] EXCEPT !.peer = "none"] ELSE c[u]]

Transferred(p) ==
  LET legs == Moved(p[2], p[3])
      left == Unbridged(channels, legs)
  IN  [u \in DOMAIN channels |-> IF u \in legs THEN [at |-> Goes(p), peer |-> "none"] ELSE left[u]]

HungUp(u) == Unbridged(Restrict(channels, DOMAIN channels \ {u}), {u})

(* What executing a command may do: the tables it leaves, and its reply.    *)
Outcomes(p) ==
  LET unchanged(texts) == {[tables |-> Tables, text |-> t] : t \in texts}
      done(tables) == {[tables |-> tables, text |-> <<OkLine>>]}
      notFound == unchanged({<<NotFoundLine>>})
  IN
  CASE Says(p, <<CC, "tier", "del">>) -> done([Tables EXCEPT !.tiers = @ \ {<<p[4], p[5]>>}])
    [] Says(p, <<CC, "agent", "del">>) ->
         done([Tables EXCEPT !.agents = Restrict(agents, DOMAIN agents \ {p[4]})])
    [] Says(p, <<CC, "agent", "set">>) ->
         IF p[5] \in DOMAIN agents
         THEN done([Tables EXCEPT !.agents[p[5]][p[4]] = p[6]]) ELSE notFound
    [] Says(p, <<CC, "agent", "get">>) ->
         IF p[5] \in DOMAIN agents THEN unchanged({<<Cells(<<agents[p[5]][p[4]]>>)>>}) ELSE notFound
    [] Says(p, <<CC, "agent", "list">>) ->
         unchanged({AgentTable(IF Len(p) = 4 THEN {p[4]} ELSE Agents, c) : c \in Columns})
    [] Says(p, <<CC, "tier", "list">>) -> unchanged({TierTable})
    [] p[1] \in {"uuid_kill", "uuid_transfer", "uuid_broadcast", "uuid_record"} ->
         IF p[2] \notin DOMAIN channels THEN notFound
         ELSE CASE p[1] = "uuid_kill" -> done([Tables EXCEPT !.channels = HungUp(p[2])])
                [] p[1] = "uuid_transfer" ->
                     IF p[3] # "-bleg" \/ channels[p[2]].peer # "none"
                     THEN done([Tables EXCEPT !.channels = Transferred(p)]) ELSE {}
                [] OTHER -> done(Tables)
    [] OTHER -> unchanged({<<Cells(<<"text">>)>>})

(* A reply that says nothing, or one whose second line lacks cells.  (One   *)
(* cut inside a last cell the parser takes for whole; it is left out.)      *)
Damaged(t) ==
  {<<>>} \cup
  IF Len(t) >= 3 THEN {[t EXCEPT ![2] = Cells(SubSeq(t[2].cells, 1, 1))]} ELSE {}

(* A command is executed, whether or not the client still waits for it; or  *)
(* refused, without effect.                                                 *)
Execute(c) ==
  /\ c \in due /\ due' = due \ {c}
  /\ \E o \in Outcomes(c.parts)
             \cup {[tables |-> Tables, text |-> t] : t \in {<<RefusalLine>>, <<>>}} :
       /\ agents' = o.tables.agents /\ tiers' = o.tables.tiers /\ channels' = o.tables.channels
       /\ runs' = [runs EXCEPT ![c.id] = IF o.text = <<>> \/ Refused(o.text) THEN @ ELSE @ + 1]
       /\ IF c = call
          THEN \E t \in {o.text} \cup Damaged(o.text) :
                 /\ reply' = [come |-> TRUE, text |-> t]
                 /\ after' = [before |-> Tables, now |-> o.tables,
                              whole |-> t # <<>> /\ t = o.text]
          ELSE UNCHANGED <<reply, after>>
  /\ UNCHANGED client

(* It never reaches the switch. *)
Drop(c) ==
  /\ c \in due /\ c # call /\ due' = due \ {c}
  /\ UNCHANGED <<database, client, runs, reply, after>>

(* reloadxml restores what is provisioned. *)
Provision ==
  /\ \E k \in Contacts :
       agents' = [a \in Agents |-> IF a \in DOMAIN agents THEN agents[a]
                    ELSE [contact |-> k, status |-> "Logged Out", state |-> "Waiting"]]
  /\ tiers' = Queues \X Agents
  /\ UNCHANGED <<channels, client, due, runs, reply, after>>

(* A party hangs up. *)
Hangup(u) ==
  /\ u \in DOMAIN channels /\ channels' = HungUp(u)
  /\ UNCHANGED <<agents, tiers, client, due, runs, reply, after>>
-----------------------------------------------------------------------------
Next ==
  \/ \E p \in Raw : Api(p, FALSE) \/ Api(p, TRUE)
  \/ \E p \in FixedReads : Api(p, FALSE)
  \/ \E p \in Given : SofiaStatus(p)
  \/ \E q, a \in Given : DeleteTier(q, a)
  \/ \E a \in Given : DeleteAgent(a) \/ ListAgent(a) \/ GetStatus(a) \/ GetState(a)
  \/ \E a \in Given, s \in {"Available", "Logged Out", "Unknown"} : SetStatus(a, s)
  \/ \E a \in Given, s \in {"Idle", "Unknown"} : SetState(a, s)
  \/ ListAgents \/ ListTiers
  \/ \E u \in Handles :
       \/ \E c \in Causes : Kill(u, <<>>) \/ Kill(u, <<c>>)
       \/ \E d \in Destinations :
            \/ AttendedTransfer(u, d)
            \/ \E leg \in DOMAIN LegFlag, context \in {<<>>, <<"public">>} :
                 Transfer(u, d, leg, context)
       \/ \E action \in Actions, f \in Paths : Record(u, action, f)
  \/ TakeReply \/ Expire \/ Connect
  \/ \E c \in due : Execute(c) \/ Drop(c)
  \/ Provision \/ \E u \in Uuids : Hangup(u)

Spec == Init /\ [][Next]_vars
-----------------------------------------------------------------------------
TypeOK ==
  /\ DOMAIN agents \subseteq Agents
  /\ \A a \in DOMAIN agents :
       agents[a] \in [contact : Contacts, status : AgentStatus, state : AgentState]
  /\ tiers \subseteq Queues \X Agents
  /\ DOMAIN channels \subseteq Uuids
  /\ \A u \in DOMAIN channels :
       channels[u].peer \in DOMAIN channels => channels[channels[u].peer].peer = u
  /\ allow \in BOOLEAN /\ connected \in BOOLEAN
  /\ calls \in 0..MaxCalls /\ Len(runs) = calls
  /\ call.id \in 0..calls /\ (call # Idle => connected)
  /\ \A c \in due : c.id \in 1..calls
  /\ reply.come => call # Idle

(* However late the switch is and however often the client reconnects, no   *)
(* command is executed twice (_command: "close, never replay"); and what a  *)
(* reply is taken to say is so: ok, that the switch acted on that very      *)
(* command; not_found, that there was nothing there to act on.              *)
AnswersAreTrue ==
  /\ \A i \in 1..calls : runs[i] <= 1
  /\ result.kind = "ok" => runs[result.id] = 1
  /\ result.kind = "not_found" =>
       LET p == result.parts
           t == after.before
       IN  runs[result.id] = 0 /\ (IF p[1] = CC THEN p[5] \notin DOMAIN t.agents
                                                ELSE p[2] \notin DOMAIN t.channels)

(* A transfer that reported success moved the leg it was asked to, to where *)
(* it was asked to, and no other (uuid_transfer: "bleg transfers the other  *)
(* party of the bridge; both redirects both legs").                         *)
NamedLegMoves ==
  result.kind = "ok" /\ result.wish # NoWish =>
    LET w == result.wish
        was == after.before.channels
        legs == IF w.leg = "aleg" THEN {w.uuid}
                ELSE IF w.leg = "bleg" THEN {was[w.uuid].peer} ELSE {w.uuid, was[w.uuid].peer}
    IN  \A c \in DOMAIN was :
          after.now.channels[c].at = IF c \in legs THEN w.to ELSE was[c].at

(* The parts of a name before and after its first "@"; does `name' say      *)
(* `stored'?  It may leave the domain out.                                  *)
At(name) ==
  Min({i \in 1..Len(Spelling[name]) : Spelling[name][i] = "@"} \cup {Len(Spelling[name]) + 1})
Local(name) == SubSeq(Spelling[name], 1, At(name) - 1)
Domain(name) == SubSeq(Spelling[name], At(name) + 1, Len(Spelling[name]))
Means(name, stored) ==
  Local(stored) = Local(name) /\ (Domain(name) = <<>> \/ Domain(stored) = Domain(name))

(* A delete that reported success has left nothing behind for that name,    *)
(* not even in the domain-qualified form the caller did not use             *)
(* (_is_qualified_callcenter_name: no "successful-looking cleanup" may      *)
(* leave "an orphan behind").                                               *)
DeleteLeavesNoOrphan ==
  result.kind = "ok" =>
    LET p == result.parts IN
    /\ Says(p, <<CC, "agent", "del">>) => \A a \in DOMAIN after.now.agents : ~Means(p[4], a)
    /\ Says(p, <<CC, "tier", "del">>) =>
         \A t \in after.now.tiers : ~(Means(p[4], t[1]) /\ Means(p[5], t[2]))

(* A read-only client changes nothing on the switch: what its callers       *)
(* cannot send with allow_unsafe, no sanctioned query form does either.     *)
ReadOnlyNeverWrites ==
  [][~allow /\ (\E c \in due \ due' : ~c.unsafe) => UNCHANGED database]_vars

(* What the typed reads return is what the switch held when it answered, in *)
(* whatever order its columns come: all of it when the reply came whole; a  *)
(* damaged reply can hide rows, but not garble one.                         *)
ReadsExact ==
  LET p == result.parts
      held == after.now.agents
      asked == DOMAIN held \cap IF Len(p) = 4 THEN {p[4]} ELSE Agents
      shown == {[name |-> r.name, status |-> r.status, state |-> r.state] : r \in result.rows}
      agent(a) == [name |-> a, status |-> held[a].status, state |-> held[a].state]
  IN
  CASE result.kind = "agents" ->
         /\ shown \subseteq {agent(a) : a \in asked}
         /\ after.whole => shown = {agent(a) : a \in asked}
    [] result.kind = "tiers" ->
         result.rows \subseteq after.now.tiers /\ (after.whole => result.rows = after.now.tiers)
    [] result.kind \in {"status", "state"} ->
         after.whole => p[5] \in DOMAIN held /\ result.value = held[p[5]][result.kind]
    [] OTHER -> TRUE

(* models/callcenter.py: "the parser keys by header name and never by       *)
(* offset", also when a contact is a dial string with a bar in it.          *)
KeyedByHeader ==
  result.kind = "agents" => \A r \in result.rows : r.status = after.now.agents[r.name].status
=============================================================================
