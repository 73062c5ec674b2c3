-------------------------- MODULE CallCenter_proofs --------------------------
(***************************************************************************)
(* What holds of CallCenter for every set of names, agents, tiers, queues, *)
(* channels and raw commands, and every number of calls.                   *)
(***************************************************************************)
EXTENDS CallCenter, NaturalLemmas, SequenceTheorems, FiniteSetTheorems, TLAPS

LEMMA SaysTokens ==
  ASSUME NEW p, Len(p) \in Nat, NEW a, NEW b, NEW c
  PROVE  Says(p, <<a, b, c>>) <=> Len(p) >= 3 /\ p[1] = a /\ p[2] = b /\ p[3] = c
<1>1. Len(<<a, b, c>>) = 3
  OBVIOUS
<1>2. Len(p) \in Nat
  OBVIOUS
<1>3. ASSUME Len(p) >= 3
      PROVE  SubSeq(p, 1, 3) = <<a, b, c>> <=> p[1] = a /\ p[2] = b /\ p[3] = c
  <2> DEFINE S == {p[i] : i \in 1..3}
             s == SubSeq(p, 1, 3)
  <2>1. \A i \in 1..3 : p[i] \in S
    OBVIOUS
  <2> HIDE DEF S
  <2>2. /\ SubSeq(p, 1, 3) \in Seq(S) /\ Len(SubSeq(p, 1, 3)) = 3
        /\ \A i \in 1..3 : SubSeq(p, 1, 3)[i] = p[i]
    BY <2>1, SubSeqProperties
  <2> HIDE DEF s
  <2>3. s \in Seq(S) /\ Len(s) = 3 /\ s[1] = p[1] /\ s[2] = p[2] /\ s[3] = p[3]
    BY <2>2 DEF s
  <2>4. s = <<s[1], s[2], s[3]>>
    BY <2>3
  <2> QED BY <2>3, <2>4 DEF s
<1> QED BY <1>1, <1>2, <1>3 DEF Says

(* The forms that change tables exclude each other. *)
OtherThan(p, a, c) ==
  /\ \A form \in {<<"tier", "del">>, <<"agent", "del">>, <<"agent", "set">>, <<"agent", "get">>,
                  <<"agent", "list">>, <<"tier", "list">>} :
       form # <<a, c>> => ~Says(p, <<CC, form[1], form[2]>>)
  /\ p[1] \notin {"uuid_kill", "uuid_transfer", "uuid_broadcast", "uuid_record"}

LEMMA FormsExclude ==
  ASSUME NEW p, Len(p) \in Nat, NEW a, NEW c, Says(p, <<CC, a, c>>)
  PROVE  OtherThan(p, a, c)
  BY SaysTokens DEF OtherThan, CC

LEMMA ReadOnlyTokens ==
  ASSUME NEW p, Len(p) \in Nat, ReadOnlyForm(p)
  PROVE  \/ p[1] \in {"status", "version", "uptime", "help", "show", "sofia"}
         \/ p[1] = CC /\ p[3] \in {"list", "get"}
<1> USE DEF CC
<1>1. Says(p, <<CC, "agent", "list">>) => p[1] = CC /\ p[3] = "list"
  BY SaysTokens
<1>2. Says(p, <<CC, "agent", "get">>) => p[1] = CC /\ p[3] = "get"
  BY SaysTokens
<1>3. Says(p, <<"sofia", "status", "profile">>) => p[1] = "sofia"
  BY SaysTokens
<1>4. CASE p = <<"show", "channels", "as", "json">>
  BY <1>4
<1> QED BY <1>1, <1>2, <1>3, <1>4 DEF ReadOnlyForm

(* A sanctioned query form does nothing to the tables. *)
LEMMA QueriesChangeNothing ==
  ASSUME NEW p, Len(p) \in Nat, ReadOnlyForm(p), NEW o \in Outcomes(p)
  PROVE  o.tables = Tables
<1> USE DEF CC
<1>1. /\ p[1] \notin {"uuid_kill", "uuid_transfer", "uuid_broadcast", "uuid_record"}
      /\ ~(p[1] = CC /\ p[3] \in {"del", "set"})
  BY ReadOnlyTokens
<1>2. /\ ~Says(p, <<CC, "tier", "del">>) /\ ~Says(p, <<CC, "agent", "del">>)
      /\ ~Says(p, <<CC, "agent", "set">>)
  BY <1>1, SaysTokens
<1>3. \E t : o = [tables |-> Tables, text |-> t]
  <2> HIDE DEF CC
  <2> QED BY <1>1, <1>2 DEF Outcomes
<1> QED BY <1>3

-----------------------------------------------------------------------------
(* The tables of the switch. *)
AgentRows == [contact : Contacts, status : AgentStatus, state : AgentState]

Bridged(c) ==
  /\ DOMAIN c \subseteq Uuids
  /\ \A u \in DOMAIN c :
       /\ c[u] = [at |-> c[u].at, peer |-> c[u].peer]
       /\ c[u].peer \in DOMAIN c => c[c[u].peer].peer = u

TablesOK(t) ==
  /\ DOMAIN t.agents \subseteq Agents /\ t.agents \in [DOMAIN t.agents -> AgentRows]
  /\ t.tiers \subseteq Queues \X Agents
  /\ Bridged(t.channels)

LEMMA UnbridgedKeeps ==
  ASSUME NEW c, Bridged(c), NEW gone
  PROVE  /\ DOMAIN Unbridged(c, gone) = DOMAIN c
         /\ \A u \in DOMAIN c :
              Unbridged(c, gone)[u] =
                [at |-> c[u].at, peer |-> IF c[u].peer \in gone THEN "none" ELSE c[u].peer]
  BY DEF Unbridged, Bridged

LEMMA TransferredBridged ==
  ASSUME Bridged(channels), NEW p, p[2] \in DOMAIN channels,
         p[3] # "-bleg" \/ channels[p[2]].peer # "none"
  PROVE  /\ Bridged(Transferred(p))
         /\ DOMAIN Transferred(p) = DOMAIN channels
         /\ \A u \in DOMAIN channels :
              Transferred(p)[u].at = IF u \in Moved(p[2], p[3]) THEN Goes(p) ELSE channels[u].at
<1> DEFINE legs == Moved(p[2], p[3])
           to == Goes(p)
           new == Transferred(p)
<1>1. /\ DOMAIN Unbridged(channels, legs) = DOMAIN channels
      /\ \A u \in DOMAIN channels :
              Unbridged(channels, legs)[u] =
                [at |-> channels[u].at,
                 peer |-> IF channels[u].peer \in legs THEN "none" ELSE channels[u].peer]
  BY UnbridgedKeeps
<1>2. /\ DOMAIN new = DOMAIN channels
      /\ \A u \in DOMAIN channels :
           new[u] = IF u \in legs THEN [at |-> to, peer |-> "none"]
                    ELSE [at |-> channels[u].at,
                          peer |-> IF channels[u].peer \in legs THEN "none" ELSE channels[u].peer]
  <2> HIDE DEF legs, to
  <2> QED BY <1>1 DEF Transferred, legs, to
<1> HIDE DEF legs, to, new
<1>3. "none" \notin DOMAIN channels
  BY NameAssumption DEF Bridged
<1>4. ASSUME NEW u \in DOMAIN new, new[u].peer \in DOMAIN new PROVE new[new[u].peer].peer = u
  <2>1. new[u].peer # "none"
    BY <1>2, <1>3, <1>4
  <2>2. u \notin legs /\ channels[u].peer \notin legs /\ new[u].peer = channels[u].peer
    BY <1>2, <2>1
  <2>3. channels[channels[u].peer].peer = u /\ channels[u].peer \in DOMAIN channels
    BY <1>2, <1>4, <2>2 DEF Bridged
  <2> QED BY <1>2, <2>2, <2>3
<1>5. ASSUME NEW u \in DOMAIN new PROVE new[u] = [at |-> new[u].at, peer |-> new[u].peer]
  BY <1>2
<1>6. Bridged(new)
  BY <1>2, <1>4, <1>5 DEF Bridged
<1>7. \A u \in DOMAIN channels : new[u].at = IF u \in legs THEN to ELSE channels[u].at
  BY <1>2
<1> QED BY <1>2, <1>6, <1>7 DEF legs, to, new

LEMMA HungUpBridged ==
  ASSUME Bridged(channels), NEW u
  PROVE  Bridged(HungUp(u))
<1> DEFINE rest == Restrict(channels, DOMAIN channels \ {u})
<1>1. DOMAIN rest = DOMAIN channels \ {u} /\ \A v \in DOMAIN rest : rest[v] = channels[v]
  BY DEF Restrict
<1>2. HungUp(u) = Unbridged(rest, {u})
  BY DEF HungUp
<1> HIDE DEF rest
<1>3. \A v \in DOMAIN rest : rest[v] = [at |-> rest[v].at, peer |-> rest[v].peer]
  BY <1>1 DEF Bridged
<1>4. Bridged(rest)
  BY <1>1, <1>3 DEF Bridged
<1> DEFINE new == Unbridged(rest, {u})
<1>5. /\ DOMAIN new = DOMAIN rest
      /\ \A v \in DOMAIN rest :
           new[v] = [at |-> rest[v].at, peer |-> IF rest[v].peer \in {u} THEN "none" ELSE rest[v].peer]
  BY <1>4, UnbridgedKeeps
<1> HIDE DEF new
<1>6. "none" \notin DOMAIN rest
  BY <1>4, NameAssumption DEF Bridged
<1>7. ASSUME NEW v \in DOMAIN new, new[v].peer \in DOMAIN new PROVE new[new[v].peer].peer = v
  <2>1. new[v].peer = rest[v].peer /\ rest[v].peer \in DOMAIN rest
    BY <1>5, <1>6, <1>7
  <2>2. rest[rest[v].peer].peer = v /\ v # u
    BY <1>1, <1>4, <1>5, <2>1 DEF Bridged
  <2> QED BY <1>5, <2>1, <2>2
<1>8. \A v \in DOMAIN new : new[v] = [at |-> new[v].at, peer |-> new[v].peer]
  BY <1>5
<1> QED BY <1>2, <1>4, <1>5, <1>7, <1>8 DEF Bridged, new

LEMMA OutcomesKeepTables ==
  ASSUME TablesOK(Tables), NEW p, Len(p) \in Nat, InChart(p), NEW o \in Outcomes(p)
  PROVE  TablesOK(o.tables)
<1>1. o.tables = Tables => TablesOK(o.tables)
  OBVIOUS
<1>2. CASE Says(p, <<CC, "tier", "del">>)
  <2>0. Outcomes(p) = {[tables |-> [Tables EXCEPT !.tiers = @ \ {<<p[4], p[5]>>}], text |-> <<OkLine>>]}
    BY <1>2, FormsExclude DEF Outcomes, OtherThan
  <2>1. o.tables = [Tables EXCEPT !.tiers = @ \ {<<p[4], p[5]>>}]
    BY <2>0
  <2> QED BY <2>1 DEF TablesOK, Tables
<1>3. CASE Says(p, <<CC, "agent", "del">>)
  <2>0. Outcomes(p) = {[tables |-> [Tables EXCEPT !.agents = Restrict(agents, DOMAIN agents \ {p[4]})],
                        text |-> <<OkLine>>]}
    BY <1>3, FormsExclude DEF Outcomes, OtherThan
  <2>2. o.tables = [Tables EXCEPT !.agents = Restrict(agents, DOMAIN agents \ {p[4]})]
    BY <2>0
  <2>3. /\ DOMAIN Restrict(agents, DOMAIN agents \ {p[4]}) \subseteq DOMAIN agents
        /\ Restrict(agents, DOMAIN agents \ {p[4]})
             \in [DOMAIN Restrict(agents, DOMAIN agents \ {p[4]}) -> AgentRows]
    BY DEF Restrict, TablesOK, Tables
  <2> QED BY <2>2, <2>3 DEF TablesOK, Tables
<1>4. CASE Says(p, <<CC, "agent", "set">>)
  <2>0. Outcomes(p) = IF p[5] \in DOMAIN agents
                      THEN {[tables |-> [Tables EXCEPT !.agents[p[5]][p[4]] = p[6]], text |-> <<OkLine>>]}
                      ELSE {[tables |-> Tables, text |-> t] : t \in {<<NotFoundLine>>}}
    BY <1>4, FormsExclude DEF Outcomes, OtherThan
  <2>2. \/ o.tables = Tables
        \/ p[5] \in DOMAIN agents /\ o.tables = [Tables EXCEPT !.agents[p[5]][p[4]] = p[6]]
    BY <2>0
  <2>3. CASE p[5] \in DOMAIN agents /\ o.tables = [Tables EXCEPT !.agents[p[5]][p[4]] = p[6]]
    <3>1. o.tables = [Tables EXCEPT !.agents = [agents EXCEPT ![p[5]] = [agents[p[5]] EXCEPT ![p[4]] = p[6]]]]
      BY <2>3 DEF Tables
    <3>2. agents[p[5]] \in AgentRows
      BY <2>3 DEF TablesOK, Tables
    <3>3. [agents[p[5]] EXCEPT ![p[4]] = p[6]] \in AgentRows
      <4>1. CASE p[4] = "status" /\ p[6] \in AgentStatus
        BY <3>2, <4>1 DEF AgentRows
      <4>2. CASE p[4] = "state" /\ p[6] \in AgentState
        BY <3>2, <4>2 DEF AgentRows
      <4> QED BY <1>4, <4>1, <4>2 DEF InChart
    <3> DEFINE row == [agents[p[5]] EXCEPT ![p[4]] = p[6]]
               new == [agents EXCEPT ![p[5]] = row]
    <3>4. /\ DOMAIN agents \subseteq Agents /\ agents \in [DOMAIN agents -> AgentRows]
          /\ tiers \subseteq Queues \X Agents /\ Bridged(channels)
      BY DEF TablesOK, Tables
    <3>5. o.tables = [agents |-> new, tiers |-> tiers, channels |-> channels]
      BY <3>1 DEF Tables
    <3> HIDE DEF row
    <3>6. DOMAIN new = DOMAIN agents /\ new \in [DOMAIN new -> AgentRows]
      BY <3>3, <3>4 DEF row
    <3> HIDE DEF new
    <3> QED BY <3>4, <3>5, <3>6 DEF TablesOK
  <2> QED BY <1>1, <2>2, <2>3
<1>5. CASE p[1] \in {"uuid_kill", "uuid_transfer", "uuid_broadcast", "uuid_record"}
  <2>1. /\ ~Says(p, <<CC, "tier", "del">>) /\ ~Says(p, <<CC, "agent", "del">>)
        /\ ~Says(p, <<CC, "agent", "set">>) /\ ~Says(p, <<CC, "agent", "get">>)
        /\ ~Says(p, <<CC, "agent", "list">>) /\ ~Says(p, <<CC, "tier", "list">>)
    BY <1>5, SaysTokens DEF CC
  <2>2. \/ o.tables = Tables
        \/ o.tables = [Tables EXCEPT !.channels = HungUp(p[2])]
        \/ /\ p[2] \in DOMAIN channels /\ (p[3] # "-bleg" \/ channels[p[2]].peer # "none")
           /\ o.tables = [Tables EXCEPT !.channels = Transferred(p)]
    BY <1>5, <2>1 DEF Outcomes
  <2>3. Bridged(channels)
    BY DEF TablesOK, Tables
  <2> QED BY <1>1, <2>2, <2>3, TransferredBridged, HungUpBridged DEF TablesOK, Tables
<1>6. CASE /\ ~Says(p, <<CC, "tier", "del">>) /\ ~Says(p, <<CC, "agent", "del">>)
           /\ ~Says(p, <<CC, "agent", "set">>)
           /\ p[1] \notin {"uuid_kill", "uuid_transfer", "uuid_broadcast", "uuid_record"}
  BY <1>1, <1>6 DEF Outcomes
<1> QED BY <1>2, <1>3, <1>4, <1>5, <1>6

-----------------------------------------------------------------------------
(* Names.  The first "@" of a name, or the place after its end.             *)
LEMMA FirstAt ==
  ASSUME NEW n \in DOMAIN Spelling
  PROVE  LET s == Spelling[n] IN
         /\ s \in Seq(STRING) /\ Len(s) \in Nat
         /\ At(n) \in 1 .. Len(s) + 1
         /\ At(n) # Len(s) + 1 => s[At(n)] = "@"
         /\ At(n) = Len(s) + 1 => \A i \in 1..Len(s) : s[i] # "@"
<1> DEFINE s == Spelling[n]
           places == {i \in 1..Len(s) : s[i] = "@"} \cup {Len(s) + 1}
<1>1. s \in Seq(STRING)
  BY NameAssumption
<1>2. Len(s) \in Nat
  BY <1>1, LenProperties
<1> HIDE DEF s
<1>3. places \subseteq Nat /\ places # {} /\ Len(s) + 1 \in places
  BY <1>2
<1>4. At(n) = Min(places)
  BY DEF At, s
<1>5. At(n) \in places /\ \A y \in places : At(n) <= y
  <2> HIDE DEF places
  <2>1. PICK k \in places : \A y \in places : k <= y
    BY <1>3, LeastNatural
  <2> QED BY <1>3, <1>4, <2>1 DEF Min
<1>6. At(n) = Len(s) + 1 => \A i \in 1..Len(s) : s[i] # "@"
  BY <1>2, <1>5
<1> QED BY <1>1, <1>2, <1>5, <1>6 DEF s

(* A name with its domain says one stored name, itself. *)
LEMMA QualifiedMeansItself ==
  ASSUME NEW name, IsQualified(name), NEW stored \in DOMAIN Spelling, Means(name, stored)
  PROVE  stored = name
<1> DEFINE s == Spelling[name]
           t == Spelling[stored]
           k == At(name)
           m == At(stored)
<1>0. name \in DOMAIN Spelling
  BY DEF IsQualified, IsAgentName
<1>1. /\ s \in Seq(STRING) /\ Len(s) \in Nat /\ k \in 1 .. Len(s) + 1
      /\ k # Len(s) + 1 => s[k] = "@"
      /\ k = Len(s) + 1 => \A i \in 1..Len(s) : s[i] # "@"
  BY <1>0, FirstAt
<1>2. /\ t \in Seq(STRING) /\ Len(t) \in Nat /\ m \in 1 .. Len(t) + 1
      /\ m # Len(t) + 1 => t[m] = "@"
  BY FirstAt
<1>3. k \in 1..Len(s) - 1 /\ s[k] = "@"
  <2>1. \E i \in 1..Len(s) : s[i] = "@"
    <3>1. {i \in 1..Len(s) : s[i] = "@"} # {}
      BY FS_EmptySet DEF IsQualified, Count
    <3> QED BY <3>1
  <2>2. s[Len(s)] # "@"
    BY DEF IsQualified
  <2> HIDE DEF s, k
  <2> QED BY <1>1, <2>1, <2>2
<1>4. /\ Local(name) = SubSeq(s, 1, k - 1) /\ Domain(name) = SubSeq(s, k + 1, Len(s))
      /\ Local(stored) = SubSeq(t, 1, m - 1) /\ Domain(stored) = SubSeq(t, m + 1, Len(t))
  BY DEF Local, Domain
<1>5. s = t => name = stored
  BY <1>0, NameAssumption
<1> HIDE DEF s, t, k, m
<1>6. /\ Len(Local(name)) = k - 1 /\ \A i \in 1..(k - 1) : Local(name)[i] = s[i]
      /\ Len(Domain(name)) = Len(s) - k /\ \A i \in 1..(Len(s) - k) : Domain(name)[i] = s[k + i]
  BY <1>1, <1>3, <1>4, SubSeqProperties
<1>7. /\ Len(Local(stored)) = m - 1 /\ \A i \in 1..(m - 1) : Local(stored)[i] = t[i]
      /\ Len(Domain(stored)) = IF m <= Len(t) THEN Len(t) - m ELSE 0
      /\ \A i \in 1..(Len(t) - m) : Domain(stored)[i] = t[m + i]
  BY <1>1, <1>2, <1>4, SubSeqProperties
<1>8. Local(stored) = Local(name) /\ Domain(stored) = Domain(name)
  <2>1. Domain(name) # <<>>
    BY <1>1, <1>3, <1>6
  <2> QED BY <2>1 DEF Means
<1>9. m = k /\ Len(t) = Len(s)
  BY <1>1, <1>2, <1>3, <1>6, <1>7, <1>8
<1>10. ASSUME NEW i \in 1..Len(s) PROVE t[i] = s[i]
  <2>1. CASE i < k
    <3>1. i \in 1..(k - 1)
      BY <1>1, <1>3, <2>1
    <3> QED BY <1>6, <1>7, <1>8, <1>9, <3>1
  <2>2. CASE i = k
    BY <1>2, <1>3, <1>9, <2>2
  <2>3. CASE i > k
    <3>1. i - k \in 1..(Len(s) - k) /\ i = k + (i - k)
      BY <1>1, <1>3, <2>3
    <3>2. Domain(name)[i - k] = s[k + (i - k)] /\ Domain(stored)[i - k] = t[m + (i - k)]
      BY <1>6, <1>7, <1>9, <3>1
    <3> QED BY <1>8, <1>9, <3>1, <3>2
  <2> QED BY <1>1, <1>3, <2>1, <2>2, <2>3
<1>11. s = t
  BY <1>1, <1>2, <1>9, <1>10, SeqEqual
<1> QED BY <1>5, <1>11

-----------------------------------------------------------------------------
(* What the mutating methods send, and what they were asked for. *)
SentTransfer(p, w) ==
  /\ p[1] = "uuid_transfer" /\ p[2] = w.uuid /\ IsDestination(w.to)
  /\ \/ w.leg = "aleg" /\ p[3] = w.to
     \/ w.leg = "bleg" /\ p[3] = "-bleg" /\ p[4] = w.to
     \/ w.leg = "both" /\ p[3] = "-both" /\ p[4] = w.to

Mutation(p, w) ==
  \/ /\ w = NoWish
     /\ \/ Says(p, <<CC, "tier", "del">>) /\ IsQualified(p[4]) /\ IsQualified(p[5])
        \/ Says(p, <<CC, "agent", "del">>) /\ IsQualified(p[4])
        \/ Says(p, <<CC, "agent", "set">>)
        \/ p[1] \in {"uuid_kill", "uuid_broadcast", "uuid_record"}
  \/ SentTransfer(p, w)

(* What an ok and a not_found say. *)
Legs(w, c) ==
  IF w.leg = "aleg" THEN {w.uuid}
  ELSE IF w.leg = "bleg" THEN {c[w.uuid].peer} ELSE {w.uuid, c[w.uuid].peer}

Promised(p, w, was, now) ==
  /\ w # NoWish =>
       \A c \in DOMAIN was.channels :
         now.channels[c].at = IF c \in Legs(w, was.channels) THEN w.to ELSE was.channels[c].at
  /\ Says(p, <<CC, "agent", "del">>) => \A a \in DOMAIN now.agents : ~Means(p[4], a)
  /\ Says(p, <<CC, "tier", "del">>) =>
       \A t \in now.tiers : ~(Means(p[4], t[1]) /\ Means(p[5], t[2]))

Absent(p, t) == IF p[1] = CC THEN p[5] \notin DOMAIN t.agents ELSE p[2] \notin DOMAIN t.channels

LEMMA FlagsBeginWithHyphen ==
  ASSUME NEW d, IsDestination(d)
  PROVE  /\ d \notin {"-bleg", "-both"} /\ Spelling[d][1] # "-"
         /\ Spelling["-bleg"][1] = "-" /\ Spelling["-both"][1] = "-"
  BY NameAssumption DEF IsDestination

LEMMA TransferMoves ==
  ASSUME Bridged(channels), NEW p, NEW w, SentTransfer(p, w), p[2] \in DOMAIN channels,
         p[3] # "-bleg" \/ channels[p[2]].peer # "none"
  PROVE  \A c \in DOMAIN channels :
           Transferred(p)[c].at = IF c \in Legs(w, channels) THEN w.to ELSE channels[c].at
<1>0. /\ w.to \notin {"-bleg", "-both"} /\ Spelling[w.to][1] # "-"
      /\ Spelling["-bleg"][1] = "-" /\ Spelling["-both"][1] = "-"
  BY FlagsBeginWithHyphen DEF SentTransfer
<1>1. Moved(p[2], p[3]) = Legs(w, channels)
  BY <1>0 DEF SentTransfer, Moved, Legs
<1>2. Goes(p) = w.to
  BY <1>0 DEF SentTransfer, Goes
<1> QED BY <1>1, <1>2, TransferredBridged

LEMMA MutationOutcomes ==
  ASSUME TablesOK(Tables), NEW p, Len(p) \in Nat, NEW w, Mutation(p, w), NEW o \in Outcomes(p)
  PROVE  \/ o.text = <<OkLine>> /\ Promised(p, w, Tables, o.tables)
         \/ o.text = <<NotFoundLine>> /\ o.tables = Tables /\ Absent(p, Tables)
<1>0. /\ DOMAIN agents \subseteq DOMAIN Spelling
      /\ \A t \in tiers : t[1] \in DOMAIN Spelling /\ t[2] \in DOMAIN Spelling /\ t = <<t[1], t[2]>>
      /\ Bridged(channels)
  BY NameAssumption DEF TablesOK, Tables
<1>1. CASE /\ Says(p, <<CC, "tier", "del">>) /\ IsQualified(p[4]) /\ IsQualified(p[5])
           /\ w = NoWish
  <2>1. OtherThan(p, "tier", "del")
    BY <1>1, FormsExclude
  <2>2. Outcomes(p) = {[tables |-> [Tables EXCEPT !.tiers = @ \ {<<p[4], p[5]>>}], text |-> <<OkLine>>]}
    BY <1>1, <2>1 DEF Outcomes, OtherThan
  <2>3. o.text = <<OkLine>> /\ o.tables.tiers = tiers \ {<<p[4], p[5]>>}
    BY <2>2 DEF Tables
  <2>4. ASSUME NEW t \in tiers, Means(p[4], t[1]), Means(p[5], t[2]) PROVE t = <<p[4], p[5]>>
    BY <1>0, <1>1, <2>4, QualifiedMeansItself
  <2>5. ~Says(p, <<CC, "agent", "del">>)
    BY <2>1 DEF OtherThan
  <2> QED BY <1>1, <2>3, <2>4, <2>5 DEF Promised
<1>2. CASE Says(p, <<CC, "agent", "del">>) /\ IsQualified(p[4]) /\ w = NoWish
  <2>1. OtherThan(p, "agent", "del")
    BY <1>2, FormsExclude
  <2>2. Outcomes(p) = {[tables |-> [Tables EXCEPT !.agents = Restrict(agents, DOMAIN agents \ {p[4]})],
                        text |-> <<OkLine>>]}
    BY <1>2, <2>1 DEF Outcomes, OtherThan
  <2>3. o.text = <<OkLine>> /\ DOMAIN o.tables.agents = DOMAIN agents \ {p[4]}
    BY <2>2 DEF Tables, Restrict
  <2>4. ASSUME NEW a \in DOMAIN agents, Means(p[4], a) PROVE a = p[4]
    BY <1>0, <1>2, <2>4, QualifiedMeansItself
  <2>5. ~Says(p, <<CC, "tier", "del">>)
    BY <2>1 DEF OtherThan
  <2> QED BY <1>2, <2>3, <2>4, <2>5 DEF Promised
<1>3. CASE Says(p, <<CC, "agent", "set">>) /\ w = NoWish
  <2>1. OtherThan(p, "agent", "set") /\ p[1] = CC
    BY <1>3, FormsExclude, SaysTokens
  <2>2. Outcomes(p) = IF p[5] \in DOMAIN agents
                      THEN {[tables |-> [Tables EXCEPT !.agents[p[5]][p[4]] = p[6]], text |-> <<OkLine>>]}
                      ELSE {[tables |-> Tables, text |-> t] : t \in {<<NotFoundLine>>}}
    BY <1>3, <2>1 DEF Outcomes, OtherThan
  <2>3. ~Says(p, <<CC, "tier", "del">>) /\ ~Says(p, <<CC, "agent", "del">>)
    BY <2>1 DEF OtherThan
  <2>4. Promised(p, w, Tables, o.tables)
    BY <1>3, <2>3 DEF Promised
  <2>5. CASE p[5] \in DOMAIN agents
    BY <2>2, <2>4, <2>5
  <2>6. CASE p[5] \notin DOMAIN agents
    BY <2>1, <2>2, <2>6 DEF Absent, Tables
  <2> QED BY <2>5, <2>6
<1>4. CASE (p[1] \in {"uuid_kill", "uuid_broadcast", "uuid_record"} /\ w = NoWish) \/ SentTransfer(p, w)
  <2>0. p[1] \in {"uuid_kill", "uuid_transfer", "uuid_broadcast", "uuid_record"} /\ p[1] # CC
    BY <1>4 DEF SentTransfer, CC
  <2>1. /\ ~Says(p, <<CC, "tier", "del">>) /\ ~Says(p, <<CC, "agent", "del">>)
        /\ ~Says(p, <<CC, "agent", "set">>) /\ ~Says(p, <<CC, "agent", "get">>)
        /\ ~Says(p, <<CC, "agent", "list">>) /\ ~Says(p, <<CC, "tier", "list">>)
    BY <2>0, SaysTokens
  <2>2. \/ o.text = <<NotFoundLine>> /\ o.tables = Tables /\ p[2] \notin DOMAIN channels
        \/ /\ o.text = <<OkLine>> /\ p[2] \in DOMAIN channels
           /\ \/ p[1] # "uuid_transfer"
              \/ /\ p[3] # "-bleg" \/ channels[p[2]].peer # "none"
                 /\ o.tables = [Tables EXCEPT !.channels = Transferred(p)]
    BY <2>0, <2>1 DEF Outcomes
  <2>3. CASE o.text = <<NotFoundLine>> /\ o.tables = Tables /\ p[2] \notin DOMAIN channels
    BY <2>0, <2>3 DEF Absent, Tables
  <2>4. CASE o.text = <<OkLine>> /\ p[1] # "uuid_transfer"
    BY <1>4, <2>1, <2>4 DEF Promised, SentTransfer
  <2>5. CASE /\ o.text = <<OkLine>> /\ p[1] = "uuid_transfer" /\ p[2] \in DOMAIN channels
             /\ p[3] # "-bleg" \/ channels[p[2]].peer # "none"
             /\ o.tables = [Tables EXCEPT !.channels = Transferred(p)]
    <3>1. SentTransfer(p, w)
      BY <1>4, <2>5
    <3>2. o.tables.channels = Transferred(p) /\ Tables.channels = channels
      BY <2>5 DEF Tables
    <3> QED BY <1>0, <2>1, <2>5, <3>1, <3>2, TransferMoves DEF Promised
  <2> QED BY <2>2, <2>3, <2>4, <2>5
<1> QED BY <1>1, <1>2, <1>3, <1>4 DEF Mutation

-----------------------------------------------------------------------------
(* The replies a mutation may get, and what the client reads in them. *)
LEMMA OneLine ==
  ASSUME NEW l, l.kind # "blank"
  PROVE  /\ Written(<<l>>) # {} /\ FirstLine(<<l>>) = l
         /\ \A kind : Begins(<<l>>, kind) <=> l.kind = kind
<1>1. Written(<<l>>) = {1}
  BY DEF Written
<1>2. Min({1}) = 1
  BY DEF Min
<1>3. FirstLine(<<l>>) = l
  BY <1>1, <1>2 DEF FirstLine
<1> QED BY <1>1, <1>3 DEF Begins

LEMMA Replies ==
  /\ ~ReplyOk(<<>>) /\ ~NotFound(<<>>) /\ ~Refused(<<>>)
  /\ ReplyOk(<<OkLine>>) /\ ~Refused(<<OkLine>>) /\ ~NotFound(<<OkLine>>)
  /\ ~ReplyOk(<<RefusalLine>>) /\ Refused(<<RefusalLine>>) /\ ~NotFound(<<RefusalLine>>)
  /\ ~ReplyOk(<<NotFoundLine>>) /\ Refused(<<NotFoundLine>>)
<1>1. Written(<<>>) = {}
  BY DEF Written
<1>2. ~ReplyOk(<<>>) /\ ~NotFound(<<>>) /\ ~Refused(<<>>)
  BY <1>1 DEF ReplyOk, NotFound, Refused, Begins
<1>3. OkLine.kind = "ok" /\ RefusalLine.kind = "refusal" /\ NotFoundLine.kind = "refusal"
  BY DEF OkLine, RefusalLine, NotFoundLine
<1>4. ReplyOk(<<OkLine>>) /\ ~Refused(<<OkLine>>) /\ ~NotFound(<<OkLine>>)
  BY <1>3, OneLine DEF ReplyOk, Refused, NotFound
<1>5. /\ ~ReplyOk(<<RefusalLine>>) /\ Refused(<<RefusalLine>>)
      /\ ~ReplyOk(<<NotFoundLine>>) /\ Refused(<<NotFoundLine>>)
  BY <1>3, OneLine DEF ReplyOk, Refused
<1>6. ~NotFound(<<RefusalLine>>)
  <2>1. FirstLine(<<RefusalLine>>) = RefusalLine
    BY <1>3, OneLine
  <2>2. NotFoundText # "-ERR"
    BY DEF NotFoundText
  <2>3. Range(RefusalLine.cells) = {"-ERR"}
    BY DEF RefusalLine, Range
  <2> QED BY <2>1, <2>2, <2>3 DEF NotFound
<1> QED BY <1>2, <1>4, <1>5, <1>6

-----------------------------------------------------------------------------
(* Cells that are one each, put in a row, are those cells. *)
LEMMA Flattened ==
  ASSUME NEW S, NEW v \in Seq(S)
  PROVE  FlattenSeq([i \in 1..Len(v) |-> <<v[i]>>]) = v
<1> DEFINE n == Len(v)
           s == [i \in 1..n |-> <<v[i]>>]
           Steps_(g) == g = [i \in 1..n |-> IF i = 1 THEN s[i] ELSE g[i - 1] \o s[i]]
           f == [i \in 1..n |-> SubSeq(v, 1, i)]
           flatten == CHOOSE g : Steps_(g)
<1>1. n \in Nat /\ (\A i \in 1..n : v[i] \in S) /\ s \in Seq(Seq(S)) /\ Len(s) = n
  <2>1. n \in Nat /\ (\A i \in 1..n : v[i] \in S)
    BY LenProperties
  <2>2. s \in [1..n -> Seq(S)]
    BY <2>1
  <2> QED BY <2>1, <2>2
<1>2. CASE n = 0
  <2>1. s = <<>> /\ v = <<>>
    BY <1>1, <1>2
  <2> QED BY <1>1, <1>2, <2>1 DEF FlattenSeq
<1>3. CASE n # 0
  <2>1. Steps_(f)
    <3>1. ASSUME NEW i \in 1..n PROVE f[i] = IF i = 1 THEN s[i] ELSE f[i - 1] \o s[i]
      <4>1. CASE i = 1
        <5>1. /\ SubSeq(v, 1, 1) \in Seq(S) /\ Len(SubSeq(v, 1, 1)) = 1
              /\ SubSeq(v, 1, 1)[1] = v[1]
          BY <1>1, <1>3, SubSeqProperties
        <5>2. <<v[1]>> \in Seq(S) /\ Len(<<v[1]>>) = 1 /\ <<v[1]>>[1] = v[1]
          BY <1>1, <1>3
        <5> DEFINE a == SubSeq(v, 1, 1)
                   b == <<v[1]>>
        <5>3. a = b
          <6> HIDE DEF a, b
          <6>1. /\ a \in Seq(S) /\ b \in Seq(S) /\ Len(a) = 1 /\ Len(b) = 1
                /\ \A j \in 1..1 : a[j] = b[j]
            BY <5>1, <5>2 DEF a, b
          <6> QED BY <6>1, SeqEqual
        <5> QED BY <4>1, <5>3
      <4>2. CASE i # 1
        <5>1. i - 1 \in 1..n /\ f[i - 1] = SubSeq(v, 1, i - 1) /\ f[i] = SubSeq(v, 1, i)
          BY <1>1, <4>2
        <5>2. /\ SubSeq(v, 1, i - 1) \in Seq(S) /\ Len(SubSeq(v, 1, i - 1)) = i - 1
              /\ \A j \in 1..(i - 1) : SubSeq(v, 1, i - 1)[j] = v[j]
          BY <1>1, <4>2, SubSeqProperties
        <5>3. /\ SubSeq(v, 1, i) \in Seq(S) /\ Len(SubSeq(v, 1, i)) = i
              /\ \A j \in 1..i : SubSeq(v, 1, i)[j] = v[j]
          BY <1>1, SubSeqProperties
        <5>4. <<v[i]>> \in Seq(S) /\ Len(<<v[i]>>) = 1 /\ <<v[i]>>[1] = v[i]
          BY <1>1
        <5> DEFINE a == SubSeq(v, 1, i - 1)
                   b == <<v[i]>>
        <5>5. /\ a \o b \in Seq(S) /\ Len(a \o b) = i
              /\ \A j \in 1..i : (a \o b)[j] = v[j]
          <6> HIDE DEF a, b
          <6>1. a \in Seq(S) /\ b \in Seq(S) /\ Len(a) = i - 1 /\ Len(b) = 1 /\ b[1] = v[i]
                /\ (\A j \in 1..(i - 1) : a[j] = v[j]) /\ i \in Nat
            BY <5>2, <5>4, <1>1 DEF a, b
          <6>2. /\ a \o b \in Seq(S) /\ Len(a \o b) = Len(a) + Len(b)
                /\ \A j \in 1..(Len(a) + Len(b)) :
                     (a \o b)[j] = IF j <= Len(a) THEN a[j] ELSE b[j - Len(a)]
            BY <6>1, ConcatProperties, ZenonT(30)
          <6> DEFINE ab == a \o b
          <6> HIDE DEF ab
          <6>3. ab \in Seq(S) /\ Len(ab) = i /\ \A j \in 1..i : ab[j] = v[j]
            BY <6>1, <6>2 DEF ab
          <6> QED BY <6>3 DEF ab
        <5>6. a \o b = SubSeq(v, 1, i)
          <6> HIDE DEF a, b
          <6> QED BY <5>3, <5>5, SeqEqual
        <5> QED BY <4>2, <5>1, <5>6
      <4> QED BY <4>1, <4>2
    <3> QED BY <3>1
  <2>2. Steps_(flatten)
    BY <2>1
  <2>3. ASSUME NEW i \in 1..n PROVE flatten[i] = IF i = 1 THEN s[i] ELSE flatten[i - 1] \o s[i]
    <3> HIDE DEF flatten, s
    <3> QED BY <2>2
  <2>4. ASSUME NEW i \in 1..n PROVE f[i] = IF i = 1 THEN s[i] ELSE f[i - 1] \o s[i]
    <3> HIDE DEF f, s
    <3> QED BY <2>1
  <2> DEFINE P == {i \in 0..(n - 1) : flatten[i + 1] = f[i + 1]}
  <2> HIDE DEF flatten, f, s
  <2>5. 0 \in P
    BY <1>1, <1>3, <2>3, <2>4
  <2>6. ASSUME NEW i \in 0..((n - 1) - 1), i \in P PROVE i + 1 \in P
    <3>1. (i + 1) + 1 \in 1..n /\ (i + 1) + 1 # 1 /\ ((i + 1) + 1) - 1 = i + 1
      BY <1>1
    <3> QED BY <1>1, <2>3, <2>4, <2>6, <3>1
  <2>7. 0..(n - 1) \subseteq P
    <3>1. n - 1 \in Nat
      BY <1>1, <1>3
    <3> HIDE DEF P, n
    <3> QED BY <3>1, <2>5, <2>6, SetInduction
  <2>8. flatten[n] = f[n]
    <3>1. n - 1 \in 0..(n - 1) /\ (n - 1) + 1 = n
      <4> HIDE DEF n
      <4> QED BY <1>1, <1>3
    <3> QED BY <2>7, <3>1
  <2>9. f[n] = v
    BY <1>1, <1>3, SubSeqFull DEF f
  <2>10. FlattenSeq(s) = flatten[n]
    BY <1>1, <1>3 DEF FlattenSeq, flatten
  <2> QED BY <2>8, <2>9, <2>10 DEF s
<1> QED BY <1>2, <1>3

(* A finite set in some order: its elements, and no other. *)
LEMMA Ordered ==
  ASSUME NEW S, IsFiniteSet(S)
  PROVE  /\ SetToSeq(S) \in Seq(S)
         /\ \A x \in S : \E i \in 1..Len(SetToSeq(S)) : SetToSeq(S)[i] = x
<1> DEFINE n == Cardinality(S)
           q == SetToSeq(S)
<1>1. n \in Nat /\ ExistsBijection(1..n, S)
  BY FS_NatBijection, FS_CardinalityType
<1>2. \E f \in [1..n -> S] : IsInjective(f)
  BY <1>1 DEF ExistsBijection, Bijection, Injection
<1>3. q \in [1..n -> S] /\ IsInjective(q)
  BY <1>2 DEF SetToSeq
<1> HIDE DEF q
<1>4. q \in Injection(1..n, S)
  BY <1>3 DEF Injection
<1>5. Cardinality(1..n) = Cardinality(S)
  BY <1>1, FS_Interval
<1> HIDE DEF n
<1>6. q \in Surjection(1..n, S)
  BY <1>4, <1>5, FS_Injection
<1>7. q \in Seq(S) /\ Len(q) = n
  BY <1>1, <1>3
<1>8. \A x \in S : \E i \in 1..n : q[i] = x
  BY <1>6 DEF Surjection
<1> QED BY <1>7, <1>8 DEF q

(* The texts of cells.  All of them are strings, which the provers do not   *)
(* know of a quoted one.                                                    *)
Words == STRING \cup {"0", "queue", "agent"} \cup AgentStatus \cup AgentState

(* Each of the cells v, below the header h, is what g has for its column. *)
Keyed(h, v, g) == \A i \in 1..Len(h) : v[i] = g[h[i]]

(* A row keyed by its header, when each cell depends on its column only. *)
LEMMA RowIs ==
  ASSUME NEW h \in Seq(Words), NEW v, NEW g, Keyed(h, v, g),
         NEW c \in Range(h) \ {""}
  PROVE  c \in DOMAIN Row(h, v) /\ Row(h, v)[c] = g[c]
<1>1. Len(h) \in Nat /\ DOMAIN h = 1..Len(h)
  BY LenProperties
<1>2. Row(h, v)[c] = g[c]
  <2> DEFINE places == {i \in 1..Len(h) : h[i] = c}
  <2>1. places # {} /\ places \subseteq 1..Len(h)
    BY <1>1 DEF Range
  <2>2. \E x \in places : \A y \in places : x >= y
    <3> HIDE DEF places
    <3>1. \E x \in places : \A y \in places : y <= x
      BY <1>1, <2>1, GreatestPlace
    <3> QED BY <1>1, <2>1, <3>1
  <2>3. Max(places) \in places
    <3> HIDE DEF places
    <3> QED BY <2>2 DEF Max
  <2>4. Row(h, v)[c] = v[Max(places)]
    BY DEF Row
  <2> QED BY <2>3, <2>4 DEF Keyed
<1> QED BY <1>2 DEF Row

(* The rows of a reply whose first line is the header. *)
LEMMA TableIs ==
  ASSUME NEW text, Len(text) \in Nat, Len(text) >= 1, NEW h, text[1] = Cells(h)
  PROVE  Table(text) =
           {Row(h, text[i].cells) :
              i \in {j \in 2..Len(text) : text[j].kind \notin {"blank", "ok"} /\ Len(text[j].cells) >= Len(h)}}
<1> DEFINE lines == {i \in 1..Len(text) : text[i].kind \notin {"blank", "ok"}}
<1>1. text[1].kind = "cells" /\ text[1].cells = h
  BY DEF Cells
<1>2. 1 \in lines /\ \A y \in lines : 1 <= y
  BY <1>1
<1>3. Min(lines) = 1
  <2>1. lines \subseteq Nat
    OBVIOUS
  <2> HIDE DEF lines
  <2>2. Min(lines) \in lines /\ \A y \in lines : Min(lines) =< y
    BY <1>2, <2>1 DEF Min
  <2> DEFINE m == Min(lines)
  <2>3. m \in Nat /\ 1 <= m /\ m <= 1
    BY <1>2, <2>1, <2>2
  <2> HIDE DEF m
  <2>4. m = 1
    BY <2>3
  <2> QED BY <2>4 DEF m
<1>4. {j \in lines : Min(lines) < j /\ Len(text[j].cells) >= Len(h)} =
      {j \in 2..Len(text) : text[j].kind \notin {"blank", "ok"} /\ Len(text[j].cells) >= Len(h)}
  <2> DEFINE Whole(j) == text[j].kind \notin {"blank", "ok"} /\ Len(text[j].cells) >= Len(h)
             A == {j \in lines : Min(lines) < j /\ Len(text[j].cells) >= Len(h)}
             B == {j \in 2..Len(text) : Whole(j)}
  <2>1. ASSUME NEW j PROVE j \in A <=> j \in 1..Len(text) /\ 1 < j /\ Whole(j)
    BY <1>3
  <2>2. ASSUME NEW j PROVE j \in B <=> j \in 1..Len(text) /\ 1 < j /\ Whole(j)
    <3> HIDE DEF Whole
    <3> QED OBVIOUS
  <2>3. A = B
    <3> HIDE DEF A, B, Whole
    <3> QED BY <2>1, <2>2
  <2> QED BY <2>3
<1> QED BY <1>1, <1>3, <1>4 DEF Table

(* A reply of no lines has no rows. *)
LEMMA EmptyTable == Table(<<>>) = {}
<1>1. {i \in 1..Len(<<>>) : <<>>[i].kind \notin {"blank", "ok"}} = {}
  OBVIOUS
<1> QED BY <1>1 DEF Table

(* The lines of a listing: its header, its rows in some order, and +OK. *)
Listing(h, R) == <<Cells(h)>> \o Lines(R) \o <<OkLine>>

(* It has those lines and no others, the header first. *)
LEMMA ListingIs ==
  ASSUME NEW h \in Seq(Words), NEW R, IsFiniteSet(R), R \subseteq Seq(Words)
  PROVE  LET t == Listing(h, R) IN
         /\ Len(t) \in Nat /\ Len(t) >= 2 /\ DOMAIN t = 1..Len(t) /\ \E S : t \in Seq(S)
         /\ t[1] = Cells(h) /\ t[Len(t)] = OkLine
         /\ \A i \in 2..(Len(t) - 1) : \E r \in R : t[i] = Cells(r)
         /\ \A r \in R : \E i \in 2..(Len(t) - 1) : t[i] = Cells(r)
<1> DEFINE C == {Cells(r) : r \in R}
           q == SetToSeq(C)
           Line == C \cup {Cells(h), OkLine}
           b == <<Cells(h)>>
           o == <<OkLine>>
           t == b \o q \o o
<1>1. IsFiniteSet(C)
  <2> DEFINE f == [r \in R |-> Cells(r)]
  <2>1. f \in Surjection(R, C)
    BY DEF Surjection
  <2> HIDE DEF f, C
  <2> QED BY <2>1, FS_Surjection
<1>2. /\ q \in Seq(C) /\ \A x \in C : \E i \in 1..Len(q) : q[i] = x
  <2> HIDE DEF C
  <2> QED BY <1>1, Ordered
<1>3. /\ b \in Seq(Line) /\ Len(b) = 1 /\ b[1] = Cells(h)
      /\ o \in Seq(Line) /\ Len(o) = 1 /\ o[1] = OkLine
  OBVIOUS
<1>4. q \in Seq(Line) /\ Len(q) \in Nat /\ \A i \in 1..Len(q) : q[i] \in C
  <2> HIDE DEF C, q
  <2>1. Len(q) \in Nat /\ \A i \in 1..Len(q) : q[i] \in C
    BY <1>2, LenProperties
  <2>2. C \subseteq Line
    OBVIOUS
  <2> HIDE DEF Line
  <2> QED BY <1>2, <2>1, <2>2
<1> HIDE DEF b, o, q, C, Line
<1> DEFINE bq == b \o q
<1>5. /\ bq \in Seq(Line) /\ Len(bq) = 1 + Len(q)
      /\ \A j \in 1..(1 + Len(q)) : bq[j] = IF j <= 1 THEN b[j] ELSE q[j - 1]
  <2>1. Len(b) = 1 /\ b \in Seq(Line) /\ q \in Seq(Line)
    BY <1>3, <1>4
  <2>2. /\ Len(b \o q) = Len(b) + Len(q) /\ b \o q \in Seq(Line)
        /\ \A j \in 1..(Len(b) + Len(q)) : (b \o q)[j] = IF j <= Len(b) THEN b[j] ELSE q[j - Len(b)]
    BY <2>1, ConcatProperties, ZenonT(30)
  <2> QED BY <2>1, <2>2 DEF bq
<1> HIDE DEF bq
<1>o. Len(o) = 1 /\ o \in Seq(Line) /\ bq \in Seq(Line)
  BY <1>3, <1>5
<1>c. /\ Len(bq \o o) = Len(bq) + Len(o)
      /\ \A j \in 1..(Len(bq) + Len(o)) : (bq \o o)[j] = IF j <= Len(bq) THEN bq[j] ELSE o[j - Len(bq)]
      /\ bq \o o \in Seq(Line)
  BY <1>o, ConcatProperties, ZenonT(30)
<1>6. /\ Len(bq \o o) = Len(bq) + 1
      /\ \A j \in 1..(Len(bq) + 1) : (bq \o o)[j] = IF j <= Len(bq) THEN bq[j] ELSE o[j - Len(bq)]
      /\ bq \o o \in Seq(Line)
  BY <1>o, <1>c
<1>7. t = bq \o o
  BY DEF bq
<1> HIDE DEF t
<1>8. /\ Len(t) = Len(q) + 2 /\ DOMAIN t = 1..Len(t) /\ t[1] = Cells(h) /\ t[Len(q) + 2] = OkLine
      /\ \A j \in 1..Len(q) : t[j + 1] = q[j]
  <2>1. DOMAIN t = 1..Len(t)
    BY <1>6, <1>7, LenProperties
  <2> QED BY <1>3, <1>4, <1>5, <1>6, <1>7, <2>1
<1>9. \A i \in 2..(Len(t) - 1) : \E r \in R : t[i] = Cells(r)
  <2> SUFFICES ASSUME NEW i \in 2..(Len(t) - 1) PROVE \E r \in R : t[i] = Cells(r)
    OBVIOUS
  <2>1. i - 1 \in 1..Len(q) /\ (i - 1) + 1 = i
    BY <1>4, <1>8
  <2>2. t[i] = q[i - 1] /\ q[i - 1] \in C
    BY <1>4, <1>8, <2>1
  <2> QED BY <2>2 DEF C
<1>10. \A r \in R : \E i \in 2..(Len(t) - 1) : t[i] = Cells(r)
  <2> SUFFICES ASSUME NEW r \in R PROVE \E i \in 2..(Len(t) - 1) : t[i] = Cells(r)
    OBVIOUS
  <2>1. PICK j \in 1..Len(q) : q[j] = Cells(r)
    BY <1>2 DEF C
  <2>2. j + 1 \in 2..(Len(t) - 1) /\ t[j + 1] = Cells(r)
    BY <1>4, <1>8, <2>1
  <2> QED BY <2>2
<1>11. t = Listing(h, R)
  BY DEF t, b, q, o, C, Listing, Lines
<1> HIDE DEF Listing
<1>12. Len(t) \in Nat /\ Len(t) >= 2 /\ t[Len(t)] = OkLine
  BY <1>4, <1>8
<1> DEFINE Shape(x) ==
      /\ Len(x) \in Nat /\ Len(x) >= 2 /\ DOMAIN x = 1..Len(x) /\ \E S : x \in Seq(S)
      /\ x[1] = Cells(h) /\ x[Len(x)] = OkLine
      /\ \A i \in 2..(Len(x) - 1) : \E r \in R : x[i] = Cells(r)
      /\ \A r \in R : \E i \in 2..(Len(x) - 1) : x[i] = Cells(r)
<1>13. Shape(t)
  <2>1. t \in Seq(Line)
    BY <1>6, <1>7
  <2>2. \E S : t \in Seq(S)
    BY <2>1
  <2> QED BY <1>8, <1>9, <1>10, <1>12, <2>2
<1>14. Shape(Listing(h, R))
  <2> HIDE DEF Shape
  <2> QED BY <1>11, <1>13
<1> QED BY <1>14

(* What decides what a reply is, when its first line is not blank. *)
LEMMA FirstIs ==
  ASSUME NEW t, Len(t) \in Nat, Len(t) >= 1, t[1].kind # "blank"
  PROVE  /\ Written(t) # {} /\ FirstLine(t) = t[1]
         /\ \A kind : Begins(t, kind) <=> t[1].kind = kind
<1> DEFINE W == Written(t)
           m == Min(W)
<1>1. 1 \in W /\ W \subseteq Nat /\ \A y \in W : 1 <= y
  BY DEF Written
<1> HIDE DEF W
<1>2. m \in W /\ \A y \in W : m =< y
  BY <1>1 DEF Min
<1>3. m \in Nat /\ 1 <= m /\ m <= 1
  BY <1>1, <1>2
<1> HIDE DEF m
<1>4. m = 1
  BY <1>3
<1>5. FirstLine(t) = t[1]
  BY <1>4 DEF FirstLine, m, W
<1> QED BY <1>1, <1>5 DEF Begins, W

(* A listing read, whole or damaged: its rows, or some of them. *)
LEMMA ListingRead ==
  ASSUME NEW h \in Seq(Words), Len(h) >= 2, NEW R, IsFiniteSet(R), R \subseteq Seq(Words),
         \A r \in R : Len(r) = Len(h), NEW t,
         t \in {Listing(h, R)} \cup Damaged(Listing(h, R))
  PROVE  /\ ~Refused(t)
         /\ Table(t) \subseteq {Row(h, r) : r \in R}
         /\ t = Listing(h, R) => Table(t) = {Row(h, r) : r \in R}
<1> DEFINE l == Listing(h, R)
           n == Len(l)
           x == Cells(SubSeq(l[2].cells, 1, 1))
<1>0. /\ n \in Nat /\ n >= 2 /\ DOMAIN l = 1..n /\ \E S : l \in Seq(S)
      /\ l[1] = Cells(h) /\ l[n] = OkLine
      /\ \A i \in 2..(n - 1) : \E r \in R : l[i] = Cells(r)
      /\ \A r \in R : \E i \in 2..(n - 1) : l[i] = Cells(r)
  BY ListingIs
<1>h. Len(h) \in Nat /\ \A y : Cells(y).kind = "cells" /\ Cells(y).cells = y
  BY LenProperties DEF Cells
<1> HIDE DEF l
<1>1. ~Refused(l)
  <2> HIDE DEF n
  <2>1. l[1].kind = "cells" /\ Len(l) \in Nat /\ Len(l) >= 1
    BY <1>0, <1>h DEF n
  <2> QED BY <2>1, FirstIs DEF Refused
<1> DEFINE rows(u) == {j \in 2..Len(u) : u[j].kind \notin {"blank", "ok"} /\ Len(u[j].cells) >= Len(h)}
<1>2. Table(l) = {Row(h, r) : r \in R}
  <2>0. l[1] = Cells(h) /\ Len(l) \in Nat /\ Len(l) >= 1
    BY <1>0
  <2>1. Table(l) = {Row(h, l[i].cells) : i \in rows(l)}
    BY <2>0, TableIs
  <2>2. ASSUME NEW i \in rows(l) PROVE \E r \in R : l[i].cells = r
    <3>1. i \in 2..n /\ l[i].kind # "ok"
      BY <2>2
    <3>2. OkLine.kind = "ok"
      BY DEF OkLine
    <3>3. i # n
      BY <1>0, <3>1, <3>2
    <3>4. i \in 2..(n - 1)
      <4>1. n \in Nat
        BY <1>0
      <4> HIDE DEF n
      <4> QED BY <4>1, <3>1, <3>3
    <3> QED BY <1>0, <1>h, <3>4
  <2>3. ASSUME NEW r \in R PROVE \E i \in rows(l) : l[i].cells = r
    <3>1. PICK i \in 2..(n - 1) : l[i] = Cells(r)
      BY <1>0
    <3>2. i \in 2..n /\ l[i].kind = "cells" /\ l[i].cells = r /\ Len(r) >= Len(h)
      BY <1>0, <1>h, <3>1
    <3>3. i \in rows(l)
      BY <3>2
    <3> QED BY <3>2, <3>3
  <2> HIDE DEF rows
  <2> QED BY <2>1, <2>2, <2>3
<1>3. CASE t = <<>>
  <2>1. t # l
    BY <1>0, <1>3
  <2> QED BY <1>3, <2>1, EmptyTable, Replies DEF l
<1>4. CASE n >= 3 /\ t = [l EXCEPT ![2] = x]
  <2>1. PICK r2 \in R : l[2] = Cells(r2)
    <3>1. 2 \in 2..(n - 1)
      BY <1>0, <1>4
    <3> QED BY <1>0, <3>1
  <2>2. l[2].cells = r2 /\ r2 \in Seq(Words) /\ Len(r2) = Len(h)
    BY <1>h, <2>1
  <2>3. x.kind = "cells" /\ Len(x.cells) = 1
    <3>1. x.kind = "cells" /\ x.cells = SubSeq(r2, 1, 1)
      BY <1>h, <2>2
    <3>2. 1 \in 0..Len(r2)
      BY <1>h, <2>2
    <3>3. \A i \in 1..1 : r2[i] \in Words
      BY <1>h, <2>2, ElementOfSeq
    <3>4. Len(SubSeq(r2, 1, 1)) = 1
      BY <3>3, SubSeqProperties
    <3> QED BY <3>1, <3>4
  <2> HIDE DEF x
  <2>4. Len(t) = n /\ t[2] = x /\ \A i \in 1..n : i # 2 => t[i] = l[i]
    <3>1. PICK S : l \in Seq(S)
      BY <1>0
    <3>2. l \in Seq(S \cup {x})
      BY <3>1
    <3>3. 2 \in 1..Len(l)
      BY <1>0, <1>4
    <3>4. Len(t) = Len(l)
      BY <1>4, <3>2, <3>3, ExceptSeq
    <3>5. DOMAIN l = 1..n
      BY <1>0
    <3> HIDE DEF n
    <3> QED BY <1>0, <1>4, <3>3, <3>4, <3>5 DEF n
  <2>5. t[1] = Cells(h) /\ Len(t) \in Nat /\ Len(t) >= 1
    BY <1>0, <1>4, <2>4
  <2>6. ~Refused(t)
    <3>1. t[1].kind = "cells"
      BY <1>h, <2>5
    <3> QED BY <2>5, <3>1, FirstIs DEF Refused
  <2>7. Table(t) = {Row(h, t[i].cells) : i \in rows(t)}
    BY <2>5, TableIs
  <2>8. ASSUME NEW i \in rows(t) PROVE \E r \in R : t[i].cells = r
    <3>1. i \in 2..n /\ t[i].kind # "ok" /\ Len(t[i].cells) >= Len(h)
      BY <2>4, <2>8
    <3>2. i # 2
      <4>1. CASE i = 2
        <5>1. Len(t[i].cells) = 1
          BY <2>3, <2>4, <4>1
        <5> QED BY <1>h, <3>1, <5>1
      <4> QED BY <4>1
    <3>3. t[i] = l[i]
      BY <1>0, <2>4, <3>1, <3>2
    <3>4. OkLine.kind = "ok"
      BY DEF OkLine
    <3>5. i # n
      BY <1>0, <3>1, <3>3, <3>4
    <3>6. i \in 2..(n - 1)
      <4>1. n \in Nat
        BY <1>0
      <4> HIDE DEF n
      <4> QED BY <4>1, <3>1, <3>5
    <3> QED BY <1>0, <1>h, <3>3, <3>6
  <2>9. Table(t) \subseteq {Row(h, r) : r \in R}
    <3> HIDE DEF rows
    <3> QED BY <2>7, <2>8
  <2> QED BY <2>6, <2>9, <1>2 DEF l
<1>5. CASE t = l
  BY <1>1, <1>2, <1>5 DEF l
<1>6. t \in {l} \cup Damaged(l)
  BY DEF l
<1> HIDE DEF x, n
<1>7. t = l \/ t = <<>> \/ (Len(l) >= 3 /\ t = [l EXCEPT ![2] = Cells(SubSeq(l[2].cells, 1, 1))])
  BY <1>6 DEF Damaged
<1> QED BY <1>3, <1>4, <1>5, <1>7 DEF x, n

-----------------------------------------------------------------------------
(* The names, columns and contacts of the switch are texts of cells. *)
LEMMA WordsAreStrings ==
  /\ STRING \subseteq Words /\ Seq(STRING) \subseteq Seq(Words)
  /\ AgentStatus \subseteq Words /\ AgentState \subseteq Words /\ {"0", "queue", "agent"} \subseteq Words
<1>1. /\ STRING \subseteq Words /\ AgentStatus \subseteq Words /\ AgentState \subseteq Words
      /\ {"0", "queue", "agent"} \subseteq Words
  BY DEF Words
<1>2. ASSUME NEW s \in Seq(STRING) PROVE s \in Seq(Words)
  <2>1. Len(s) \in Nat /\ s \in [1..Len(s) -> STRING]
    BY LenProperties
  <2>2. s \in [1..Len(s) -> Words]
    BY <1>1, <2>1
  <2> QED BY <2>1, <2>2
<1> QED BY <1>1, <1>2

(* The columns of a listing, as cells. *)
LEMMA ColumnsAre ==
  ASSUME NEW h \in Columns
  PROVE  /\ h \in Seq(Words) /\ {"name", "status", "state"} \subseteq Range(h) \ {""}
         /\ Range(h) \subseteq Words
<1>1. h \in Seq(STRING) /\ {"name", "status", "state"} \subseteq Range(h)
  BY ListingAssumption
<1>2. h \in Seq(Words)
  BY <1>1, WordsAreStrings
<1>3. Range(h) \subseteq Words
  BY <1>2, LenProperties DEF Range
<1> QED BY <1>1, <1>2, <1>3

(* A contact with no bar in it is one cell of a listing. *)
OneCell == \A k \in Contacts : Len(k) = 1

(* What the columns of a listing hold for an agent. *)
Held(a) ==
  [c \in Words |-> IF c = "name" THEN a
                    ELSE IF c = "contact" THEN agents[a].contact[1]
                    ELSE IF c \in {"status", "state"} THEN agents[a][c] ELSE "0"]

(* An agent the switch has: its name and its row. *)
LEMMA AgentIs ==
  ASSUME TablesOK(Tables), NEW a \in DOMAIN agents
  PROVE  /\ a \in Agents /\ a \in Words /\ a # ""
         /\ agents[a].contact \in Contacts /\ agents[a].contact \in Seq(Words)
         /\ agents[a].status \in AgentStatus /\ agents[a].state \in AgentState
<1>1. a \in Agents /\ agents[a] \in AgentRows
  BY DEF TablesOK, Tables
<1>2. agents[a].contact \in Contacts /\ agents[a].status \in AgentStatus /\ agents[a].state \in AgentState
  BY <1>1 DEF AgentRows
<1>3. a \in STRING /\ a # "" /\ agents[a].contact \in Seq(STRING)
  BY <1>1, <1>2, ListingAssumption
<1> QED BY <1>1, <1>2, <1>3, WordsAreStrings

(* The cells of an agent, one for each column, whatever their order. *)
LEMMA AgentRowIs ==
  ASSUME TablesOK(Tables), OneCell, NEW h \in Seq(Words), NEW a \in DOMAIN agents
  PROVE  /\ AgentRow(a, h) \in Seq(Words) /\ Len(AgentRow(a, h)) = Len(h)
         /\ \A i \in 1..Len(h) : AgentRow(a, h)[i] = Held(a)[h[i]]
<1> DEFINE n == Len(h)
           v == [i \in 1..n |-> Held(a)[h[i]]]
           cell(c) == IF c = "name" THEN <<a>>
                      ELSE IF c = "contact" THEN agents[a].contact
                      ELSE IF c \in {"status", "state"} THEN <<agents[a][c]>> ELSE <<"0">>
<1>1. n \in Nat /\ \A i \in 1..n : h[i] \in Words
  BY LenProperties
<1>2. a \in Words /\ agents[a].contact \in Seq(Words) /\ Len(agents[a].contact) = 1
      /\ agents[a].status \in Words /\ agents[a].state \in Words
  BY AgentIs, WordsAreStrings DEF OneCell
<1>3. agents[a].contact = <<agents[a].contact[1]>> /\ agents[a].contact[1] \in Words
  <2> DEFINE k == agents[a].contact
  <2>1. k \in Seq(Words) /\ Len(k) = 1
    BY <1>2
  <2> HIDE DEF k
  <2>2. k[1] \in Words /\ <<k[1]>> \in Seq(Words) /\ Len(<<k[1]>>) = 1 /\ <<k[1]>>[1] = k[1]
    <3>1. 1 \in 1..Len(k)
      BY <2>1
    <3>2. k[1] \in Words
      BY <2>1, <3>1, ElementOfSeq
    <3> QED BY <3>2
  <2> DEFINE w == <<k[1]>>
  <2>3. k = w
    <3> HIDE DEF w
    <3>1. w \in Seq(Words) /\ Len(w) = Len(k) /\ \A i \in 1..Len(k) : k[i] = w[i]
      BY <2>1, <2>2 DEF w
    <3> QED BY <2>1, <3>1, SeqEqual
  <2> QED BY <2>2, <2>3 DEF k
<1>4. ASSUME NEW c \in Words PROVE Held(a)[c] \in Words /\ cell(c) = <<Held(a)[c]>>
  <2>1. CASE c = "name"
    BY <1>2, <2>1 DEF Held
  <2>2. CASE c = "contact"
    BY <1>3, <2>2 DEF Held
  <2>3. CASE c = "status"
    BY <1>2, <2>3 DEF Held
  <2>4. CASE c = "state"
    BY <1>2, <2>4 DEF Held
  <2>5. CASE c \notin {"name", "contact", "status", "state"}
    BY <2>5, WordsAreStrings DEF Held
  <2> QED BY <2>1, <2>2, <2>3, <2>4, <2>5
<1>5. AgentRow(a, h) = FlattenSeq([i \in 1..n |-> cell(h[i])])
  BY DEF AgentRow
<1> HIDE DEF cell, n
<1>6. v \in Seq(Words) /\ Len(v) = n /\ \A i \in 1..n : v[i] = Held(a)[h[i]]
  <2>1. \A i \in 1..n : Held(a)[h[i]] \in Words
    BY <1>1, <1>4
  <2>2. v \in [1..n -> Words]
    BY <2>1
  <2>3. v \in Seq(Words) /\ Len(v) = n
    <3> HIDE DEF v
    <3> QED BY <1>1, <2>2
  <2> QED BY <2>3
<1>7. [i \in 1..n |-> cell(h[i])] = [i \in 1..n |-> <<v[i]>>]
  <2>1. ASSUME NEW i \in 1..n PROVE cell(h[i]) = <<v[i]>>
    <3>1. h[i] \in Words
      BY <1>1
    <3>2. cell(h[i]) = <<Held(a)[h[i]]>>
      BY <3>1, <1>4
    <3> QED BY <3>2
  <2> HIDE DEF v
  <2> QED BY <2>1
<1> HIDE DEF v
<1>8. FlattenSeq([i \in 1..n |-> <<v[i]>>]) = v
  <2>1. FlattenSeq([i \in 1..Len(v) |-> <<v[i]>>]) = v
    BY <1>6, Flattened
  <2> QED BY <1>6, <2>1
<1>9. AgentRow(a, h) = v
  BY <1>5, <1>7, <1>8
<1> QED BY <1>6, <1>9 DEF n

(* Keyed by the header, they are what the columns hold. *)
LEMMA RowHeld ==
  ASSUME NEW h \in Seq(Words), NEW a, Keyed(h, AgentRow(a, h), Held(a)), NEW c \in Range(h) \ {""}
  PROVE  c \in DOMAIN Row(h, AgentRow(a, h)) /\ Row(h, AgentRow(a, h))[c] = Held(a)[c]
  BY RowIs, ZenonT(30)

(* Such a row, keyed by the header, tells the agent's name and how it is. *)
LEMMA AgentRowRead ==
  ASSUME TablesOK(Tables), OneCell, NEW h \in Columns, NEW a \in DOMAIN agents
  PROVE  LET r == Row(h, AgentRow(a, h)) IN
         /\ r.name = a /\ Get(r, "name") # ""
         /\ FromText(AgentStatus, Get(r, "status")) = agents[a].status
         /\ FromText(AgentState, Get(r, "state")) = agents[a].state
<1> DEFINE r == Row(h, AgentRow(a, h))
<1>1. h \in Seq(Words) /\ {"name", "status", "state"} \subseteq Range(h) \ {""}
  BY ColumnsAre
<1>2. \A i \in 1..Len(h) : AgentRow(a, h)[i] = Held(a)[h[i]]
  BY <1>1, AgentRowIs
<1>3. \A c \in Range(h) \ {""} : c \in DOMAIN r /\ r[c] = Held(a)[c]
  <2> SUFFICES ASSUME NEW c \in Range(h) \ {""} PROVE c \in DOMAIN r /\ r[c] = Held(a)[c]
    OBVIOUS
  <2>1. Keyed(h, AgentRow(a, h), Held(a))
    BY <1>2 DEF Keyed
  <2>2. c \in DOMAIN Row(h, AgentRow(a, h)) /\ Row(h, AgentRow(a, h))[c] = Held(a)[c]
    BY <1>1, <2>1, RowHeld
  <2> QED BY <2>2
<1> HIDE DEF r
<1>4. /\ {"name", "status", "state"} \subseteq DOMAIN r
      /\ r["name"] = a /\ r["status"] = agents[a].status /\ r["state"] = agents[a].state
  <2>1. {"name", "status", "state"} \subseteq Words
    BY <1>1, ColumnsAre
  <2>2. /\ Held(a)["name"] = a /\ Held(a)["status"] = agents[a].status
        /\ Held(a)["state"] = agents[a].state
    BY <2>1 DEF Held
  <2> QED BY <1>1, <1>3, <2>2
<1>5. r.name = a /\ Get(r, "name") # "" /\ Get(r, "status") = agents[a].status
      /\ Get(r, "state") = agents[a].state
  BY <1>4, AgentIs DEF Get
<1>6. /\ FromText(AgentStatus, Get(r, "status")) = agents[a].status
      /\ FromText(AgentState, Get(r, "state")) = agents[a].state
  BY <1>5, AgentIs DEF FromText
<1> QED BY <1>5, <1>6 DEF r

(* What list_agents returns of an agent. *)
AgentShown(r) == [name |-> r.name, status |-> r.status, state |-> r.state]
AgentHeld(a) == [name |-> a, status |-> agents[a].status, state |-> agents[a].state]

(* A listing of the agents D, whole or damaged, as parse_agent_list reads   *)
(* it.                                                                      *)
LEMMA AgentsRead ==
  ASSUME TablesOK(Tables), OneCell, NEW h \in Columns, NEW D, D \subseteq DOMAIN agents,
         NEW t, t \in {Listing(h, {AgentRow(a, h) : a \in D})}
                       \cup Damaged(Listing(h, {AgentRow(a, h) : a \in D}))
  PROVE  /\ ~Refused(t)
         /\ {AgentShown(r) : r \in AgentList(t)} \subseteq {AgentHeld(a) : a \in D}
         /\ t = Listing(h, {AgentRow(a, h) : a \in D}) =>
              {AgentShown(r) : r \in AgentList(t)} = {AgentHeld(a) : a \in D}
<1> DEFINE R == {AgentRow(a, h) : a \in D}
           T == Table(t)
           shown == {AgentShown(r) : r \in AgentList(t)}
           Named(s) == Get(s, "name") # ""
           entry(r) == [name |-> r.name, contact |-> Get(r, "contact"),
                        status |-> FromText(AgentStatus, Get(r, "status")),
                        state |-> FromText(AgentState, Get(r, "state"))]
<1>1. h \in Seq(Words) /\ Len(h) >= 2
  <2>1. h \in Seq(Words) /\ {"name", "status"} \subseteq Range(h) /\ DOMAIN h = 1..Len(h) /\ Len(h) \in Nat
    BY ColumnsAre, LenProperties
  <2>2. PICK i \in 1..Len(h) : h[i] = "name"
    BY <2>1 DEF Range
  <2>3. PICK j \in 1..Len(h) : h[j] = "status"
    BY <2>1 DEF Range
  <2>4. i # j
    BY <2>2, <2>3
  <2> QED BY <2>1, <2>4
<1>2. IsFiniteSet(R) /\ R \subseteq Seq(Words) /\ \A r \in R : Len(r) = Len(h)
  <2>1. IsFiniteSet(D)
    <3>1. D \subseteq Agents
      BY DEF TablesOK, Tables
    <3> QED BY <3>1, ListingAssumption, FS_Subset
  <2> DEFINE f == [a \in D |-> AgentRow(a, h)]
  <2>2. f \in Surjection(D, R)
    BY DEF Surjection
  <2>3. IsFiniteSet(R)
    <3> HIDE DEF f, R
    <3> QED BY <2>1, <2>2, FS_Surjection
  <2>4. \A a \in D : AgentRow(a, h) \in Seq(Words) /\ Len(AgentRow(a, h)) = Len(h)
    BY <1>1, AgentRowIs
  <2> QED BY <2>3, <2>4
<1>3. /\ ~Refused(t) /\ T \subseteq {Row(h, r) : r \in R}
      /\ t = Listing(h, R) => T = {Row(h, r) : r \in R}
  <2> HIDE DEF R
  <2> QED BY <1>1, <1>2, ListingRead DEF R
<1>4. AgentList(t) = {entry(r) : r \in {s \in T : Named(s)}}
  BY DEF AgentList
<1>5. ASSUME NEW a \in D
      PROVE  LET r == Row(h, AgentRow(a, h)) IN Named(r) /\ AgentShown(entry(r)) = AgentHeld(a)
  <2> DEFINE r == Row(h, AgentRow(a, h))
  <2>1. /\ r.name = a /\ Named(r)
        /\ FromText(AgentStatus, Get(r, "status")) = agents[a].status
        /\ FromText(AgentState, Get(r, "state")) = agents[a].state
    BY AgentRowRead
  <2> HIDE DEF r
  <2>2. AgentShown(entry(r)) = AgentHeld(a)
    BY <2>1 DEF AgentShown, AgentHeld
  <2> QED BY <2>1, <2>2 DEF r
<1>6. shown = {AgentShown(entry(r)) : r \in {s \in T : Named(s)}}
  <2> HIDE DEF entry, T, Named
  <2> QED BY <1>4
<1>7. ASSUME NEW r \in T PROVE \E a \in D : r = Row(h, AgentRow(a, h))
  <2> HIDE DEF T
  <2> QED BY <1>3
<1>8. shown \subseteq {AgentHeld(a) : a \in D}
  <2> HIDE DEF shown, T, Named, entry
  <2>1. ASSUME NEW r \in T PROVE \E a \in D : AgentShown(entry(r)) = AgentHeld(a)
    <3>1. PICK a \in D : r = Row(h, AgentRow(a, h))
      BY <1>7
    <3>2. AgentShown(entry(Row(h, AgentRow(a, h)))) = AgentHeld(a)
      BY <1>5
    <3> QED BY <3>1, <3>2
  <2> QED BY <1>6, <2>1
<1>9. ASSUME t = Listing(h, R) PROVE {AgentHeld(a) : a \in D} \subseteq shown
  <2> HIDE DEF shown, Named, entry
  <2>1. ASSUME NEW a \in D PROVE AgentHeld(a) \in shown
    <3>1. Row(h, AgentRow(a, h)) \in T
      <4>1. AgentRow(a, h) \in R
        OBVIOUS
      <4> HIDE DEF R, T
      <4> QED BY <1>3, <1>9, <4>1
    <3>2. Named(Row(h, AgentRow(a, h))) /\ AgentShown(entry(Row(h, AgentRow(a, h)))) = AgentHeld(a)
      BY <1>5
    <3> HIDE DEF T
    <3> QED BY <1>6, <3>1, <3>2
  <2> QED BY <2>1
<1> HIDE DEF shown
<1>10. t = Listing(h, R) => shown = {AgentHeld(a) : a \in D}
  BY <1>8, <1>9
<1> QED BY <1>3, <1>8, <1>10 DEF shown

-----------------------------------------------------------------------------
(* The listing of the tiers. *)
TierHeader == <<"queue", "agent">>

LEMMA PairIs ==
  ASSUME NEW S, NEW q \in S, NEW a \in S
  PROVE  <<q, a>> \in Seq(S) /\ Len(<<q, a>>) = 2
  OBVIOUS

LEMMA OneOrTwo == \A i \in 1..2 : i = 1 \/ i = 2
  OBVIOUS

(* Tiers as cells. *)
LEMMA TiersAre ==
  ASSUME TablesOK(Tables)
  PROVE  /\ IsFiniteSet(tiers) /\ tiers \subseteq Seq(Words)
         /\ \A r \in tiers : Len(r) = 2 /\ r = <<r[1], r[2]>> /\ r[1] # "" /\ r[2] # ""
<1>1. tiers \subseteq Queues \X Agents /\ Queues \subseteq Words \ {""} /\ Agents \subseteq Words \ {""}
  <2>1. Queues \subseteq STRING \ {""} /\ Agents \subseteq STRING \ {""} /\ STRING \subseteq Words
    BY ListingAssumption, WordsAreStrings
  <2> QED BY <2>1 DEF TablesOK, Tables
<1>2. IsFiniteSet(tiers)
  <2>1. IsFiniteSet(Queues \X Agents)
    BY ListingAssumption, FS_Product
  <2> QED BY <1>1, <2>1, FS_Subset
<1>3. ASSUME NEW r \in tiers
      PROVE  Len(r) = 2 /\ r = <<r[1], r[2]>> /\ r[1] # "" /\ r[2] # "" /\ r \in Seq(Words)
  <2>0. r \in Queues \X Agents
    BY <1>1, <1>3, Zenon
  <2>1. PICK q \in Queues, a \in Agents : r = <<q, a>>
    BY <2>0
  <2>2. q \in Words /\ a \in Words /\ q # "" /\ a # ""
    BY <1>1
  <2>3. <<q, a>> \in Seq(Words) /\ Len(<<q, a>>) = 2
    BY <2>2, PairIs
  <2> QED BY <2>1, <2>2, <2>3
<1> QED BY <1>2, <1>3

LEMMA TierHeaderIs ==
  /\ TierHeader \in Seq(Words) /\ Len(TierHeader) = 2
  /\ TierHeader[1] = "queue" /\ TierHeader[2] = "agent"
  /\ Range(TierHeader) \ {""} = {"queue", "agent"}
<1>1. "queue" \in Words /\ "agent" \in Words
  BY WordsAreStrings
<1>2. Len(TierHeader) = 2 /\ DOMAIN TierHeader = 1..2 /\ TierHeader[1] = "queue" /\ TierHeader[2] = "agent"
  BY DEF TierHeader
<1>3. TierHeader \in Seq(Words)
  BY <1>1 DEF TierHeader
<1>4. Range(TierHeader) = {"queue", "agent"}
  <2>1. Range(TierHeader) = {TierHeader[i] : i \in 1..2}
    BY <1>2 DEF Range
  <2> QED BY <1>2, <2>1
<1> QED BY <1>2, <1>3, <1>4

(* What the columns of that listing hold for a tier. *)
TierHeld(r) == [c \in Words |-> IF c = "queue" THEN r[1] ELSE r[2]]

LEMMA TierRowHeld ==
  ASSUME NEW r, Keyed(TierHeader, r, TierHeld(r)), NEW c \in Range(TierHeader) \ {""}
  PROVE  c \in DOMAIN Row(TierHeader, r) /\ Row(TierHeader, r)[c] = TierHeld(r)[c]
<1>1. TierHeader \in Seq(Words)
  BY TierHeaderIs
<1> QED BY <1>1, RowIs, ZenonT(30)

(* A tier, keyed by the header. *)
LEMMA TierRowRead ==
  ASSUME NEW r, r[1] # "", r[2] # ""
  PROVE  LET s == Row(TierHeader, r) IN
         s.queue = r[1] /\ s.agent = r[2] /\ Get(s, "queue") # "" /\ Get(s, "agent") # ""
<1> DEFINE s == Row(TierHeader, r)
<1>1. TierHeld(r)["queue"] = r[1] /\ TierHeld(r)["agent"] = r[2]
  BY WordsAreStrings DEF TierHeld
<1>2. Keyed(TierHeader, r, TierHeld(r))
  <2>1. Len(TierHeader) = 2 /\ r[1] = TierHeld(r)[TierHeader[1]] /\ r[2] = TierHeld(r)[TierHeader[2]]
    BY <1>1, TierHeaderIs
  <2>2. ASSUME NEW i \in 1..2 PROVE r[i] = TierHeld(r)[TierHeader[i]]
    <3>1. i = 1 \/ i = 2
      BY OneOrTwo
    <3> QED BY <2>1, <3>1, Zenon
  <2> QED BY <2>1, <2>2 DEF Keyed
<1>3. ASSUME NEW c \in {"queue", "agent"} PROVE c \in DOMAIN s /\ s[c] = TierHeld(r)[c]
  BY <1>2, TierHeaderIs, TierRowHeld
<1> HIDE DEF s
<1>4. "queue" \in DOMAIN s /\ "agent" \in DOMAIN s /\ s["queue"] = r[1] /\ s["agent"] = r[2]
  BY <1>1, <1>3
<1> QED BY <1>4 DEF Get, s

(* The listing of the tiers, whole or damaged, as parse_tier_list reads it. *)
LEMMA TiersRead ==
  ASSUME TablesOK(Tables), NEW t, t \in {TierTable} \cup Damaged(TierTable)
  PROVE  /\ ~Refused(t) /\ TierList(t) \subseteq tiers
         /\ t = TierTable => TierList(t) = tiers
<1> DEFINE T == Table(t)
           Whole(s) == Get(s, "queue") # "" /\ Get(s, "agent") # ""
           pair(s) == <<s.queue, s.agent>>
<1>1. TierTable = Listing(TierHeader, tiers)
  BY DEF TierTable, Listing, TierHeader
<1>2. /\ ~Refused(t) /\ T \subseteq {Row(TierHeader, r) : r \in tiers}
      /\ t = TierTable => T = {Row(TierHeader, r) : r \in tiers}
  <2>1. TierHeader \in Seq(Words) /\ Len(TierHeader) = 2
    BY TierHeaderIs
  <2>a. IsFiniteSet(tiers) /\ tiers \subseteq Seq(Words)
    BY TiersAre
  <2>b. \A r \in tiers : Len(r) = Len(TierHeader)
    BY <2>1, TiersAre
  <2>c. Len(TierHeader) >= 2
    <3> DEFINE n == Len(TierHeader)
    <3>1. n = 2
      BY <2>1
    <3> HIDE DEF n
    <3>2. n >= 2
      BY <3>1
    <3> QED BY <3>2 DEF n
  <2>2. t \in {Listing(TierHeader, tiers)} \cup Damaged(Listing(TierHeader, tiers))
    BY <1>1
  <2> HIDE DEF Listing
  <2> QED BY <1>1, <2>1, <2>a, <2>b, <2>c, <2>2, ListingRead
<1>3. TierList(t) = {pair(s) : s \in {u \in T : Whole(u)}}
  BY DEF TierList
<1>4. ASSUME NEW r \in tiers
      PROVE  Whole(Row(TierHeader, r)) /\ pair(Row(TierHeader, r)) = r
  <2>1. r[1] # "" /\ r[2] # "" /\ r = <<r[1], r[2]>>
    BY TiersAre
  <2> QED BY <2>1, TierRowRead
<1> HIDE DEF T, Whole, pair
<1>5. TierList(t) \subseteq tiers
  <2>1. ASSUME NEW s \in T PROVE pair(s) \in tiers
    <3>1. PICK r \in tiers : s = Row(TierHeader, r)
      BY <1>2
    <3> QED BY <1>4, <3>1
  <2> QED BY <1>3, <2>1
<1>6. ASSUME t = TierTable PROVE tiers \subseteq TierList(t)
  <2>1. ASSUME NEW r \in tiers PROVE r \in TierList(t)
    <3>1. Row(TierHeader, r) \in T
      BY <1>2, <1>6
    <3>2. Whole(Row(TierHeader, r)) /\ pair(Row(TierHeader, r)) = r
      BY <1>4
    <3> QED BY <1>3, <3>1, <3>2
  <2> QED BY <2>1
<1> QED BY <1>2, <1>5, <1>6

(* A bare value read. *)
LEMMA ValueRead ==
  ASSUME NEW v
  PROVE  LET t == <<Cells(<<v>>)>> IN
         ~Refused(t) /\ BareValue(t) = v /\ t # <<>> /\ Damaged(t) = {<<>>}
<1> DEFINE l == Cells(<<v>>)
<1>1. l.kind = "cells" /\ l.cells[1] = v
  BY DEF Cells
<1> HIDE DEF l
<1>2. Written(<<l>>) # {} /\ FirstLine(<<l>>) = l /\ ~Begins(<<l>>, "refusal")
  BY <1>1, OneLine
<1>3. ~Refused(<<l>>) /\ BareValue(<<l>>) = v
  BY <1>1, <1>2 DEF Refused, BareValue
<1>4. Len(<<l>>) = 1 /\ <<l>> # <<>>
  OBVIOUS
<1>5. Damaged(<<l>>) = {<<>>}
  BY <1>4 DEF Damaged
<1> QED BY <1>3, <1>4, <1>5 DEF l

-----------------------------------------------------------------------------
(* A command a client sends: what it may be, by its caller's rights and by  *)
(* what is done with the reply.                                             *)
Readings == {"ok", "text", "agents", "tiers", "status", "state"}

Asks(reads, p) ==
  /\ reads = "agents" => Says(p, <<CC, "agent", "list">>)
  /\ reads = "tiers" => Says(p, <<CC, "tier", "list">>)
  /\ reads \in {"status", "state"} => Says(p, <<CC, "agent", "get">>) /\ p[4] = reads

Sane(c) ==
  /\ c.reads \in Readings /\ Asks(c.reads, c.parts)
  /\ Len(c.parts) \in Nat /\ c.unsafe \in BOOLEAN /\ InChart(c.parts)
  /\ ~c.unsafe => ReadOnlyForm(c.parts)
  /\ c.reads = "ok" => Mutation(c.parts, c.wish)

(* The state's shape. *)
Kept ==
  /\ TablesOK(Tables)
  /\ allow \in BOOLEAN /\ connected \in BOOLEAN
  /\ calls \in 0..MaxCalls /\ runs \in Seq({0, 1}) /\ Len(runs) = calls
  /\ call # Idle => connected /\ call.id \in 1..calls /\ Sane(call)
  /\ \A c \in due : c.id \in 1..calls /\ Sane(c)

(* What a step of a method leaves: a new command under way, or nothing. *)
Sent(c) ==
  /\ c.id = calls + 1 /\ Sane(c) /\ call' = c /\ due' = due \cup {c}
  /\ calls' = calls + 1 /\ runs' = Append(runs, 0) /\ connected

Refusing == UNCHANGED <<calls, call, due, runs>>

Calling ==
  /\ call = Idle /\ calls < MaxCalls
  /\ (\E c : Sent(c)) \/ Refusing
  /\ result'.kind \in {"none", "lost", "unsupported"} /\ after' = Unexecuted
  /\ UNCHANGED <<database, allow, connected, reply>>

LEMMA MethodCalls ==
  ASSUME Kept, NEW wish, NEW permitted, NEW reads, NEW parts, NEW unsafe,
         WishMethod(wish, permitted, reads, parts, unsafe),
         permitted /\ (unsafe \/ ReadOnlyForm(parts)) =>
           Sane([id |-> calls + 1, reads |-> reads, parts |-> parts, unsafe |-> unsafe, wish |-> wish])
  PROVE  Calling
<1> DEFINE c == [id |-> calls + 1, reads |-> reads, parts |-> parts, unsafe |-> unsafe, wish |-> wish]
<1>1. CASE permitted /\ connected /\ (unsafe \/ ReadOnlyForm(parts))
  <2>1. c.id = calls + 1 /\ Sane(c)
    BY <1>1
  <2>2. /\ call' = c /\ due' = due \cup {c}
        /\ calls' = calls + 1 /\ runs' = Append(runs, 0)
        /\ result' = Result("none", Idle, {}, "")
    BY <1>1 DEF WishMethod
  <2>3. Sent(c)
    BY <1>1, <2>1, <2>2 DEF Sent
  <2>4. result'.kind = "none"
    BY <2>2 DEF Result
  <2> QED BY <2>3, <2>4 DEF WishMethod, Calling
<1>2. CASE ~(permitted /\ connected /\ (unsafe \/ ReadOnlyForm(parts)))
  <2>1. Refusing
    BY <1>2 DEF WishMethod, Refusing
  <2>2. PICK kind \in {"lost", "unsupported"} : result' = Result(kind, Idle, {}, "")
    BY <1>2 DEF WishMethod
  <2>3. result'.kind \in {"lost", "unsupported"}
    BY <2>2 DEF Result
  <2> QED BY <2>1, <2>3 DEF WishMethod, Calling
<1> QED BY <1>1, <1>2

LEMMA ReadOnlyInChart ==
  ASSUME NEW p, Len(p) \in Nat, ReadOnlyForm(p)
  PROVE  InChart(p)
<1>1. ~Says(p, <<CC, "agent", "set">>)
  BY ReadOnlyTokens, SaysTokens DEF CC
<1> QED BY <1>1 DEF InChart

(* The read-only methods, and api() itself. *)
LEMMA ReadCalls ==
  ASSUME Kept, NEW permitted, NEW reads \in Readings \ {"ok"}, NEW parts, Len(parts) \in Nat,
         NEW unsafe \in BOOLEAN, unsafe => InChart(parts), Asks(reads, parts),
         Method(permitted, reads, parts, unsafe)
  PROVE  Calling
<1>1. ASSUME unsafe \/ ReadOnlyForm(parts)
      PROVE  Sane([id |-> calls + 1, reads |-> reads, parts |-> parts, unsafe |-> unsafe, wish |-> NoWish])
  <2>1. InChart(parts)
    BY <1>1, ReadOnlyInChart
  <2> QED BY <1>1, <2>1 DEF Sane
<1> QED BY <1>1, MethodCalls DEF Method

(* The mutating methods. *)
LEMMA MutateCalls ==
  ASSUME Kept, NEW wish, NEW valid, NEW parts, Len(parts) \in Nat,
         WishMethod(wish, valid /\ allow, "ok", parts, TRUE),
         valid => InChart(parts) /\ Mutation(parts, wish)
  PROVE  Calling
<1>1. ASSUME valid
      PROVE  Sane([id |-> calls + 1, reads |-> "ok", parts |-> parts, unsafe |-> TRUE, wish |-> wish])
  BY <1>1 DEF Sane, Readings, Asks
<1> QED BY <1>1, MethodCalls

(* Every method of the client is such a step. *)
LEMMA ReadMethods ==
  ASSUME Kept,
         \/ \E p \in Raw : Api(p, FALSE) \/ Api(p, TRUE)
         \/ \E p \in FixedReads : Api(p, FALSE)
         \/ \E p \in Given : SofiaStatus(p)
         \/ \E a \in Given : ListAgent(a) \/ GetStatus(a) \/ GetState(a)
         \/ ListAgents \/ ListTiers
  PROVE  Calling
<1>0. \A p : Asks("text", p)
  BY DEF Asks
<1>1. ASSUME NEW p \in Raw, Api(p, FALSE) \/ Api(p, TRUE) PROVE Calling
  <2>1. Len(p) \in Nat /\ InChart(p)
    BY RawAssumption, LenProperties
  <2> QED BY <1>0, <1>1, <2>1, ReadCalls DEF Api, Readings
<1>2. ASSUME NEW p \in FixedReads, Api(p, FALSE) PROVE Calling
  <2>1. Len(p) \in Nat
    BY DEF FixedReads
  <2> QED BY <1>0, <1>2, <2>1, ReadCalls DEF Api, Readings
<1>3. ASSUME NEW p \in Given, SofiaStatus(p) PROVE Calling
  BY <1>0, <1>3, ReadCalls, Len(<<"sofia", "status", "profile", p>>) = 4 DEF SofiaStatus, Readings
<1>4. ASSUME NEW a \in Given, ListAgent(a) \/ GetStatus(a) \/ GetState(a) PROVE Calling
  <2>1. /\ Len(<<CC, "agent", "list", a>>) = 4
        /\ Len(<<CC, "agent", "get", "status", a>>) = 5 /\ Len(<<CC, "agent", "get", "state", a>>) = 5
    OBVIOUS
  <2>2. /\ Asks("agents", <<CC, "agent", "list", a>>)
        /\ Asks("status", <<CC, "agent", "get", "status", a>>)
        /\ Asks("state", <<CC, "agent", "get", "state", a>>)
    <3>1. ASSUME NEW s \in {"status", "state"} PROVE Asks(s, <<CC, "agent", "get", s, a>>)
      <4> DEFINE p == <<CC, "agent", "get", s, a>>
      <4>1. Len(p) = 5 /\ p[1] = CC /\ p[2] = "agent" /\ p[3] = "get" /\ p[4] = s
        OBVIOUS
      <4> HIDE DEF p
      <4>2. Says(p, <<CC, "agent", "get">>)
        BY <4>1, SaysTokens
      <4>3. Asks(s, p)
        BY <3>1, <4>1, <4>2 DEF Asks
      <4> QED BY <4>3 DEF p
    <3>2. Asks("agents", <<CC, "agent", "list", a>>)
      BY <2>1, SaysTokens DEF Asks
    <3> QED BY <3>1, <3>2
  <2> QED BY <1>4, <2>1, <2>2, ReadCalls DEF ListAgent, GetStatus, GetState, Readings
<1>5. CASE ListAgents \/ ListTiers
  <2>1. Len(<<CC, "agent", "list">>) = 3 /\ Len(<<CC, "tier", "list">>) = 3
    OBVIOUS
  <2>2. Asks("agents", <<CC, "agent", "list">>) /\ Asks("tiers", <<CC, "tier", "list">>)
    BY <2>1, SaysTokens DEF Asks
  <2> QED BY <1>5, <2>1, <2>2, ReadCalls DEF ListAgents, ListTiers, Readings
<1> QED BY <1>1, <1>2, <1>3, <1>4, <1>5

(* What is appended to a tuple leaves its elements where they are. *)
LEMMA Appended ==
  ASSUME NEW s, NEW n \in Nat, Len(s) = n, DOMAIN s = 1..n, s = [i \in 1..n |-> s[i]],
         NEW t, t = <<>> \/ \E x : t = <<x>>
  PROVE  Len(s \o t) \in Nat /\ \A i \in 1..n : (s \o t)[i] = s[i]
<1> DEFINE S == {s[i] : i \in 1..n} \cup {t[1]}
<1>1. t \in Seq(S)
  <2>1. CASE t = <<>>
    BY <2>1
  <2>2. CASE \E x : t = <<x>>
    <3>1. PICK x : t = <<x>>
      BY <2>2
    <3>2. x \in S
      BY <3>1
    <3> HIDE DEF S
    <3> QED BY <3>1, <3>2
  <2> QED BY <2>1, <2>2
<1>2. s \in Seq(S)
  <2>1. \A i \in 1..n : s[i] \in S
    OBVIOUS
  <2> HIDE DEF S
  <2>2. s \in [1..n -> S]
    BY <2>1
  <2> QED BY <2>2
<1> HIDE DEF S
<1> QED BY <1>1, <1>2, ConcatProperties, LenProperties

LEMMA TransferCalls ==
  ASSUME Kept, NEW u, NEW d, NEW leg \in DOMAIN LegFlag, NEW context \in {<<>>, <<"public">>},
         Transfer(u, d, leg, context)
  PROVE  Calling
<1> DEFINE w == [uuid |-> u, leg |-> leg, to |-> d]
           p == <<"uuid_transfer", u>> \o LegFlag[leg] \o <<d, "XML">> \o context
<1>1. leg \in {"aleg", "bleg", "both"}
  BY DEF LegFlag
<1>2. /\ Len(p) \in Nat /\ p[1] = "uuid_transfer" /\ p[2] = u
      /\ leg = "aleg" => p[3] = d
      /\ leg = "bleg" => p[3] = "-bleg" /\ p[4] = d
      /\ leg = "both" => p[3] = "-both" /\ p[4] = d
  <2>1. CASE leg = "aleg"
    <3> DEFINE s == <<"uuid_transfer", u, d, "XML">>
    <3>1. p = s \o context
      BY <2>1 DEF LegFlag
    <3>2. /\ Len(s) = 4 /\ DOMAIN s = 1..4 /\ s = [i \in 1..4 |-> s[i]]
          /\ s[1] = "uuid_transfer" /\ s[2] = u /\ s[3] = d
      OBVIOUS
    <3> HIDE DEF s, p
    <3>3. Len(p) \in Nat /\ \A i \in 1..4 : p[i] = s[i]
      BY <3>1, <3>2, Appended
    <3> QED BY <2>1, <3>2, <3>3
  <2>2. CASE leg = "bleg"
    <3> DEFINE s == <<"uuid_transfer", u, "-bleg", d, "XML">>
    <3>1. p = s \o context
      BY <2>2 DEF LegFlag
    <3>2. /\ Len(s) = 5 /\ DOMAIN s = 1..5 /\ s = [i \in 1..5 |-> s[i]]
          /\ s[1] = "uuid_transfer" /\ s[2] = u /\ s[3] = "-bleg" /\ s[4] = d
      OBVIOUS
    <3> HIDE DEF s, p
    <3>3. Len(p) \in Nat /\ \A i \in 1..5 : p[i] = s[i]
      BY <3>1, <3>2, Appended
    <3> QED BY <2>2, <3>2, <3>3
  <2>3. CASE leg = "both"
    <3> DEFINE s == <<"uuid_transfer", u, "-both", d, "XML">>
    <3>1. p = s \o context
      BY <2>3 DEF LegFlag
    <3>2. /\ Len(s) = 5 /\ DOMAIN s = 1..5 /\ s = [i \in 1..5 |-> s[i]]
          /\ s[1] = "uuid_transfer" /\ s[2] = u /\ s[3] = "-both" /\ s[4] = d
      OBVIOUS
    <3> HIDE DEF s, p
    <3>3. Len(p) \in Nat /\ \A i \in 1..5 : p[i] = s[i]
      BY <3>1, <3>2, Appended
    <3> QED BY <2>3, <3>2, <3>3
  <2> QED BY <1>1, <2>1, <2>2, <2>3
<1>3. WishMethod(w, (allow /\ IsUuid(u) /\ IsDestination(d)), "ok", p, TRUE)
  BY DEF Transfer
<1> HIDE DEF p
<1>4. WishMethod(w, IsDestination(d) /\ IsUuid(u) /\ allow, "ok", p, TRUE)
  <2>1. (allow /\ IsUuid(u) /\ IsDestination(d)) = (IsDestination(d) /\ IsUuid(u) /\ allow)
    BY DEF IsUuid, IsDestination, Kept
  <2> QED BY <1>3, <2>1
<1>5. ASSUME IsDestination(d) PROVE InChart(p) /\ Mutation(p, w)
  <2>1. ~Says(p, <<CC, "agent", "set">>)
    BY <1>2, SaysTokens DEF CC
  <2>2. SentTransfer(p, w)
    BY <1>1, <1>2, <1>5 DEF SentTransfer
  <2> QED BY <2>1, <2>2 DEF InChart, Mutation
<1> QED BY <1>2, <1>4, <1>5, MutateCalls

LEMMA WriteMethods ==
  ASSUME Kept,
         \/ \E q, a \in Given : DeleteTier(q, a)
         \/ \E a \in Given : DeleteAgent(a)
         \/ \E a \in Given : \E s : SetStatus(a, s) \/ SetState(a, s)
  PROVE  Calling
<1>0. ASSUME NEW valid, NEW parts, Len(parts) \in Nat, Mutate(valid, parts),
             valid => InChart(parts) /\ Mutation(parts, NoWish)
      PROVE  Calling
  BY <1>0, MutateCalls DEF Mutate, Method
<1>1. ASSUME NEW q \in Given, NEW a \in Given, DeleteTier(q, a) PROVE Calling
  <2> DEFINE p == <<CC, "tier", "del", q, a>>
  <2>1. Len(p) = 5 /\ p[1] = CC /\ p[2] = "tier" /\ p[3] = "del" /\ p[4] = q /\ p[5] = a
    OBVIOUS
  <2> HIDE DEF p
  <2>n. Len(p) \in Nat /\ Len(p) >= 3
    BY <2>1
  <2>2. Says(p, <<CC, "tier", "del">>) /\ ~Says(p, <<CC, "agent", "set">>)
    <3>1. Says(p, <<CC, "tier", "del">>)
      BY <2>1, <2>n, SaysTokens
    <3>2. ~Says(p, <<CC, "agent", "set">>)
      BY <2>1, <2>n, SaysTokens
    <3> QED BY <3>1, <3>2
  <2>3. IsQualified(q) /\ IsQualified(a) => InChart(p) /\ Mutation(p, NoWish)
    BY <2>1, <2>2 DEF InChart, Mutation
  <2> QED BY <1>0, <1>1, <2>1, <2>3 DEF DeleteTier, p
<1>2. ASSUME NEW a \in Given, DeleteAgent(a) PROVE Calling
  <2> DEFINE p == <<CC, "agent", "del", a>>
  <2>1. Len(p) = 4 /\ p[1] = CC /\ p[2] = "agent" /\ p[3] = "del" /\ p[4] = a
    OBVIOUS
  <2> HIDE DEF p
  <2>n. Len(p) \in Nat /\ Len(p) >= 3
    BY <2>1
  <2>2. Says(p, <<CC, "agent", "del">>) /\ ~Says(p, <<CC, "agent", "set">>)
    <3>1. Says(p, <<CC, "agent", "del">>)
      BY <2>1, <2>n, SaysTokens
    <3>2. ~Says(p, <<CC, "agent", "set">>)
      BY <2>1, <2>n, SaysTokens
    <3> QED BY <3>1, <3>2
  <2>3. IsQualified(a) => InChart(p) /\ Mutation(p, NoWish)
    BY <2>1, <2>2 DEF InChart, Mutation
  <2> QED BY <1>0, <1>2, <2>1, <2>3 DEF DeleteAgent, p
<1>3. ASSUME NEW a \in Given, NEW s, SetStatus(a, s) PROVE Calling
  <2> DEFINE p == <<CC, "agent", "set", "status", a, s>>
  <2>1. Len(p) = 6 /\ p[1] = CC /\ p[2] = "agent" /\ p[3] = "set" /\ p[4] = "status" /\ p[6] = s
    OBVIOUS
  <2> HIDE DEF p
  <2>n. Len(p) \in Nat /\ Len(p) >= 3
    BY <2>1
  <2>2. Says(p, <<CC, "agent", "set">>)
    BY <2>1, <2>n, SaysTokens
  <2>3. s \in AgentStatus => InChart(p) /\ Mutation(p, NoWish)
    BY <2>1, <2>2 DEF InChart, Mutation
  <2> QED BY <1>0, <1>3, <2>1, <2>3 DEF SetStatus, p
<1>4. ASSUME NEW a \in Given, NEW s, SetState(a, s) PROVE Calling
  <2> DEFINE p == <<CC, "agent", "set", "state", a, s>>
  <2>1. Len(p) = 6 /\ p[1] = CC /\ p[2] = "agent" /\ p[3] = "set" /\ p[4] = "state" /\ p[6] = s
    OBVIOUS
  <2> HIDE DEF p
  <2>n. Len(p) \in Nat /\ Len(p) >= 3
    BY <2>1
  <2>2. Says(p, <<CC, "agent", "set">>)
    BY <2>1, <2>n, SaysTokens
  <2>3. s \in AgentState => InChart(p) /\ Mutation(p, NoWish)
    BY <2>1, <2>2 DEF InChart, Mutation
  <2> QED BY <1>0, <1>4, <2>1, <2>3 DEF SetState, p
<1> QED BY <1>1, <1>2, <1>3, <1>4

LEMMA ControlMethods ==
  ASSUME Kept,
         \E u \in Handles :
           \/ \E c \in Causes : Kill(u, <<>>) \/ Kill(u, <<c>>)
           \/ \E d \in Destinations :
                \/ AttendedTransfer(u, d)
                \/ \E leg \in DOMAIN LegFlag, context \in {<<>>, <<"public">>} :
                     Transfer(u, d, leg, context)
           \/ \E action \in Actions, f \in Paths : Record(u, action, f)
  PROVE  Calling
<1>0. ASSUME NEW valid, NEW parts, Len(parts) \in Nat, Mutate(valid, parts),
             parts[1] \in {"uuid_kill", "uuid_broadcast", "uuid_record"}
      PROVE  Calling
  <2>1. ~Says(parts, <<CC, "agent", "set">>)
    BY <1>0, SaysTokens DEF CC
  <2>2. InChart(parts) /\ Mutation(parts, NoWish)
    BY <1>0, <2>1 DEF InChart, Mutation
  <2> QED BY <1>0, <2>2, MutateCalls DEF Mutate, Method
<1>1. ASSUME NEW u \in Handles, NEW c, Kill(u, <<>>) \/ Kill(u, <<c>>) PROVE Calling
  <2> DEFINE s == <<"uuid_kill", u>>
  <2>1. Len(s) = 2 /\ DOMAIN s = 1..2 /\ s = [i \in 1..2 |-> s[i]] /\ s[1] = "uuid_kill"
    OBVIOUS
  <2>2. Mutate(IsUuid(u) /\ (\A i \in 1..Len(<<>>) : IsAgentName(<<>>[i])), s \o <<>>)
        \/ Mutate(IsUuid(u) /\ (\A i \in 1..Len(<<c>>) : IsAgentName(<<c>>[i])), s \o <<c>>)
    BY <1>1 DEF Kill
  <2> HIDE DEF s
  <2>3. /\ Len(s \o <<>>) \in Nat /\ \A i \in 1..2 : (s \o <<>>)[i] = s[i]
        /\ Len(s \o <<c>>) \in Nat /\ \A i \in 1..2 : (s \o <<c>>)[i] = s[i]
    BY <2>1, Appended
  <2>4. (s \o <<>>)[1] = "uuid_kill" /\ (s \o <<c>>)[1] = "uuid_kill"
    BY <2>1, <2>3
  <2> QED BY <1>0, <2>2, <2>3, <2>4
<1>2. ASSUME NEW u \in Handles, NEW d, AttendedTransfer(u, d) PROVE Calling
  <2>1. Len(<<"uuid_broadcast", u, d, "aleg">>) = 4 /\ <<"uuid_broadcast", u, d, "aleg">>[1] = "uuid_broadcast"
    OBVIOUS
  <2> QED BY <1>0, <1>2, <2>1 DEF AttendedTransfer
<1>3. ASSUME NEW u \in Handles, NEW action, NEW f, Record(u, action, f) PROVE Calling
  <2>1. Len(<<"uuid_record", u, action, f>>) = 4 /\ <<"uuid_record", u, action, f>>[1] = "uuid_record"
    OBVIOUS
  <2> QED BY <1>0, <1>3, <2>1 DEF Record
<1> QED BY <1>1, <1>2, <1>3, TransferCalls

(* The steps of the system, the client's methods taken together. *)
LEMMA Steps ==
  ASSUME Kept, Next
  PROVE  \/ Calling \/ TakeReply \/ Expire \/ Connect
         \/ \E c \in due : Execute(c) \/ Drop(c)
         \/ Provision \/ \E u \in Uuids : Hangup(u)
  BY ReadMethods, WriteMethods, ControlMethods DEF Next

-----------------------------------------------------------------------------
(* A command keeps its number until it is executed or dropped, so that no   *)
(* other can be counted in its place.                                       *)
Numbered ==
  /\ \A c \in due : runs[c.id] = 0 /\ (c.id = call.id => c = call)
  /\ \A c, d \in due : c.id = d.id => c = d
  /\ reply.come => call # Idle /\ call \notin due
  /\ call # Idle => result.kind \notin {"ok", "not_found"}
  /\ result.kind \in {"ok", "not_found"} =>
       result.id \in 1..calls /\ \A c \in due : c.id # result.id

(* What the reply on its way will be taken to say is so; and what the       *)
(* result says.                                                             *)
Succeeded(c) ==
  runs[c.id] = 1 /\ Promised(c.parts, c.wish, after.before, after.now)
Missed(c) ==
  runs[c.id] = 0 /\ Absent(c.parts, after.before)

ReplyTrue ==
  reply.come /\ call.reads = "ok" =>
    /\ ReplyOk(reply.text) => Succeeded(call)
    /\ NotFound(reply.text) => Missed(call)

ResultTrue ==
  /\ result.kind = "ok" => Succeeded(result)
  /\ result.kind = "not_found" => Missed(result)

IInv == Kept /\ Numbered /\ ReplyTrue /\ ResultTrue

LEMMA Runs ==
  ASSUME Kept
  PROVE  /\ calls \in Nat /\ \A i \in 1..calls : runs[i] \in {0, 1}
         /\ Append(runs, 0) \in Seq({0, 1}) /\ Len(Append(runs, 0)) = calls + 1
         /\ \A i \in 1..calls : Append(runs, 0)[i] = runs[i]
         /\ Append(runs, 0)[calls + 1] = 0
         /\ \A k \in 1..calls, n \in {0, 1} :
              /\ [runs EXCEPT ![k] = n] \in Seq({0, 1}) /\ Len([runs EXCEPT ![k] = n]) = calls
              /\ [runs EXCEPT ![k] = n][k] = n
              /\ \A i \in 1..calls : i # k => [runs EXCEPT ![k] = n][i] = runs[i]
<1>1. calls \in Nat /\ runs \in Seq({0, 1}) /\ Len(runs) = calls
  BY NameAssumption DEF Kept
<1>2. \A i \in 1..calls : runs[i] \in {0, 1}
  BY <1>1, ElementOfSeq
<1>3. /\ Append(runs, 0) \in Seq({0, 1}) /\ Len(Append(runs, 0)) = calls + 1
      /\ \A i \in 1..calls : Append(runs, 0)[i] = runs[i]
      /\ Append(runs, 0)[calls + 1] = 0
  BY <1>1, AppendProperties
<1>4. ASSUME NEW k \in 1..calls, NEW n \in {0, 1}
      PROVE  /\ [runs EXCEPT ![k] = n] \in Seq({0, 1}) /\ Len([runs EXCEPT ![k] = n]) = calls
             /\ [runs EXCEPT ![k] = n][k] = n
             /\ \A i \in 1..calls : i # k => [runs EXCEPT ![k] = n][i] = runs[i]
  BY <1>1, ExceptSeq
<1> QED BY <1>1, <1>2, <1>3, <1>4

LEMMA IInvAtInit == Init => IInv
<1> SUFFICES ASSUME Init PROVE IInv
  OBVIOUS
<1>1. agents \in [Agents -> AgentRows]
  <2>1. "Available" \in AgentStatus /\ "Waiting" \in AgentState
    BY Zenon DEF AgentStatus, AgentState
  <2>2. agents \in [Agents -> [contact : Contacts, status : {"Available"}, state : {"Waiting"}]]
    BY DEF Init
  <2> QED BY <2>1, <2>2 DEF AgentRows
<1>2. Bridged(channels)
  <2>1. PICK bridge \in [Uuids -> Uuids] :
          /\ \A u \in Uuids : bridge[bridge[u]] = u /\ bridge[u] # u
          /\ channels = [u \in Uuids |-> [at |-> "ivr", peer |-> bridge[u]]]
    BY DEF Init
  <2> QED BY <2>1 DEF Bridged
<1>3. TablesOK(Tables)
  <2>1. tiers = Queues \X Agents
    BY DEF Init
  <2> QED BY <1>1, <1>2, <2>1 DEF TablesOK, Tables
<1>4. /\ calls = 0 /\ runs = <<>> /\ call = Idle /\ due = {} /\ ~reply.come
      /\ allow \in BOOLEAN /\ connected \in BOOLEAN /\ result.kind = "none"
  BY DEF Init, Nothing, Result
<1>5. 0 \in 0..MaxCalls /\ <<>> \in Seq({0, 1}) /\ Len(<<>>) = 0
  BY NameAssumption
<1>6. Kept
  BY <1>3, <1>4, <1>5 DEF Kept
<1>7. Numbered /\ ReplyTrue /\ ResultTrue
  BY <1>4 DEF Numbered, ReplyTrue, ResultTrue
<1> QED BY <1>6, <1>7 DEF IInv

LEMMA CallingStep ==
  ASSUME IInv, Calling
  PROVE  IInv'
<1>0. Kept /\ Numbered /\ call = Idle
  BY DEF IInv, Calling
<1>1. ~reply.come /\ ~reply'.come /\ result'.kind \notin {"ok", "not_found"}
  BY <1>0 DEF Numbered, Calling
<1>2. ReplyTrue' /\ ResultTrue'
  BY <1>1 DEF ReplyTrue, ResultTrue
<1>3. TablesOK(Tables)' /\ allow' \in BOOLEAN /\ connected' \in BOOLEAN
  BY <1>0 DEF Calling, Kept, TablesOK, Tables, Bridged, database
<1>4. CASE Refusing
  <2>1. UNCHANGED <<calls, call, due, runs, connected>>
    BY <1>4 DEF Refusing, Calling
  <2>2. Kept'
    BY <1>0, <1>3, <2>1 DEF Kept
  <2>3. Numbered'
    BY <1>0, <1>1, <2>1 DEF Numbered
  <2> QED BY <1>2, <2>2, <2>3 DEF IInv
<1>5. ASSUME NEW c, Sent(c) PROVE IInv'
  <2>1. /\ c.id = calls + 1 /\ Sane(c) /\ call' = c /\ due' = due \cup {c}
        /\ calls' = calls + 1 /\ runs' = Append(runs, 0) /\ connected' = connected /\ connected
    BY <1>5 DEF Sent, Calling
  <2>2. calls \in Nat /\ calls' \in 0..MaxCalls /\ c.id \in 1..calls'
    BY <1>0, <2>1, Runs, NameAssumption DEF Kept, Calling
  <2>3. \A d \in due : d.id \in 1..calls /\ Sane(d)
    BY <1>0 DEF Kept
  <2>4. Kept'
    <3>1. \A d \in due' : d.id \in 1..calls' /\ Sane(d)
      BY <2>1, <2>2, <2>3
    <3>2. runs' \in Seq({0, 1}) /\ Len(runs') = calls'
      BY <1>0, <2>1, Runs
    <3> QED BY <1>3, <2>1, <2>2, <3>1, <3>2 DEF Kept
  <2>5. Numbered'
    <3>1. \A d \in due : runs'[d.id] = 0 /\ d.id # c.id
      BY <1>0, <2>1, <2>2, <2>3, Runs DEF Numbered
    <3>2. runs'[c.id] = 0
      BY <1>0, <2>1, Runs
    <3> QED BY <1>0, <1>1, <2>1, <3>1, <3>2 DEF Numbered
  <2> QED BY <1>2, <2>4, <2>5 DEF IInv
<1> QED BY <1>4, <1>5 DEF Calling

(* The steps that leave the tables, the commands under way and the history  *)
(* alone keep what is true of them.                                         *)
LEMMA ReplyTaken ==
  ASSUME Kept, Numbered, TakeReply
  PROVE  /\ call # Idle /\ call \notin due /\ call.id \in 1..calls
         /\ call' = Idle /\ ~reply'.come
         /\ UNCHANGED <<agents, tiers, channels, allow, connected, calls, due, runs, after>>
         /\ result'.id = call.id /\ result'.parts = call.parts /\ result'.wish = call.wish
         /\ result'.kind = "ok" => call.reads = "ok" /\ ReplyOk(reply.text)
         /\ result'.kind = "not_found" => call.reads = "ok" /\ NotFound(reply.text)
<1>0. reply.come /\ connected' = connected
  BY DEF TakeReply
<1>1. call # Idle /\ call \notin due /\ call.id \in 1..calls /\ call.reads \in Readings
  BY <1>0 DEF Numbered, Kept, Sane
<1> DEFINE Ends(kind) == \E rows, value : Ended(Result(kind, call, rows, value))
<1>2. \/ call.reads = "ok" /\ ReplyOk(reply.text) /\ Ends("ok")
      \/ call.reads = "ok" /\ NotFound(reply.text) /\ Ends("not_found")
      \/ \E kind : kind \notin {"ok", "not_found"} /\ Ends(kind)
  <2> HIDE DEF Ends
  <2>0. ASSUME NEW kind, NEW rows, NEW value, Ended(Result(kind, call, rows, value)) PROVE Ends(kind)
    BY <2>0 DEF Ends
  <2>1. CASE call.reads = "ok"
    <3>1. Ended(Result(IF ReplyOk(reply.text) THEN "ok"
                       ELSE IF NotFound(reply.text) THEN "not_found" ELSE "failed", call, {}, ""))
      BY <2>1 DEF TakeReply
    <3> QED BY <2>0, <2>1, <3>1
  <2>2. CASE call.reads = "text"
    <3>1. Ended(Result("text", call, {}, ""))
      BY <2>2 DEF TakeReply
    <3> QED BY <2>0, <3>1
  <2>3. CASE call.reads \notin {"ok", "text"} /\ Refused(reply.text)
    <3>1. Ended(Result("error", call, {}, ""))
      BY <2>3 DEF TakeReply
    <3> QED BY <2>0, <3>1
  <2>4. CASE call.reads = "agents" /\ ~Refused(reply.text)
    <3>1. Ended(Result("agents", call, AgentList(reply.text), ""))
      BY <2>4 DEF TakeReply
    <3> QED BY <2>0, <3>1
  <2>5. CASE call.reads = "tiers" /\ ~Refused(reply.text)
    <3>1. Ended(Result("tiers", call, TierList(reply.text), ""))
      BY <2>5 DEF TakeReply
    <3> QED BY <2>0, <3>1
  <2>6. CASE call.reads = "status" /\ ~Refused(reply.text)
    <3>1. Ended(Result("status", call, {}, FromText(AgentStatus, BareValue(reply.text))))
      BY <2>6 DEF TakeReply
    <3> QED BY <2>0, <3>1
  <2>7. CASE call.reads = "state" /\ ~Refused(reply.text)
    <3>1. Ended(Result("state", call, {}, FromText(AgentState, BareValue(reply.text))))
      BY <2>7 DEF TakeReply
    <3> QED BY <2>0, <3>1
  <2> QED BY <1>1, <2>1, <2>2, <2>3, <2>4, <2>5, <2>6, <2>7 DEF Readings
<1>3. ASSUME NEW kind, Ends(kind)
      PROVE  /\ call' = Idle /\ ~reply'.come
             /\ UNCHANGED <<agents, tiers, channels, allow, calls, due, runs, after>>
             /\ result'.kind = kind /\ result'.id = call.id
             /\ result'.parts = call.parts /\ result'.wish = call.wish
  BY <1>3 DEF Ended, Result, Nothing, database
<1> HIDE DEF Ends
<1> QED BY <1>0, <1>1, <1>2, <1>3

LEMMA TakeReplyStep ==
  ASSUME IInv, TakeReply
  PROVE  IInv'
<1>0. Kept /\ Numbered /\ ReplyTrue /\ reply.come
  BY DEF IInv, TakeReply
<1>1. call # Idle /\ call \notin due /\ call.id \in 1..calls /\ connected' = connected
  BY <1>0, ReplyTaken
<1>2. /\ call' = Idle /\ ~reply'.come
      /\ UNCHANGED <<agents, tiers, channels, allow, calls, due, runs, after>>
      /\ result'.id = call.id /\ result'.parts = call.parts /\ result'.wish = call.wish
      /\ result'.kind = "ok" => call.reads = "ok" /\ ReplyOk(reply.text)
      /\ result'.kind = "not_found" => call.reads = "ok" /\ NotFound(reply.text)
  BY <1>0, ReplyTaken
<1>3. Kept'
  BY <1>0, <1>1, <1>2 DEF Kept, TablesOK, Tables, Bridged
<1>4. \A c \in due : c.id # 0 /\ c.id # call.id
  BY <1>0, <1>1, Runs DEF Kept, Numbered
<1>5. Idle.id = 0
  BY DEF Idle
<1>6. Numbered'
  BY <1>0, <1>1, <1>2, <1>4, <1>5 DEF Numbered
<1>7. ResultTrue'
  BY <1>0, <1>2 DEF ResultTrue, ReplyTrue, Succeeded, Missed, Promised, Absent
<1> QED BY <1>2, <1>3, <1>6, <1>7 DEF IInv, ReplyTrue

LEMMA ExpireStep ==
  ASSUME IInv, Expire
  PROVE  IInv'
<1>0. Kept /\ Numbered
  BY DEF IInv
<1>1. /\ call' = Idle /\ reply' = Nothing /\ connected' = FALSE
      /\ UNCHANGED <<agents, tiers, channels, allow, calls, due, runs, after>>
      /\ result'.kind \in {"timeout", "lost"}
  <2>1. PICK kind \in {"timeout", "lost"} : Ended(Result(kind, call, {}, ""))
    BY DEF Expire
  <2> QED BY <2>1 DEF Expire, Ended, Result, database
<1>2. ~reply'.come /\ Idle.id = 0
  BY <1>1 DEF Nothing, Idle
<1>3. Kept'
  BY <1>0, <1>1 DEF Kept, TablesOK, Tables, Bridged
<1>4. \A c \in due : c.id # 0
  BY <1>0, Runs DEF Kept
<1>5. Numbered'
  BY <1>0, <1>1, <1>2, <1>4 DEF Numbered
<1> QED BY <1>1, <1>2, <1>3, <1>5 DEF IInv, ReplyTrue, ResultTrue

LEMMA DropStep ==
  ASSUME IInv, NEW c \in due, Drop(c)
  PROVE  IInv'
<1>1. due' = due \ {c} /\ UNCHANGED <<agents, tiers, channels, client, runs, reply, after>>
  BY DEF Drop, database
<1>2. Kept'
  BY <1>1 DEF IInv, Kept, TablesOK, Tables, Bridged, client
<1>3. Numbered'
  BY <1>1 DEF IInv, Numbered, client
<1>4. ReplyTrue' /\ ResultTrue'
  BY <1>1 DEF IInv, ReplyTrue, ResultTrue, Succeeded, Missed, Promised, Absent, client
<1> QED BY <1>2, <1>3, <1>4 DEF IInv

LEMMA ConnectStep ==
  ASSUME IInv, Connect
  PROVE  IInv'
<1>1. connected' = TRUE /\ UNCHANGED <<agents, tiers, channels, allow, calls, call, due, runs, reply, after, result>>
  BY DEF Connect, database
<1>2. Kept'
  BY <1>1 DEF IInv, Kept, TablesOK, Tables, Bridged
<1>3. Numbered' /\ ReplyTrue' /\ ResultTrue'
  BY <1>1 DEF IInv, Numbered, ReplyTrue, ResultTrue, Succeeded, Missed, Promised, Absent
<1> QED BY <1>2, <1>3 DEF IInv

(* The switch's own steps. *)
LEMMA SwitchStep ==
  ASSUME IInv, TablesOK(Tables)', UNCHANGED <<client, due, runs, reply, after>>
  PROVE  IInv'
<1>1. Kept'
  BY DEF IInv, Kept, client
<1>2. Numbered' /\ ReplyTrue' /\ ResultTrue'
  BY DEF IInv, Numbered, ReplyTrue, ResultTrue, Succeeded, Missed, Promised, Absent, client
<1> QED BY <1>1, <1>2 DEF IInv

LEMMA ProvisionStep ==
  ASSUME IInv, Provision
  PROVE  IInv'
<1>1. TablesOK(Tables)
  BY DEF IInv, Kept
<1>2. PICK k \in Contacts :
        agents' = [a \in Agents |-> IF a \in DOMAIN agents THEN agents[a]
                     ELSE [contact |-> k, status |-> "Logged Out", state |-> "Waiting"]]
  BY Zenon DEF Provision
<1>3. [contact |-> k, status |-> "Logged Out", state |-> "Waiting"] \in AgentRows
  <2>1. "Logged Out" \in AgentStatus /\ "Waiting" \in AgentState
    BY Zenon DEF AgentStatus, AgentState
  <2> QED BY Zenon, <2>1 DEF AgentRows
<1> DEFINE row == [contact |-> k, status |-> "Logged Out", state |-> "Waiting"]
<1>4. agents' = [a \in Agents |-> IF a \in DOMAIN agents THEN agents[a] ELSE row] /\ row \in AgentRows
  BY <1>2, <1>3, Zenon
<1> HIDE DEF row
<1>5. agents' \in [Agents -> AgentRows]
  BY <1>1, <1>4 DEF TablesOK, Tables
<1>6. TablesOK(Tables)'
  BY <1>1, <1>5 DEF Provision, TablesOK, Tables, Bridged
<1> QED BY <1>6, SwitchStep DEF Provision

LEMMA HangupStep ==
  ASSUME IInv, NEW u \in Uuids, Hangup(u)
  PROVE  IInv'
<1>1. TablesOK(Tables) /\ Bridged(channels)
  BY DEF IInv, Kept, TablesOK, Tables
<1>2. Bridged(HungUp(u))
  BY <1>1, HungUpBridged
<1>3. TablesOK(Tables)'
  BY <1>1, <1>2 DEF Hangup, TablesOK, Tables, Bridged
<1> QED BY <1>3, SwitchStep DEF Hangup

(* A command is executed: what its outcome is, and what becomes of its      *)
(* reply when the client still waits for it.                                *)
Outcome(c, o) ==
  \/ o \in Outcomes(c.parts)
  \/ o.tables = Tables /\ o.text \in {<<RefusalLine>>, <<>>}

Does(c, o, n) ==
  /\ Outcome(c, o)
  /\ agents' = o.tables.agents /\ tiers' = o.tables.tiers /\ channels' = o.tables.channels
  /\ due' = due \ {c} /\ UNCHANGED client
  /\ n \in {0, 1} /\ (n = 0 <=> o.text = <<>> \/ Refused(o.text))
  /\ runs' = [runs EXCEPT ![c.id] = n]
  /\ c # call => UNCHANGED <<reply, after>>
  /\ c = call => \E t \in {o.text} \cup Damaged(o.text) :
                    /\ reply' = [come |-> TRUE, text |-> t]
                    /\ after' = [before |-> Tables, now |-> o.tables,
                                  whole |-> t # <<>> /\ t = o.text]

LEMMA Executed ==
  ASSUME NEW c \in due, Execute(c), runs[c.id] = 0
  PROVE  \E o : \E n \in {0, 1} : Does(c, o, n)
<1>1. PICK o \in Outcomes(c.parts)
               \cup {[tables |-> Tables, text |-> t] : t \in {<<RefusalLine>>, <<>>}} :
       /\ agents' = o.tables.agents /\ tiers' = o.tables.tiers /\ channels' = o.tables.channels
       /\ runs' = [runs EXCEPT ![c.id] = IF o.text = <<>> \/ Refused(o.text) THEN @ ELSE @ + 1]
       /\ IF c = call
          THEN \E t \in {o.text} \cup Damaged(o.text) :
                 /\ reply' = [come |-> TRUE, text |-> t]
                 /\ after' = [before |-> Tables, now |-> o.tables,
                              whole |-> t # <<>> /\ t = o.text]
          ELSE UNCHANGED <<reply, after>>
  BY DEF Execute
<1>2. Outcome(c, o)
  BY <1>1 DEF Outcome
<1> DEFINE n == IF o.text = <<>> \/ Refused(o.text) THEN 0 ELSE 1
           shown == \E t \in {o.text} \cup Damaged(o.text) :
                      /\ reply' = [come |-> TRUE, text |-> t]
                      /\ after' = [before |-> Tables, now |-> o.tables,
                                   whole |-> t # <<>> /\ t = o.text]
<1>3. (IF o.text = <<>> \/ Refused(o.text) THEN runs[c.id] ELSE runs[c.id] + 1) = n
  OBVIOUS
<1>4. runs' = [runs EXCEPT ![c.id] = n]
  BY <1>1, <1>3, Zenon
<1>5. n \in {0, 1} /\ (n = 0 <=> o.text = <<>> \/ Refused(o.text))
  OBVIOUS
<1>6. due' = due \ {c} /\ UNCHANGED client
  BY DEF Execute
<1>7. (c # call => UNCHANGED <<reply, after>>) /\ (c = call => shown)
  BY <1>1
<1> HIDE DEF n
<1>8. Does(c, o, n)
  BY <1>1, <1>2, <1>4, <1>5, <1>6, <1>7 DEF Does
<1> QED BY <1>5, <1>8

LEMMA ExecuteStep ==
  ASSUME IInv, NEW c \in due, Execute(c)
  PROVE  IInv'
<1>0. Kept /\ Numbered /\ ReplyTrue /\ ResultTrue /\ TablesOK(Tables)
  BY DEF IInv, Kept
<1>e. PICK o : \E n \in {0, 1} : Does(c, o, n)
  <2>1. runs[c.id] = 0
    BY <1>0 DEF Numbered
  <2> QED BY <2>1, Executed
<1>1. PICK n \in {0, 1} : Does(c, o, n)
  BY <1>e
<1> USE DEF Does
<1>2. /\ c.id \in 1..calls /\ Sane(c) /\ runs[c.id] = 0 /\ c.id # 0
      /\ UNCHANGED <<allow, connected, calls, call, result>>
  BY <1>0, <1>1, Runs DEF Kept, Numbered, client
<1>3. /\ runs' \in Seq({0, 1}) /\ Len(runs') = calls
      /\ runs'[c.id] = n /\ \A i \in 1..calls : i # c.id => runs'[i] = runs[i]
  <2>1. runs' = [runs EXCEPT ![c.id] = n]
    BY <1>1, <1>2
  <2> QED BY <1>0, <1>2, <2>1, Runs
<1>4. TablesOK(o.tables)
  <2>1. CASE o \in Outcomes(c.parts)
    BY <1>0, <1>2, <2>1, OutcomesKeepTables DEF Sane
  <2> QED BY <1>0, <1>1, <2>1 DEF Outcome
<1>5. TablesOK(Tables)'
  BY <1>1, <1>4 DEF TablesOK, Tables, Bridged
<1>6. Kept'
  BY <1>0, <1>1, <1>2, <1>3, <1>5 DEF Kept
<1>7. ASSUME NEW d \in due' PROVE runs'[d.id] = 0 /\ d.id # c.id
  BY <1>0, <1>1, <1>3 DEF Kept, Numbered
<1>8. result.kind \in {"ok", "not_found"} => result.id \in 1..calls /\ result.id # c.id
  BY <1>0 DEF Numbered
<1>9. Numbered'
  <2>1. reply'.come => call # Idle /\ call \notin due'
    <3>1. CASE c = call
      BY <1>1, <1>2, <3>1 DEF Idle
    <3>2. CASE c # call
      <4>1. UNCHANGED reply
        BY <1>1, <3>2
      <4> QED BY <1>0, <1>1, <4>1 DEF Numbered
    <3> QED BY <3>1, <3>2
  <2>2. \A d \in due' : d \in due
    BY <1>1
  <2> QED BY <1>0, <1>2, <1>7, <1>8, <2>1, <2>2 DEF Numbered
<1>10. CASE c # call
  <2>1. UNCHANGED <<reply, after>>
    BY <1>1, <1>10
  <2>2. ReplyTrue'
    <3>1. reply.come => call.id \in 1..calls /\ call.id # c.id
      BY <1>0, <1>10 DEF Numbered, Kept
    <3> QED BY <1>0, <1>2, <1>3, <2>1, <3>1 DEF ReplyTrue, Succeeded, Missed, Promised, Absent
  <2>3. ResultTrue'
    BY <1>0, <1>2, <1>3, <1>8, <2>1 DEF ResultTrue, Succeeded, Missed, Promised, Absent
  <2> QED BY <1>6, <1>9, <2>2, <2>3 DEF IInv
<1>11. CASE c = call
  <2>1. PICK t \in {o.text} \cup Damaged(o.text) :
          /\ reply' = [come |-> TRUE, text |-> t]
          /\ after' = [before |-> Tables, now |-> o.tables, whole |-> t # <<>> /\ t = o.text]
    BY <1>1, <1>11
  <2>2. reply'.text = t /\ after'.before = Tables /\ after'.now = o.tables
    BY <2>1
  <2>3. ResultTrue'
    <3>1. call # Idle
      BY <1>2, <1>11 DEF Idle
    <3> QED BY <1>0, <1>2, <3>1 DEF ResultTrue, Numbered
  <2>4. ASSUME call.reads = "ok", ReplyOk(t) \/ NotFound(t)
        PROVE  /\ ReplyOk(t) => Promised(call.parts, call.wish, Tables, o.tables) /\ n = 1
               /\ NotFound(t) => Absent(call.parts, Tables) /\ n = 0
    <3>1. t # <<>> /\ t # <<RefusalLine>>
      BY <2>4, Replies
    <3>2. Len(o.text) < 3 => t = o.text
      BY <2>1, <3>1 DEF Damaged
    <3>3. CASE o \in Outcomes(c.parts)
      <4>1. \/ o.text = <<OkLine>> /\ Promised(c.parts, c.wish, Tables, o.tables)
            \/ o.text = <<NotFoundLine>> /\ o.tables = Tables /\ Absent(c.parts, Tables)
        BY <1>0, <1>2, <1>11, <2>4, <3>3, MutationOutcomes DEF Sane
      <4>2. t = o.text
        <5>1. Len(<<OkLine>>) = 1 /\ Len(<<NotFoundLine>>) = 1
          OBVIOUS
        <5>2. Len(o.text) = 1
          BY <4>1, <5>1, Zenon
        <5> QED BY <3>2, <5>2
      <4> QED BY <1>1, <1>11, <4>1, <4>2, Replies
    <3>4. CASE o.tables = Tables /\ o.text \in {<<RefusalLine>>, <<>>}
      <4>1. t = o.text
        <5>1. Len(<<RefusalLine>>) = 1 /\ Len(<<>>) = 0
          OBVIOUS
        <5>2. CASE o.text = <<RefusalLine>>
          <6>1. Len(o.text) = 1
            BY <5>1, <5>2, Zenon
          <6> QED BY <3>2, <6>1
        <5>3. CASE o.text = <<>>
          <6>1. Len(o.text) = 0
            BY <5>1, <5>3, Zenon
          <6> QED BY <3>2, <6>1
        <5> QED BY <3>4, <5>2, <5>3
      <4> QED BY <3>1, <3>4, <4>1
    <3> QED BY <1>1, <3>3, <3>4 DEF Outcome
  <2>5. ReplyTrue'
    <3>1. UNCHANGED call /\ runs'[call.id] = n
      BY <1>2, <1>3, <1>11
    <3> QED BY <2>2, <2>4, <3>1 DEF ReplyTrue, Succeeded, Missed, Promised, Absent
  <2> QED BY <1>6, <1>9, <2>3, <2>5 DEF IInv
<1> QED BY <1>10, <1>11

LEMMA IInvStep ==
  ASSUME IInv, [Next]_vars
  PROVE  IInv'
<1>1. CASE UNCHANGED vars
  <2>1. UNCHANGED <<client, due, runs, reply, after, agents, tiers, channels>>
    BY <1>1 DEF vars, client
  <2>2. TablesOK(Tables)'
    BY <2>1 DEF IInv, Kept, TablesOK, Tables, Bridged
  <2> QED BY <2>1, <2>2, SwitchStep
<1>2. CASE Next
  <2>1. Kept
    BY DEF IInv
  <2> QED BY <1>2, <2>1, Steps, CallingStep, TakeReplyStep, ExpireStep, ConnectStep, ExecuteStep,
             DropStep, ProvisionStep, HangupStep
<1> QED BY <1>1, <1>2

LEMMA IInvHolds == Spec => []IInv
  BY IInvAtInit, IInvStep, PTL DEF Spec

-----------------------------------------------------------------------------
(* The tables stay well formed, and so do the commands under way: a bridge  *)
(* has two ends, a reply comes to a waiting method only, and one that waits *)
(* has a connection.                                                        *)
THEOREM TypeCorrect == Spec => []TypeOK
<1>1. IInv => TypeOK
  <2> SUFFICES ASSUME IInv PROVE TypeOK
    OBVIOUS
  <2>1. Kept /\ Numbered /\ TablesOK(Tables)
    BY DEF IInv, Kept
  <2>2. /\ DOMAIN agents \subseteq Agents
        /\ \A a \in DOMAIN agents :
             agents[a] \in [contact : Contacts, status : AgentStatus, state : AgentState]
        /\ tiers \subseteq Queues \X Agents
        /\ DOMAIN channels \subseteq Uuids
        /\ \A u \in DOMAIN channels :
             channels[u].peer \in DOMAIN channels => channels[channels[u].peer].peer = u
    BY <2>1 DEF TablesOK, Tables, Bridged, AgentRows
  <2>3. call.id \in 0..calls
    BY <2>1, Runs DEF Kept, Idle
  <2>4. \A c \in due : c.id \in 1..calls
    BY <2>1 DEF Kept
  <2> QED BY <2>1, <2>2, <2>3, <2>4 DEF TypeOK, Kept, Numbered
<1> QED BY <1>1, IInvHolds, PTL

(* Whatever commands are sent, timed out and executed late: none takes      *)
(* effect twice, ok means that the switch acted on that very command, and   *)
(* not_found that there was nothing there (_command, parse_command_reply).  *)
THEOREM AnswersTrue == Spec => []AnswersAreTrue
<1>1. IInv => AnswersAreTrue
  <2> SUFFICES ASSUME IInv PROVE AnswersAreTrue
    OBVIOUS
  <2>1. \A i \in 1..calls : runs[i] <= 1
    BY Runs DEF IInv
  <2> QED BY <2>1 DEF AnswersAreTrue, IInv, ResultTrue, Succeeded, Missed, Absent
<1> QED BY <1>1, IInvHolds, PTL

(* uuid_transfer: for every set of channels, bridges, destinations and      *)
(* legs, a success means that the legs asked for, and no other channel,     *)
(* went to the destination.                                                 *)
THEOREM LegsMoved == Spec => []NamedLegMoves
<1>1. IInv => NamedLegMoves
  BY DEF IInv, ResultTrue, Succeeded, Promised, Legs, NamedLegMoves
<1> QED BY <1>1, IInvHolds, PTL

(* callcenter_delete_agent and callcenter_delete_tier: no spelling of names *)
(* lets a delete that reported success leave behind a row that the name     *)
(* it was given means.                                                      *)
THEOREM NoOrphanLeft == Spec => []DeleteLeavesNoOrphan
<1>1. IInv => DeleteLeavesNoOrphan
  BY DEF IInv, ResultTrue, Succeeded, Promised, DeleteLeavesNoOrphan
<1> QED BY <1>1, IInvHolds, PTL

(* _is_read_only_api_command: whatever a caller passes, the commands a      *)
(* read-only client sends leave the switch's tables alone.                  *)
THEOREM ReadOnlyHolds == Spec => ReadOnlyNeverWrites
<1> DEFINE Quiet == ~allow /\ (\E c \in due \ due' : ~c.unsafe) => UNCHANGED database
<1>1. ASSUME IInv, [Next]_vars PROVE [Quiet]_vars
  <2> SUFFICES ASSUME Next, NEW c \in due \ due', ~c.unsafe PROVE UNCHANGED database
    BY <1>1
  <2>1. Kept /\ Sane(c)
    BY <1>1 DEF IInv, Kept
  <2>2. PICK d \in due : Execute(d) \/ Drop(d)
    <3>1. ~Calling
      BY DEF Calling, Sent, Refusing
    <3>2. ~TakeReply
      BY <1>1, ReplyTaken DEF IInv
    <3>3. ~Expire /\ ~Connect /\ ~Provision /\ \A u \in Uuids : ~Hangup(u)
      BY DEF Expire, Ended, Connect, Provision, Hangup
    <3> QED BY <2>1, <3>1, <3>2, <3>3, Steps
  <2>3. c = d
    BY <2>2 DEF Execute, Drop
  <2>4. CASE Drop(d)
    BY <2>4 DEF Drop
  <2>5. CASE Execute(d)
    <3>1. PICK o \in Outcomes(d.parts)
                 \cup {[tables |-> Tables, text |-> t] : t \in {<<RefusalLine>>, <<>>}} :
            agents' = o.tables.agents /\ tiers' = o.tables.tiers /\ channels' = o.tables.channels
      BY <2>5 DEF Execute
    <3>2. ReadOnlyForm(d.parts) /\ Len(d.parts) \in Nat
      BY <2>1, <2>3 DEF Sane
    <3>3. o.tables = Tables
      BY <3>1, <3>2, QueriesChangeNothing
    <3> QED BY <3>1, <3>3 DEF Tables, database
  <2> QED BY <2>2, <2>4, <2>5
<1> QED BY <1>1, IInvHolds, PTL DEF Spec, ReadOnlyNeverWrites

-----------------------------------------------------------------------------
(* The answers of the switch to the reads. *)
Listed(p) == (IF Len(p) = 4 THEN {p[4]} ELSE Agents) \cap DOMAIN agents

LEMMA AgentsAnswered ==
  ASSUME TablesOK(Tables), OneCell, NEW p, Len(p) \in Nat, Says(p, <<CC, "agent", "list">>),
         NEW o \in Outcomes(p), NEW t, t \in {o.text} \cup Damaged(o.text)
  PROVE  /\ o.tables = Tables
         /\ {AgentShown(r) : r \in AgentList(t)} \subseteq {AgentHeld(a) : a \in Listed(p)}
         /\ t = o.text => {AgentShown(r) : r \in AgentList(t)} = {AgentHeld(a) : a \in Listed(p)}
<1>1. OtherThan(p, "agent", "list")
  BY FormsExclude
<1>2. Outcomes(p) = {[tables |-> Tables, text |-> x] :
                       x \in {AgentTable(IF Len(p) = 4 THEN {p[4]} ELSE Agents, c) : c \in Columns}}
  BY <1>1 DEF Outcomes, OtherThan
<1>3. PICK h \in Columns :
        o = [tables |-> Tables, text |-> AgentTable(IF Len(p) = 4 THEN {p[4]} ELSE Agents, h)]
  BY <1>2
<1>4. o.tables = Tables /\ o.text = Listing(h, {AgentRow(a, h) : a \in Listed(p)})
  BY <1>3 DEF AgentTable, Listing, Listed
<1>5. Listed(p) \subseteq DOMAIN agents
  BY DEF Listed
<1> DEFINE D == Listed(p)
<1> HIDE DEF D
<1>6. /\ {AgentShown(r) : r \in AgentList(t)} \subseteq {AgentHeld(a) : a \in D}
      /\ t = Listing(h, {AgentRow(a, h) : a \in D}) =>
           {AgentShown(r) : r \in AgentList(t)} = {AgentHeld(a) : a \in D}
  <2>1. D \subseteq DOMAIN agents
    BY <1>5 DEF D
  <2>2. t \in {Listing(h, {AgentRow(a, h) : a \in D})}
                \cup Damaged(Listing(h, {AgentRow(a, h) : a \in D}))
    BY <1>4 DEF D
  <2> QED BY <2>1, <2>2, AgentsRead
<1> QED BY <1>4, <1>6 DEF D

LEMMA TiersAnswered ==
  ASSUME TablesOK(Tables), NEW p, Len(p) \in Nat, Says(p, <<CC, "tier", "list">>),
         NEW o \in Outcomes(p), NEW t, t \in {o.text} \cup Damaged(o.text)
  PROVE  /\ o.tables = Tables /\ TierList(t) \subseteq tiers
         /\ t = o.text => TierList(t) = tiers
<1>1. OtherThan(p, "tier", "list")
  BY FormsExclude
<1>2. Outcomes(p) = {[tables |-> Tables, text |-> x] : x \in {TierTable}}
  BY <1>1 DEF Outcomes, OtherThan
<1>3. o.tables = Tables /\ o.text = TierTable
  BY <1>2
<1> QED BY <1>3, TiersRead

LEMMA ValueAnswered ==
  ASSUME TablesOK(Tables), NEW p, Len(p) \in Nat, Says(p, <<CC, "agent", "get">>),
         NEW o \in Outcomes(p), NEW t, t \in {o.text} \cup Damaged(o.text)
  PROVE  /\ o.tables = Tables
         /\ t = o.text /\ ~Refused(t) =>
              p[5] \in DOMAIN agents /\ BareValue(t) = agents[p[5]][p[4]]
<1>1. OtherThan(p, "agent", "get")
  BY FormsExclude
<1>2. Outcomes(p) = IF p[5] \in DOMAIN agents
                    THEN {[tables |-> Tables, text |-> x] : x \in {<<Cells(<<agents[p[5]][p[4]]>>)>>}}
                    ELSE {[tables |-> Tables, text |-> x] : x \in {<<NotFoundLine>>}}
  BY <1>1 DEF Outcomes, OtherThan
<1>3. CASE p[5] \in DOMAIN agents
  <2>1. o.tables = Tables /\ o.text = <<Cells(<<agents[p[5]][p[4]]>>)>>
    BY <1>2, <1>3
  <2>2. BareValue(o.text) = agents[p[5]][p[4]]
    BY <2>1, ValueRead
  <2> QED BY <1>3, <2>1, <2>2
<1>4. CASE p[5] \notin DOMAIN agents
  <2>1. o.tables = Tables /\ o.text = <<NotFoundLine>>
    BY <1>2, <1>4
  <2> QED BY <2>1, Replies
<1> QED BY <1>3, <1>4

(* A reply that is a bare refusal or nothing lists nothing. *)
LEMMA NothingRead ==
  ASSUME NEW x, x \in {<<RefusalLine>>, <<>>}, NEW t, t \in {x} \cup Damaged(x), ~Refused(t)
  PROVE  t = <<>> /\ AgentList(t) = {} /\ TierList(t) = {}
<1>1. Len(<<RefusalLine>>) = 1 /\ Len(<<>>) = 0
  OBVIOUS
<1>2. Damaged(x) = {<<>>}
  <2>1. CASE x = <<RefusalLine>>
    <3>1. Len(x) = 1
      BY <1>1, <2>1, Zenon
    <3> QED BY <3>1 DEF Damaged
  <2>2. CASE x = <<>>
    <3>1. Len(x) = 0
      BY <1>1, <2>2, Zenon
    <3> QED BY <3>1 DEF Damaged
  <2> QED BY <2>1, <2>2
<1>3. t = <<>>
  BY <1>2, Replies
<1>4. Table(t) = {}
  BY <1>3, EmptyTable
<1> QED BY <1>3, <1>4 DEF AgentList, TierList

-----------------------------------------------------------------------------
(* What a read returned is what the switch held when it answered: of        *)
(* agents, of tiers, and of one agent's status or state.                    *)
AgentsTrue(p, rows) ==
  LET held == after.now.agents
      asked == DOMAIN held \cap IF Len(p) = 4 THEN {p[4]} ELSE Agents
      agent(a) == [name |-> a, status |-> held[a].status, state |-> held[a].state]
  IN  /\ {AgentShown(r) : r \in rows} \subseteq {agent(a) : a \in asked}
      /\ after.whole => {AgentShown(r) : r \in rows} = {agent(a) : a \in asked}

TiersTrue(rows) ==
  rows \subseteq after.now.tiers /\ (after.whole => rows = after.now.tiers)

ValueTrue(kind, p, value) ==
  after.whole => p[5] \in DOMAIN after.now.agents /\ value = after.now.agents[p[5]][kind]

ReadingKinds == {"agents", "tiers", "status", "state"}

ReadTrue(kind, p, rows, value) ==
  /\ kind = "agents" => AgentsTrue(p, rows)
  /\ kind = "tiers" => TiersTrue(rows)
  /\ kind \in {"status", "state"} => ValueTrue(kind, p, value)

(* What is read in a reply. *)
RowsOf(kind, t) == IF kind = "agents" THEN AgentList(t) ELSE IF kind = "tiers" THEN TierList(t) ELSE {}
ValueOf(kind, t) ==
  IF kind = "status" THEN FromText(AgentStatus, BareValue(t))
  ELSE IF kind = "state" THEN FromText(AgentState, BareValue(t)) ELSE ""

ReadIInv ==
  /\ IInv
  /\ call # Idle => result.kind \notin ReadingKinds
  /\ reply.come /\ ~Refused(reply.text) =>
       ReadTrue(call.reads, call.parts, RowsOf(call.reads, reply.text), ValueOf(call.reads, reply.text))
  /\ ReadTrue(result.kind, result.parts, result.rows, result.value)

LEMMA OtherKinds ==
  ASSUME NEW kind, kind \notin ReadingKinds, NEW p, NEW rows, NEW value
  PROVE  ReadTrue(kind, p, rows, value) /\ ReadTrue(kind, p, rows, value)'
  BY DEF ReadTrue, ReadingKinds

(* A command is executed while its caller waits: the reply, as it will be   *)
(* read.                                                                    *)
LEMMA Answered ==
  ASSUME OneCell, TablesOK(Tables), NEW kind, NEW p, Len(p) \in Nat, Asks(kind, p),
         NEW o, o \in Outcomes(p) \/ (o.tables = Tables /\ o.text \in {<<RefusalLine>>, <<>>}),
         NEW t, t \in {o.text} \cup Damaged(o.text), ~Refused(t),
         after' = [before |-> Tables, now |-> o.tables, whole |-> t # <<>> /\ t = o.text]
  PROVE  ReadTrue(kind, p, RowsOf(kind, t), ValueOf(kind, t))'
<1>0. /\ after'.now = o.tables /\ (after'.whole => t # <<>> /\ t = o.text)
      /\ Tables.agents = agents /\ Tables.tiers = tiers
  BY DEF Tables
<1>r. CASE o.tables = Tables /\ o.text \in {<<RefusalLine>>, <<>>}
  <2>1. t = <<>> /\ AgentList(t) = {} /\ TierList(t) = {}
    BY <1>r, NothingRead
  <2>2. ~after'.whole
    BY <1>0, <2>1
  <2>3. kind = "agents" => AgentsTrue(p, AgentList(t))'
    BY <2>1, <2>2 DEF AgentsTrue
  <2>4. TiersTrue({})' /\ ValueTrue(kind, p, ValueOf(kind, t))'
    BY <2>2 DEF TiersTrue, ValueTrue
  <2> QED BY <2>1, <2>3, <2>4 DEF ReadTrue, RowsOf
<1>a. CASE o \in Outcomes(p) /\ kind = "agents"
  <2>1. Says(p, <<CC, "agent", "list">>)
    BY <1>a DEF Asks
  <2>2. /\ o.tables = Tables
        /\ {AgentShown(r) : r \in AgentList(t)} \subseteq {AgentHeld(a) : a \in Listed(p)}
        /\ t = o.text => {AgentShown(r) : r \in AgentList(t)} = {AgentHeld(a) : a \in Listed(p)}
    BY <1>a, <2>1, AgentsAnswered
  <2>3. after'.now.agents = agents
    BY <1>0, <2>2
  <2>4. {AgentHeld(a) : a \in Listed(p)} =
        {[name |-> a, status |-> after'.now.agents[a].status, state |-> after'.now.agents[a].state] :
           a \in DOMAIN after'.now.agents \cap IF Len(p) = 4 THEN {p[4]} ELSE Agents}
    BY <2>3 DEF AgentHeld, Listed
  <2>5. AgentsTrue(p, AgentList(t))'
    BY <1>0, <2>2, <2>4 DEF AgentsTrue
  <2> QED BY <1>a, <2>5 DEF ReadTrue, RowsOf
<1>t. CASE o \in Outcomes(p) /\ kind = "tiers"
  <2>1. Says(p, <<CC, "tier", "list">>)
    BY <1>t DEF Asks
  <2>2. o.tables = Tables /\ TierList(t) \subseteq tiers /\ (t = o.text => TierList(t) = tiers)
    BY <1>t, <2>1, TiersAnswered
  <2>3. TiersTrue(TierList(t))'
    BY <1>0, <2>2 DEF TiersTrue
  <2> QED BY <1>t, <2>3 DEF ReadTrue, RowsOf
<1>v. CASE o \in Outcomes(p) /\ kind \in {"status", "state"}
  <2>1. Says(p, <<CC, "agent", "get">>) /\ p[4] = kind
    BY <1>v DEF Asks
  <2>2. /\ o.tables = Tables
        /\ t = o.text => p[5] \in DOMAIN agents /\ BareValue(t) = agents[p[5]][kind]
    BY <1>v, <2>1, ValueAnswered
  <2>3. ASSUME after'.whole
        PROVE  p[5] \in DOMAIN agents /\ ValueOf(kind, t) = agents[p[5]][kind]
    <3>1. p[5] \in DOMAIN agents /\ BareValue(t) = agents[p[5]][kind]
      BY <1>0, <2>2, <2>3
    <3>2. agents[p[5]].status \in AgentStatus /\ agents[p[5]].state \in AgentState
      BY <3>1, AgentIs
    <3> QED BY <1>v, <3>1, <3>2 DEF ValueOf, FromText
  <2>4. after'.now.agents = agents
    BY <1>0, <2>2
  <2>5. ValueTrue(kind, p, ValueOf(kind, t))'
    BY <2>3, <2>4 DEF ValueTrue
  <2> QED BY <1>v, <2>5 DEF ReadTrue
<1>o. CASE kind \notin ReadingKinds
  BY <1>o DEF ReadTrue, ReadingKinds
<1> QED BY <1>r, <1>a, <1>t, <1>v, <1>o DEF ReadingKinds

LEMMA ReadExecuted ==
  ASSUME OneCell, ReadIInv, NEW c \in due, Execute(c)
  PROVE  ReadIInv'
<1>0. IInv /\ Kept /\ Numbered /\ TablesOK(Tables) /\ Sane(c) /\ c.id \in 1..calls
  BY DEF ReadIInv, IInv, Kept
<1>1. IInv'
  BY <1>0, ExecuteStep
<1>2. PICK o : \E n \in {0, 1} : Does(c, o, n)
  <2>1. runs[c.id] = 0
    BY <1>0 DEF Numbered
  <2> QED BY <2>1, Executed
<1>3. UNCHANGED <<call, result>>
  BY <1>2 DEF Does, client
<1>4. CASE c # call
  <2>1. UNCHANGED <<reply, after>>
    BY <1>2, <1>4 DEF Does
  <2> QED BY <1>1, <1>3, <2>1 DEF ReadIInv, ReadTrue, AgentsTrue, TiersTrue, ValueTrue
<1>5. CASE c = call
  <2>1. PICK t \in {o.text} \cup Damaged(o.text) :
          /\ reply' = [come |-> TRUE, text |-> t]
          /\ after' = [before |-> Tables, now |-> o.tables, whole |-> t # <<>> /\ t = o.text]
    BY <1>2, <1>5 DEF Does
  <2>2. /\ o \in Outcomes(call.parts) \/ (o.tables = Tables /\ o.text \in {<<RefusalLine>>, <<>>})
        /\ Len(call.parts) \in Nat /\ Asks(call.reads, call.parts)
    BY <1>0, <1>2, <1>5 DEF Does, Outcome, Sane
  <2>3. call # Idle
    BY <1>0, <1>5, Runs DEF Idle
  <2>4. result.kind \notin ReadingKinds
    BY <2>3 DEF ReadIInv
  <2>5. ReadTrue(result.kind, result.parts, result.rows, result.value)'
    BY <1>3, <2>4 DEF ReadTrue, ReadingKinds
  <2>6. ASSUME ~Refused(t)
        PROVE  ReadTrue(call.reads, call.parts, RowsOf(call.reads, t), ValueOf(call.reads, t))'
    <3> DEFINE k == call.reads
               p == call.parts
    <3>1. ASSUME NEW kind, kind = k, NEW q, q = p
          PROVE  ReadTrue(kind, q, RowsOf(kind, t), ValueOf(kind, t))'
      <4>1. Len(q) \in Nat /\ Asks(kind, q)
            /\ (o \in Outcomes(q) \/ (o.tables = Tables /\ o.text \in {<<RefusalLine>>, <<>>}))
        BY <2>2, <3>1
      <4> QED BY <1>0, <2>1, <2>6, <4>1, Answered
    <3> QED BY <1>3, <3>1 DEF ReadTrue, AgentsTrue, TiersTrue, ValueTrue
  <2>7. reply'.text = t
    BY <2>1
  <2> QED BY <1>1, <1>3, <2>4, <2>5, <2>6, <2>7 DEF ReadIInv
<1> QED BY <1>4, <1>5

(* What TakeReply makes of a reply that is read. *)
LEMMA ReplyRead ==
  ASSUME Kept, Numbered, TakeReply, result'.kind \in ReadingKinds
  PROVE  /\ ~Refused(reply.text) /\ result'.kind = call.reads /\ result'.parts = call.parts
         /\ result'.rows = RowsOf(call.reads, reply.text)
         /\ result'.value = ValueOf(call.reads, reply.text)
<1>1. call.reads \in Readings
  BY DEF TakeReply, Numbered, Kept, Sane
<1>2. ASSUME NEW kind, NEW rows, NEW value, Ended(Result(kind, call, rows, value))
      PROVE  /\ result'.kind = kind /\ result'.parts = call.parts
             /\ result'.rows = rows /\ result'.value = value
  BY <1>2 DEF Ended, Result
<1>3. CASE call.reads = "ok"
  <2>1. PICK kind \in {"ok", "not_found", "failed"} : Ended(Result(kind, call, {}, ""))
    BY <1>3 DEF TakeReply
  <2> QED BY <1>2, <2>1 DEF ReadingKinds
<1>4. CASE call.reads = "text"
  <2>1. Ended(Result("text", call, {}, ""))
    BY <1>4 DEF TakeReply
  <2>2. result'.kind = "text"
    BY <1>2, <2>1
  <2> QED BY <2>2 DEF ReadingKinds
<1>5. CASE call.reads \notin {"ok", "text"} /\ Refused(reply.text)
  <2>1. Ended(Result("error", call, {}, ""))
    BY <1>5 DEF TakeReply
  <2>2. result'.kind = "error"
    BY <1>2, <2>1
  <2> QED BY <2>2 DEF ReadingKinds
<1>6. CASE call.reads = "agents" /\ ~Refused(reply.text)
  <2>1. Ended(Result("agents", call, AgentList(reply.text), ""))
    BY <1>6 DEF TakeReply
  <2> QED BY <1>2, <1>6, <2>1 DEF RowsOf, ValueOf
<1>7. CASE call.reads = "tiers" /\ ~Refused(reply.text)
  <2>1. Ended(Result("tiers", call, TierList(reply.text), ""))
    BY <1>7 DEF TakeReply
  <2> QED BY <1>2, <1>7, <2>1 DEF RowsOf, ValueOf
<1>8. CASE call.reads = "status" /\ ~Refused(reply.text)
  <2>1. Ended(Result("status", call, {}, FromText(AgentStatus, BareValue(reply.text))))
    BY <1>8 DEF TakeReply
  <2> QED BY <1>2, <1>8, <2>1 DEF RowsOf, ValueOf
<1>9. CASE call.reads = "state" /\ ~Refused(reply.text)
  <2>1. Ended(Result("state", call, {}, FromText(AgentState, BareValue(reply.text))))
    BY <1>9 DEF TakeReply
  <2> QED BY <1>2, <1>9, <2>1 DEF RowsOf, ValueOf
<1> QED BY <1>1, <1>3, <1>4, <1>5, <1>6, <1>7, <1>8, <1>9 DEF Readings

(* A step that ends no read, and tells nothing new of what was read. *)
LEMMA ReadKept ==
  ASSUME ReadIInv, IInv', UNCHANGED <<call, reply, after, result>>
  PROVE  ReadIInv'
  BY DEF ReadIInv, ReadTrue, AgentsTrue, TiersTrue, ValueTrue

LEMMA ReadEnded ==
  ASSUME IInv', ~reply'.come, result'.kind \notin ReadingKinds
  PROVE  ReadIInv'
  BY DEF ReadIInv, ReadTrue, ReadingKinds

LEMMA ReadIInvStep ==
  ASSUME OneCell, ReadIInv, [Next]_vars
  PROVE  ReadIInv'
<1>0. IInv /\ Kept /\ Numbered /\ IInv'
  BY IInvStep DEF ReadIInv, IInv
<1>1. CASE UNCHANGED vars
  BY <1>0, <1>1, ReadKept DEF vars
<1>2. CASE Calling
  <2>1. ~reply'.come /\ result'.kind \notin ReadingKinds
    BY <1>0, <1>2 DEF Calling, Numbered, ReadingKinds
  <2> QED BY <1>0, <2>1, ReadEnded
<1>3. CASE TakeReply
  <2>1. ~reply'.come /\ call' = Idle /\ after' = after
    BY <1>0, <1>3, ReplyTaken
  <2>2. CASE result'.kind \notin ReadingKinds
    BY <1>0, <2>1, <2>2, ReadEnded
  <2>3. CASE result'.kind \in ReadingKinds
    <3>1. /\ ~Refused(reply.text) /\ result'.kind = call.reads /\ result'.parts = call.parts
          /\ result'.rows = RowsOf(call.reads, reply.text)
          /\ result'.value = ValueOf(call.reads, reply.text)
      BY <1>0, <1>3, <2>3, ReplyRead
    <3>2. reply.come
      BY <1>3 DEF TakeReply
    <3>3. ReadTrue(result'.kind, result'.parts, result'.rows, result'.value)
      BY <3>1, <3>2 DEF ReadIInv
    <3>4. ReadTrue(result.kind, result.parts, result.rows, result.value)'
      BY <2>1, <3>3 DEF ReadTrue, AgentsTrue, TiersTrue, ValueTrue
    <3> QED BY <1>0, <2>1, <3>4 DEF ReadIInv
  <2> QED BY <2>2, <2>3
<1>4. CASE Expire
  <2>1. ~reply'.come /\ result'.kind \notin ReadingKinds
    <3>1. PICK kind \in {"timeout", "lost"} : Ended(Result(kind, call, {}, ""))
      BY <1>4 DEF Expire
    <3> QED BY <3>1 DEF Ended, Result, Nothing, ReadingKinds
  <2> QED BY <1>0, <2>1, ReadEnded
<1>5. CASE Connect \/ Provision \/ (\E u \in Uuids : Hangup(u)) \/ (\E c \in due : Drop(c))
  <2>1. UNCHANGED <<call, reply, after, result>>
    BY <1>5 DEF Connect, Provision, Hangup, Drop, client
  <2> QED BY <1>0, <2>1, ReadKept
<1>6. ASSUME NEW c \in due, Execute(c) PROVE ReadIInv'
  BY <1>6, ReadExecuted
<1>7. CASE Next
  BY <1>0, <1>2, <1>3, <1>4, <1>5, <1>6, <1>7, Steps
<1> QED BY <1>1, <1>7

(* callcenter_list_agents, callcenter_list_tiers and the agent's status and *)
(* state: in whatever order the columns come, and however late, short or    *)
(* damaged the replies are, what a read returns is what the switch held     *)
(* when it answered, and all of it when the reply came whole.  No contact   *)
(* has a bar in it: with one the columns shift (KeyedByHeader).             *)
THEOREM ReadsAreExact ==
  ASSUME OneCell
  PROVE  Spec => []ReadsExact
<1>1. Init => ReadIInv
  <2> SUFFICES ASSUME Init PROVE ReadIInv
    OBVIOUS
  <2>1. IInv
    BY IInvAtInit
  <2>2. result.kind \notin ReadingKinds /\ ~reply.come
    BY DEF Init, Result, Nothing, ReadingKinds
  <2> QED BY <2>1, <2>2 DEF ReadIInv, ReadTrue, ReadingKinds
<1>2. ReadIInv /\ [Next]_vars => ReadIInv'
  BY ReadIInvStep
<1>3. ReadIInv => ReadsExact
  <2> SUFFICES ASSUME ReadIInv PROVE ReadsExact
    OBVIOUS
  <2>1. ReadTrue(result.kind, result.parts, result.rows, result.value)
    BY DEF ReadIInv
  <2> QED BY <2>1 DEF ReadTrue, AgentsTrue, TiersTrue, ValueTrue, AgentShown, ReadsExact
<1> QED BY <1>1, <1>2, <1>3, PTL DEF Spec
=============================================================================
