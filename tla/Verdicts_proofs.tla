-------------------------- MODULE Verdicts_proofs ---------------------------
(***************************************************************************)
(* What holds of the two reads with a verdict for every number of phones   *)
(* and channels, every row budget and every number of faults.              *)
(***************************************************************************)
EXTENDS Verdicts, Integers, NaturalLemmas, SequenceTheorems, FunctionTheorems, FiniteSetTheorems, TLAPS

(* A finite set as a sequence, each element once. *)
LEMMA Listed ==
  ASSUME NEW S, IsFiniteSet(S)
  PROVE  LET s == Shown!SetToSeq(S) IN
         /\ s \in Seq(S) /\ Len(s) = Cardinality(S) /\ Cardinality(S) \in Nat
         /\ \A i, j \in 1..Len(s) : s[i] = s[j] => i = j
         /\ \A x \in S : \E i \in 1..Len(s) : s[i] = x
<1> DEFINE n == Cardinality(S)
           s == Shown!SetToSeq(S)
<1>1. n \in Nat /\ ExistsBijection(1..n, S)
  BY FS_CardinalityType
<1>2. PICK b \in Bijection(1..n, S) : TRUE
  BY <1>1 DEF ExistsBijection
<1>3. b \in [1..n -> S] /\ Shown!IsInjective(b)
  BY <1>2 DEF Bijection, Injection, IsInjective, Shown!IsInjective
<1>4. s \in [1..n -> S] /\ Shown!IsInjective(s)
  <2>1. \E g \in [1..n -> S] : Shown!IsInjective(g)
    BY <1>3
  <2>2. Shown!Cardinality(S) = Cardinality(S)
    BY DEF Shown!Cardinality, Cardinality
  <2>3. s = CHOOSE g \in [1..n -> S] : Shown!IsInjective(g)
    BY <2>2 DEF Shown!SetToSeq
  <2> HIDE DEF n, s
  <2> QED BY <2>1, <2>3, Zenon
<1> HIDE DEF s
<1>5. s \in Seq(S) /\ Len(s) = n
  <2> HIDE DEF n
  <2> QED BY <1>1, <1>4
<1>6. s \in Injection(1..n, S)
  BY <1>4 DEF Injection, IsInjective, Shown!IsInjective
<1>7. IsFiniteSet(1..n) /\ Cardinality(1..n) = n
  BY <1>1, FS_Interval
<1>8. s \in Surjection(1..n, S)
  BY <1>6, <1>7, FS_Injection
<1>9. \A x \in S : \E i \in 1..n : s[i] = x
  BY <1>8 DEF Surjection
<1>10. \A i, j \in 1..n : s[i] = s[j] => i = j
  BY <1>4 DEF Shown!IsInjective
<1> QED BY <1>1, <1>5, <1>9, <1>10 DEF s

(* As many different elements of a finite set as it has are all of them. *)
LEMMA AllOfThem ==
  ASSUME NEW S, IsFiniteSet(S), NEW s \in Seq(S), Len(s) = Cardinality(S),
         \A i, j \in 1..Len(s) : s[i] = s[j] => i = j
  PROVE  {s[i] : i \in 1..Len(s)} = S
<1> DEFINE n == Len(s)
<1>1. n \in Nat /\ s \in [1..n -> S]
  BY LenProperties
<1>2. s \in Injection(1..n, S)
  BY <1>1 DEF Injection, IsInjective
<1>3. Cardinality(1..n) = n
  BY <1>1, FS_Interval
<1>4. s \in Surjection(1..n, S)
  BY <1>2, <1>3, FS_Injection
<1>5. \A x \in S : \E i \in 1..n : s[i] = x
  BY <1>4 DEF Surjection
<1> QED BY <1>1, <1>5

-----------------------------------------------------------------------------
(* Channels.  A row tells of a channel that was live; whatever went wrong,  *)
(* the count is gone or the number of those; and when nothing went wrong,   *)
(* each is there once.                                                      *)
RowOf(live) == [uuid : live, upper : BOOLEAN, sound : BOOLEAN]

Intact(a) ==
  /\ a.counted /\ Len(a.rows) = a.count /\ (a.listed \/ a.count = 0)
  /\ \A i \in 1..Len(a.rows) : a.rows[i].sound
  /\ Shown!Distinct(a.rows)

Truthful(a, live) ==
  /\ a = Shown!Answer(a.form, a.counted, a.count, a.listed, a.rows)
  /\ a.rows \in Seq(RowOf(live)) /\ a.counted \in BOOLEAN /\ a.listed \in BOOLEAN
  /\ a.count = IF a.counted THEN Cardinality(live) ELSE 0

ShownInv ==
  read = "channels" =>
    /\ IsFiniteSet(channels) /\ IsFiniteSet(held) /\ faults \in Nat
    /\ pc = "replied" /\ answer.form = "json" =>
         Truthful(answer, held) /\ (faults = 0 => Intact(answer))

(* The answer the switch writes. *)
LEMMA WrittenAnswer ==
  ASSUME IsFiniteSet(channels), NEW present \in BOOLEAN,
         NEW rows, rows = Shown!SetToSeq({Shown!Row(u) : u \in channels}), NEW n, n = Len(rows),
         NEW a, a = Shown!Answer("json", TRUE, n, n > 0 \/ present, rows)
  PROVE  Truthful(a, channels) /\ Intact(a)
<1> DEFINE S == {Shown!Row(u) : u \in channels}
           f == [u \in channels |-> Shown!Row(u)]
<1>1. f \in Bijection(channels, S)
  <2>1. \A u, v \in channels : f[u] = f[v] => u = v
    BY DEF Shown!Row
  <2>2. f \in [channels -> S] /\ \A x \in S : \E u \in channels : f[u] = x
    OBVIOUS
  <2> QED BY <2>1, <2>2 DEF Bijection, Injection, Surjection, IsInjective
<1>2. IsFiniteSet(S) /\ Cardinality(S) = Cardinality(channels)
  BY <1>1, FS_Bijection DEF ExistsBijection
<1>3. /\ rows \in Seq(S) /\ n = Cardinality(channels) /\ n \in Nat
      /\ \A i, j \in 1..Len(rows) : rows[i] = rows[j] => i = j
  BY <1>2, Listed
<1>4. S \subseteq RowOf(channels) /\ \A x \in S : x = Shown!Row(x.uuid)
  <2> SUFFICES ASSUME NEW u \in channels
               PROVE  Shown!Row(u) \in RowOf(channels) /\ Shown!Row(u) = Shown!Row(Shown!Row(u).uuid)
    OBVIOUS
  <2> QED BY DEF RowOf, Shown!Row
<1>5. rows \in Seq(RowOf(channels))
  BY <1>3, <1>4, SeqMonotonic
<1>6. \A i \in 1..Len(rows) : rows[i] \in S
  BY <1>3, ElementOfSeq
<1>7. \A i \in 1..Len(rows) : rows[i].sound = TRUE
  <2> SUFFICES ASSUME NEW i \in 1..Len(rows) PROVE rows[i].sound = TRUE
    OBVIOUS
  <2>1. rows[i] = Shown!Row(rows[i].uuid)
    BY <1>4, <1>6
  <2> QED BY <2>1 DEF Shown!Row
<1>8. Shown!Distinct(rows)
  <2> SUFFICES ASSUME NEW i \in 1..Len(rows), NEW j \in 1..Len(rows), rows[i].uuid = rows[j].uuid
               PROVE  i = j
    BY DEF Shown!Distinct
  <2>1. rows[i] = Shown!Row(rows[i].uuid) /\ rows[j] = Shown!Row(rows[j].uuid)
    BY <1>4, <1>6
  <2> QED BY <1>3, <2>1
<1> HIDE DEF S, f
<1>9. /\ a.form = "json" /\ a.counted = TRUE /\ a.count = n /\ a.listed = (n > 0 \/ present) /\ a.rows = rows
      /\ a = Shown!Answer(a.form, a.counted, a.count, a.listed, a.rows)
  BY DEF Shown!Answer
<1>10. Truthful(a, channels)
  BY <1>3, <1>5, <1>9 DEF Truthful
<1>11. Intact(a)
  <2>1. a.counted /\ Len(a.rows) = a.count
    BY <1>3, <1>9
  <2>2. a.listed \/ a.count = 0
    <3>1. n > 0 \/ n = 0
      BY <1>3
    <3> QED BY <1>9, <3>1, Zenon
  <2>3. \A i \in 1..Len(a.rows) : a.rows[i].sound
    BY <1>7, <1>9
  <2>4. Shown!Distinct(a.rows)
    BY <1>8, <1>9
  <2> QED BY <2>1, <2>2, <2>3, <2>4 DEF Intact
<1> QED BY <1>10, <1>11

(* What goes wrong with it leaves it truthful. *)
LEMMA SpoiledAnswer ==
  ASSUME NEW live, NEW a, Truthful(a, live), a.form = "json", NEW new \in Shown!Spoiled(a), new.form = "json"
  PROVE  Truthful(new, live)
<1>1. a.rows \in Seq(RowOf(live)) /\ Len(a.rows) \in Nat
  BY LenProperties DEF Truthful
<1>2. a = [form |-> "json", counted |-> a.counted, count |-> a.count, listed |-> a.listed, rows |-> a.rows]
  BY DEF Truthful, Shown!Answer
<1>3. ASSUME NEW rows \in Seq(RowOf(live)), new = [a EXCEPT !.rows = rows] PROVE Truthful(new, live)
  BY <1>2, <1>3 DEF Truthful, Shown!Answer
<1>4. ASSUME NEW i \in 1..Len(a.rows), new = [a EXCEPT !.rows = Shown!RemoveAt(a.rows, i)]
      PROVE  Truthful(new, live)
  <2>1. SubSeq(a.rows, 1, i - 1) \in Seq(RowOf(live))
    <3>1. \A j \in 1..(i - 1) : a.rows[j] \in RowOf(live)
      BY <1>1, ElementOfSeq
    <3> QED BY <3>1, SubSeqProperties
  <2>2. SubSeq(a.rows, i + 1, Len(a.rows)) \in Seq(RowOf(live))
    <3>1. \A j \in (i + 1)..Len(a.rows) : a.rows[j] \in RowOf(live)
      BY <1>1, ElementOfSeq
    <3> QED BY <1>1, <3>1, SubSeqProperties
  <2>3. Shown!RemoveAt(a.rows, i) \in Seq(RowOf(live))
    BY <2>1, <2>2, ConcatProperties DEF Shown!RemoveAt
  <2> QED BY <1>3, <1>4, <2>3
<1>5. ASSUME NEW i \in 1..Len(a.rows), NEW u \in BOOLEAN,
             new = [a EXCEPT !.rows = Append(a.rows, Shown!Spelled(a.rows[i], u))]
      PROVE  Truthful(new, live)
  <2>1. Shown!Spelled(a.rows[i], u) \in RowOf(live)
    <3>1. a.rows[i] \in RowOf(live)
      BY <1>1, ElementOfSeq
    <3> QED BY <3>1 DEF RowOf, Shown!Spelled, Shown!Broken
  <2>2. Append(a.rows, Shown!Spelled(a.rows[i], u)) \in Seq(RowOf(live))
    BY <1>1, <2>1, AppendProperties
  <2> QED BY <1>3, <1>5, <2>2
<1>6. ASSUME NEW i \in 1..Len(a.rows), new = [a EXCEPT !.rows[i] = Shown!Broken(a.rows[i])]
      PROVE  Truthful(new, live)
  <2>1. Shown!Broken(a.rows[i]) \in RowOf(live)
    <3>1. a.rows[i] \in RowOf(live)
      BY <1>1, ElementOfSeq
    <3> QED BY <3>1 DEF RowOf, Shown!Spelled, Shown!Broken
  <2>2. [a.rows EXCEPT ![i] = Shown!Broken(a.rows[i])] \in Seq(RowOf(live))
    BY <1>1, <2>1, ExceptSeq
  <2>3. new = [a EXCEPT !.rows = [a.rows EXCEPT ![i] = Shown!Broken(a.rows[i])]]
    BY <1>6
  <2> QED BY <1>3, <2>2, <2>3
<1>7. ASSUME new = [a EXCEPT !.listed = FALSE, !.rows = <<>>] PROVE Truthful(new, live)
  <2>1. <<>> \in Seq(RowOf(live))
    BY EmptySeq
  <2>2. new = [form |-> "json", counted |-> a.counted, count |-> a.count, listed |-> FALSE, rows |-> <<>>]
    BY <1>2, <1>7
  <2> QED BY <2>1, <2>2 DEF Truthful, Shown!Answer
<1>9. ASSUME new = [a EXCEPT !.counted = FALSE, !.count = 0] PROVE Truthful(new, live)
  <2>1. new = [form |-> "json", counted |-> FALSE, count |-> 0, listed |-> a.listed, rows |-> a.rows]
    BY <1>2, <1>9
  <2> QED BY <1>1, <2>1 DEF Truthful, Shown!Answer
<1>8. new # [a EXCEPT !.form = "noise"]
  BY <1>2
<1>10. \/ \E i \in 1..Len(a.rows) : new = [a EXCEPT !.rows = Shown!RemoveAt(a.rows, i)]
       \/ \E i \in 1..Len(a.rows), u \in BOOLEAN :
            new = [a EXCEPT !.rows = Append(a.rows, Shown!Spelled(a.rows[i], u))]
       \/ \E i \in 1..Len(a.rows) : new = [a EXCEPT !.rows[i] = Shown!Broken(a.rows[i])]
       \/ new = [a EXCEPT !.listed = FALSE, !.rows = <<>>]
       \/ new = [a EXCEPT !.counted = FALSE, !.count = 0]
       \/ new = [a EXCEPT !.form = "noise"]
  BY DEF Shown!Spoiled
<1> QED BY <1>4, <1>5, <1>6, <1>7, <1>8, <1>9, <1>10, Zenon

(* What a truthful answer is taken for. *)
LEMMA TruthfulParse ==
  ASSUME NEW live, IsFiniteSet(live), NEW a, Truthful(a, live), a.form = "json",
         Shown!IsAuthoritative(Shown!Parse(a))
  PROVE  Shown!Parse(a).channels = live /\ (Shown!Parse(a).state = "empty" <=> live = {})
<1> DEFINE rows == IF a.listed THEN a.rows ELSE <<>>
           shown == {rows[i].uuid : i \in 1..Len(rows)}
<1>1. /\ Shown!Complete(a, rows)
      /\ Shown!Parse(a) = Shown!Snapshot(IF a.count = 0 THEN "empty" ELSE "complete", shown, a.count)
  BY DEF Shown!Parse, Shown!IsAuthoritative, Shown!Malformed, Shown!Refusal, Shown!Snapshot
<1>2. /\ rows \in Seq(RowOf(live)) /\ Len(rows) \in Nat
      /\ a.counted /\ a.count = Cardinality(live) /\ Len(rows) = a.count /\ Shown!Distinct(rows)
  <2>1. rows \in Seq(RowOf(live))
    BY EmptySeq DEF Truthful
  <2> HIDE DEF rows
  <2> QED BY <1>1, <2>1, LenProperties DEF Truthful, Shown!Complete
<1> HIDE DEF rows
<1> DEFINE s == [i \in 1..Len(rows) |-> rows[i].uuid]
<1>3. ASSUME NEW i \in 1..Len(rows) PROVE rows[i].uuid \in live
  <2>1. rows[i] \in RowOf(live)
    BY <1>2, ElementOfSeq
  <2> QED BY <2>1 DEF RowOf
<1>4. s \in Seq(live) /\ Len(s) = Len(rows)
  BY <1>2, <1>3
<1>5. \A i, j \in 1..Len(s) : s[i] = s[j] => i = j
  BY <1>2, <1>4 DEF Shown!Distinct
<1>6. {s[i] : i \in 1..Len(s)} = live
  <2> HIDE DEF s
  <2> QED BY <1>2, <1>4, <1>5, AllOfThem
<1>7. shown = live
  BY <1>4, <1>6
<1>8. a.count = 0 <=> live = {}
  BY <1>2, FS_EmptySet
<1> QED BY <1>1, <1>7, <1>8 DEF Shown!Snapshot

(* An intact answer counts up to the budget. *)
LEMMA IntactParse ==
  ASSUME NEW live, IsFiniteSet(live), NEW a, Truthful(a, live), a.form = "json", Intact(a)
  PROVE  Shown!IsAuthoritative(Shown!Parse(a)) <=> a.count <= MaxRows
<1> DEFINE rows == IF a.listed THEN a.rows ELSE <<>>
<1>1. a.count \in Nat /\ a.listed \in BOOLEAN /\ a.rows \in Seq(RowOf(live))
  BY FS_CardinalityType DEF Truthful
<1>2. rows = a.rows
  <2>1. CASE ~a.listed
    <3>1. Len(a.rows) = 0
      BY <2>1 DEF Intact
    <3> QED BY <1>1, <2>1, <3>1, EmptySeq
  <2> QED BY <2>1
<1>3. Shown!Complete(a, rows) <=> a.count <= MaxRows
  <2>1. Shown!Complete(a, a.rows) <=> Len(a.rows) <= MaxRows
    BY DEF Intact, Shown!Complete
  <2>2. Len(a.rows) = a.count
    BY DEF Intact
  <2> QED BY <1>2, <2>1, <2>2
<1>4. a.listed \/ a.count = 0
  BY DEF Intact
<1>5. CASE a.count <= MaxRows
  <2>1. Shown!Parse(a).state \in {"empty", "complete"}
    BY <1>3, <1>4, <1>5 DEF Shown!Parse, Shown!Snapshot
  <2> QED BY <1>5, <2>1 DEF Shown!IsAuthoritative
<1>6. CASE ~(a.count <= MaxRows)
  <2>1. Shown!Parse(a) = Shown!Malformed
    BY <1>3, <1>6 DEF Shown!Parse
  <2> QED BY <1>6, <2>1 DEF Shown!IsAuthoritative, Shown!Malformed, Shown!Snapshot
<1> QED BY <1>5, <1>6

LEMMA ShownInvHolds == Spec => []ShownInv
<1>1. Init => ShownInv
  BY FS_EmptySet DEF Init, Shown!Init, Registered!Init, ShownInv
<1>2. ASSUME ShownInv, [Next]_vars PROVE ShownInv'
  <2> SUFFICES ASSUME read = "channels", read' = read PROVE ShownInv'
    BY <1>2 DEF Next, vars, ShownInv
  <2>0. IsFiniteSet(channels) /\ IsFiniteSet(held) /\ faults \in Nat
    BY <1>2 DEF ShownInv
  <2>1. CASE UNCHANGED vars
    BY <1>2, <2>1 DEF vars, ShownInv
  <2>2. ASSUME NEW u \in Uuids, Shown!Start(u) \/ Shown!Hangup(u) PROVE ShownInv'
    <3>1. IsFiniteSet(channels')
      BY <2>0, <2>2, FS_AddElement, FS_RemoveElement DEF Shown!Start, Shown!Hangup
    <3> QED BY <1>2, <2>0, <2>2, <3>1 DEF ShownInv, Shown!Start, Shown!Hangup
  <2>3. CASE Shown!Ask
    BY <1>2, <2>0, <2>3 DEF ShownInv, Shown!Ask
  <2>4. CASE Shown!Reply
    <3> DEFINE rows == Shown!SetToSeq({Shown!Row(u) : u \in channels})
               n == Len(rows)
    <3>1. /\ held' = channels /\ faults' = 0 /\ UNCHANGED channels
          /\ answer' \in {Shown!Answer("json", TRUE, n, n > 0 \/ present, rows) : present \in BOOLEAN}
                         \cup {[Shown!NoAnswer EXCEPT !.form = f] : f \in {"refusal", "noise"}}
      BY <2>4 DEF Shown!Reply
    <3>2. ASSUME NEW present \in BOOLEAN,
                 answer' = Shown!Answer("json", TRUE, n, n > 0 \/ present, rows)
          PROVE  Truthful(answer', channels) /\ Intact(answer')
      BY <2>0, <3>2, WrittenAnswer
    <3>3. ASSUME NEW f \in {"refusal", "noise"}, answer' = [Shown!NoAnswer EXCEPT !.form = f]
          PROVE  answer'.form # "json"
      BY <3>3 DEF Shown!NoAnswer, Shown!Answer
    <3>4. answer'.form = "json" => Truthful(answer', channels) /\ Intact(answer')
      <4> HIDE DEF rows, n
      <4> QED BY <3>1, <3>2, <3>3
    <3> QED BY <2>0, <3>1, <3>4 DEF ShownInv, Truthful, Intact
  <2>5. CASE Shown!Spoil
    <3>1. /\ pc = "replied" /\ answer.form = "json" /\ answer' \in Shown!Spoiled(answer)
          /\ faults' = faults + 1 /\ UNCHANGED <<channels, pc, held>>
      BY <2>5 DEF Shown!Spoil
    <3>2. Truthful(answer, held)
      BY <1>2, <3>1 DEF ShownInv
    <3>3. answer'.form = "json" => Truthful(answer', held)
      BY <3>1, <3>2, SpoiledAnswer
    <3>4. faults' \in Nat \ {0}
      BY <2>0, <3>1
    <3> QED BY <2>0, <3>1, <3>3, <3>4 DEF ShownInv, Truthful
  <2>6. CASE Shown!list_channels_result
    BY <2>0, <2>6 DEF ShownInv, Shown!list_channels_result
  <2>7. CASE Shown!Raise
    BY <2>0, <2>7 DEF ShownInv, Shown!Raise
  <2> QED BY <1>2, <2>1, <2>2, <2>3, <2>4, <2>5, <2>6, <2>7 DEF Next, Shown!Next
<1> QED BY <1>1, <1>2, PTL DEF Spec

(* list_channels_result: whatever number of rows is lost, repeated, in      *)
(* either spelling, or malformed, and whatever else is wrong: a snapshot    *)
(* that calls itself complete or empty shows all live channels and no       *)
(* other; and an answer nothing is wrong with counts, up to the budget.     *)
THEOREM SnapshotIsProof == Spec => AuthorityIsProof
<1> DEFINE Proof == read = "channels" /\ Shown!list_channels_result =>
              /\ Shown!IsAuthoritative(result') =>
                   result'.channels = held /\ (result'.state = "empty" <=> held = {})
              /\ faults = 0 /\ answer.form = "json" =>
                   (Shown!IsAuthoritative(result') <=> answer.count <= MaxRows)
<1>1. ASSUME ShownInv PROVE Proof
  <2> SUFFICES ASSUME read = "channels", Shown!list_channels_result PROVE Proof
    OBVIOUS
  <2>1. /\ pc = "replied" /\ result' = Shown!Parse(answer) /\ IsFiniteSet(held)
        /\ answer.form = "json" => Truthful(answer, held) /\ (faults = 0 => Intact(answer))
    BY <1>1 DEF ShownInv, Shown!list_channels_result
  <2>2. answer.form # "json" => ~Shown!IsAuthoritative(Shown!Parse(answer))
    BY DEF Shown!Parse, Shown!IsAuthoritative, Shown!Malformed, Shown!Refusal, Shown!Snapshot
  <2> QED BY <2>1, <2>2, TruthfulParse, IntactParse
<1>2. ShownInv => [Proof]_vars
  BY <1>1
<1> QED BY <1>2, ShownInvHolds, PTL DEF AuthorityIsProof

-----------------------------------------------------------------------------
(* Registrations.  The lines a switch writes of the phones. *)
Written ==
  UNION {{Registered!Line(k, v) : v \in {""} \cup Extensions \cup Contacts} :
           k \in {"blank", "header", "call-id", "user", "contact", "status", "total"}}

LEMMA WrittenLines ==
  /\ \A v \in Extensions \cup Contacts :
       Registered!Line("user", v) \in Written /\ Registered!Line("contact", v) \in Written
  /\ \A k \in {"blank", "header", "call-id", "status", "total"} : Registered!Plain(k) \in Written
<1>1. ASSUME NEW k \in {"blank", "header", "call-id", "user", "contact", "status", "total"},
             NEW v \in {""} \cup Extensions \cup Contacts
      PROVE  Registered!Line(k, v) \in Written
  <2>1. Registered!Line(k, v) \in {Registered!Line(k, u) : u \in {""} \cup Extensions \cup Contacts}
    BY Zenon
  <2>2. {Registered!Line(k, u) : u \in {""} \cup Extensions \cup Contacts}
          \in {{Registered!Line(l, u) : u \in {""} \cup Extensions \cup Contacts} :
                 l \in {"blank", "header", "call-id", "user", "contact", "status", "total"}}
    BY Zenon
  <2> QED BY <2>1, <2>2, Zenon DEF Written
<1> DEFINE L(k, v) == Registered!Line(k, v)
<1>2. \A k \in {"blank", "header", "call-id", "user", "contact", "status", "total"} :
        \A v \in {""} \cup Extensions \cup Contacts : L(k, v) \in Written
  BY <1>1
<1>3. \A k : Registered!Plain(k) = L(k, "")
  BY DEF Registered!Plain
<1> HIDE DEF L
<1>4. /\ \A v \in Extensions \cup Contacts : L("user", v) \in Written /\ L("contact", v) \in Written
      /\ \A k \in {"blank", "header", "call-id", "status", "total"} : L(k, "") \in Written
  BY <1>2
<1> QED BY <1>3, <1>4 DEF L

(* Line m of texts of four lines each is line Place(m) of text Turn(m).     *)
Turn(m) == ((m - 1) \div 4) + 1
Place(m) == ((m - 1) % 4) + 1

LEMMA TurnOf ==
  ASSUME NEW m \in Nat \ {0}
  PROVE  Turn(m) \in Nat \ {0} /\ Place(m) \in 1..4 /\ m = 4 * (Turn(m) - 1) + Place(m)
  BY DEF Turn, Place

LEMMA LineOf ==
  ASSUME NEW k \in Nat \ {0}, NEW j \in 1..4
  PROVE  /\ 4 * (k - 1) + j \in 1..(4 * k)
         /\ Turn(4 * (k - 1) + j) = k /\ Place(4 * (k - 1) + j) = j
<1>1. 4 * (k - 1) + j \in Nat \ {0}
  OBVIOUS
<1> DEFINE m == 4 * (k - 1) + j
           t == Turn(m)
           p == Place(m)
<1>2. t \in Nat \ {0} /\ p \in 1..4 /\ 4 * (k - 1) + j = 4 * (t - 1) + p
  BY <1>1, TurnOf
<1> HIDE DEF m, t, p
<1>3. t = k /\ p = j /\ 4 * (k - 1) + j \in 1..(4 * k)
  BY <1>2
<1> QED BY <1>3 DEF m, t, p

(* The converse. *)
LEMMA LineIs ==
  ASSUME NEW m \in Nat \ {0}, NEW k \in Nat \ {0}, m \in (4 * (k - 1) + 1)..(4 * k)
  PROVE  Turn(m) = k /\ Place(m) = m - 4 * (k - 1)
<1> DEFINE j == m - 4 * (k - 1)
<1>1. j \in 1..4 /\ m = 4 * (k - 1) + j
  OBVIOUS
<1> HIDE DEF j
<1>2. Turn(4 * (k - 1) + j) = k /\ Place(4 * (k - 1) + j) = j
  BY <1>1, LineOf
<1> QED BY <1>1, <1>2 DEF j

LEMMA Joined ==
  ASSUME NEW S, NEW a \in Seq(S), NEW b \in Seq(S), NEW la, la = Len(a), NEW l, l = la + Len(b)
  PROVE  /\ a \o b \in Seq(S) /\ Len(a \o b) = l
         /\ \A i \in 1..l : (a \o b)[i] = IF i <= la THEN a[i] ELSE b[i - la]
  BY ConcatProperties

(* The texts of q, four lines each, one after the other. *)
InTurn(flat, q, n) ==
  /\ n \in Nat /\ flat \in Seq(Written) /\ Len(flat) = 4 * n
  /\ \A k \in 1..n : \A j \in 1..4 : flat[4 * (k - 1) + j] = q[k][j]

LEMMA Fours ==
  ASSUME NEW q \in Seq(Seq(Written)), \A k \in 1..Len(q) : Len(q[k]) = 4,
         NEW n, n = Len(q), NEW flat, flat = Registered!FlattenSeq(q)
  PROVE  InTurn(flat, q, n)
<1>1. n \in Nat
  BY LenProperties
<1> DEFINE Equation(f) == f = [i \in 1..n |-> IF i = 1 THEN q[i] ELSE f[i - 1] \o q[i]]
           w == [i \in 1..n |-> [m \in 1..(4 * i) |-> q[Turn(m)][Place(m)]]]
           f == CHOOSE g : Equation(g)
<1>2. ASSUME NEW k \in 1..n
      PROVE  q[k] \in Seq(Written) /\ Len(q[k]) = 4 /\ q[k] = [j \in 1..4 |-> q[k][j]]
  <2>1. q[k] \in Seq(Written) /\ Len(q[k]) = 4
    BY ElementOfSeq
  <2> QED BY <2>1, LenProperties
<1>3. ASSUME NEW i \in 1..n
      PROVE  /\ w[i] \in Seq(Written) /\ Len(w[i]) = 4 * i
             /\ \A m \in 1..(4 * i) : w[i][m] = q[Turn(m)][Place(m)]
  <2>1. ASSUME NEW m \in 1..(4 * i)
        PROVE  q[Turn(m)][Place(m)] \in Written
    <3>1. Turn(m) \in 1..n /\ Place(m) \in 1..4
      <4> DEFINE t == Turn(m)
                 p == Place(m)
      <4>1. m \in Nat \ {0} /\ m <= 4 * n
        BY <1>1
      <4>2. t \in Nat \ {0} /\ p \in 1..4 /\ m = 4 * (t - 1) + p
        BY <4>1, TurnOf
      <4> HIDE DEF t, p, w
      <4>3. t \in 1..n
        BY <1>1, <4>1, <4>2
      <4> QED BY <4>2, <4>3 DEF t, p
    <3>2. q[Turn(m)] \in Seq(Written) /\ Len(q[Turn(m)]) = 4
      BY <1>2, <3>1
    <3> HIDE DEF w
    <3> QED BY <3>1, <3>2, ElementOfSeq
  <2>2. w[i] = [m \in 1..(4 * i) |-> q[Turn(m)][Place(m)]]
    OBVIOUS
  <2>3. 4 * i \in Nat
    BY <1>1
  <2> HIDE DEF w
  <2>4. w[i] \in [1..(4 * i) -> Written]
    BY <2>1, <2>2
  <2>5. w[i] \in Seq(Written) /\ Len(w[i]) = 4 * i
    <3> DEFINE v == w[i]
               l == 4 * i
    <3>1. l \in Nat /\ v \in [1..l -> Written]
      BY <2>3, <2>4
    <3> HIDE DEF v, l
    <3>2. v \in Seq(Written) /\ Len(v) = l
      BY <3>1
    <3> QED BY <3>2, Zenon DEF v, l
  <2>6. \A m \in 1..(4 * i) : w[i][m] = q[Turn(m)][Place(m)]
    BY <2>2
  <2> QED BY <2>5, <2>6
<1>4. Equation(w)
  <2>1. ASSUME NEW i \in 1..n PROVE w[i] = IF i = 1 THEN q[i] ELSE w[i - 1] \o q[i]
    <3>1. CASE i = 1
      <4>1. ASSUME NEW m \in 1..4 PROVE w[i][m] = q[i][m]
        <5> HIDE DEF w
        <5>1. Turn(m) = 1 /\ Place(m) = m
          BY LineIs
        <5>2. m \in 1..(4 * i)
          BY <3>1
        <5>3. w[i][m] = q[Turn(m)][Place(m)]
          BY <1>3, <5>2
        <5> QED BY <3>1, <5>1, <5>3
      <4> HIDE DEF w
      <4>2. w[i] \in Seq(Written) /\ Len(w[i]) = 4
        <5>1. w[i] \in Seq(Written) /\ Len(w[i]) = 4 * i
          BY <1>3
        <5>2. 4 * i = 4
          BY <3>1
        <5> QED BY <5>1, <5>2
      <4>3. q[i] \in Seq(Written) /\ Len(q[i]) = 4
        BY <1>2
      <4>4. w[i] = q[i]
        BY <4>1, <4>2, <4>3, SeqEqual
      <4> QED BY <3>1, <4>4
    <3>2. CASE i # 1
      <4> HIDE DEF w
      <4>0. i - 1 \in 1..n
        BY <1>1, <3>2
      <4>3. /\ w[i - 1] \in Seq(Written) /\ Len(w[i - 1]) = 4 * (i - 1)
            /\ q[i] \in Seq(Written) /\ Len(q[i]) = 4 /\ 4 * (i - 1) + 4 = 4 * i
        BY <1>1, <1>2, <1>3, <4>0
      <4>1. /\ w[i - 1] \o q[i] \in Seq(Written) /\ Len(w[i - 1] \o q[i]) = 4 * i
            /\ \A m \in 1..(4 * i) : (w[i - 1] \o q[i])[m] =
                 IF m <= 4 * (i - 1) THEN w[i - 1][m] ELSE q[i][m - 4 * (i - 1)]
        <5> DEFINE a == w[i - 1]
                   b == q[i]
                   la == 4 * (i - 1)
                   l == 4 * i
        <5>1. a \in Seq(Written) /\ b \in Seq(Written) /\ la = Len(a) /\ l = la + Len(b)
          BY <4>3
        <5> HIDE DEF a, b, la, l
        <5>2. /\ a \o b \in Seq(Written) /\ Len(a \o b) = l
              /\ \A m \in 1..l : (a \o b)[m] = IF m <= la THEN a[m] ELSE b[m - la]
          BY <5>1, Joined
        <5> QED BY <5>2, Zenon DEF a, b, la, l
      <4>2. ASSUME NEW m \in 1..(4 * i) PROVE w[i][m] = (w[i - 1] \o q[i])[m]
        <5>1. CASE m <= 4 * (i - 1)
          <6>1. m \in 1..(4 * (i - 1))
            BY <1>1, <5>1
          <6>2. w[i - 1][m] = q[Turn(m)][Place(m)] /\ w[i][m] = q[Turn(m)][Place(m)]
            BY <1>3, <4>0, <6>1
          <6> QED BY <4>1, <5>1, <6>2
        <5>2. CASE ~(m <= 4 * (i - 1))
          <6>1. Turn(m) = i /\ Place(m) = m - 4 * (i - 1)
            <7>1. i \in Nat \ {0} /\ m \in Nat \ {0} /\ m \in (4 * (i - 1) + 1)..(4 * i)
              BY <1>1, <5>2
            <7> QED BY <7>1, LineIs
          <6> QED BY <1>3, <4>1, <5>2, <6>1, ZenonT(30)
        <5> QED BY <5>1, <5>2
      <4> QED BY <1>3, <3>2, <4>1, <4>2, SeqEqual, ZenonT(30)
    <3> QED BY <3>1, <3>2
  <2>2. w = [i \in 1..n |-> w[i]]
    OBVIOUS
  <2> HIDE DEF w
  <2> QED BY <2>1, <2>2
<1>5. Equation(f)
  BY <1>4
<1>6. ASSUME NEW i \in 1..n PROVE f[i] = IF i = 1 THEN q[i] ELSE f[i - 1] \o q[i]
  <2> DEFINE g == [j \in 1..n |-> IF j = 1 THEN q[j] ELSE f[j - 1] \o q[j]]
  <2>1. f = g
    <3> HIDE DEF f
    <3> QED BY <1>5
  <2>2. g[i] = IF i = 1 THEN q[i] ELSE f[i - 1] \o q[i]
    <3> HIDE DEF f
    <3> QED OBVIOUS
  <2> HIDE DEF f, g
  <2> QED BY <2>1, <2>2
<1>7. ASSUME NEW i \in 1..n PROVE w[i] = IF i = 1 THEN q[i] ELSE w[i - 1] \o q[i]
  <2> DEFINE g == [j \in 1..n |-> IF j = 1 THEN q[j] ELSE w[j - 1] \o q[j]]
  <2>1. w = g
    <3> HIDE DEF w
    <3> QED BY <1>4
  <2>2. g[i] = IF i = 1 THEN q[i] ELSE w[i - 1] \o q[i]
    <3> HIDE DEF w
    <3> QED OBVIOUS
  <2> HIDE DEF w, g
  <2> QED BY <2>1, <2>2
<1> HIDE DEF f, w, Equation
<1>8. 0..n \subseteq {0} \cup {i \in 1..n : f[i] = w[i]}
  <2> DEFINE S == {0} \cup {i \in 1..n : f[i] = w[i]}
  <2>1. ASSUME NEW i \in 0..(n - 1), i \in S PROVE i + 1 \in S
    BY <1>1, <1>6, <1>7, <2>1
  <2>2. 0 \in S
    OBVIOUS
  <2> HIDE DEF S
  <2>3. 0..n \subseteq S
    BY <1>1, <2>1, <2>2, SetInduction
  <2> QED BY <2>3 DEF S
<1>9. CASE n = 0
  <2>1. flat = <<>>
    BY <1>9, EmptySeq DEF Registered!FlattenSeq
  <2> QED BY <1>9, <2>1, EmptySeq DEF InTurn
<1>10. CASE n # 0
  <2>1. flat = f[n]
    BY <1>10 DEF Registered!FlattenSeq, f, Equation
  <2>2. flat = w[n] /\ n \in 1..n
    BY <1>1, <1>8, <1>10, <2>1
  <2>3. ASSUME NEW k \in 1..n, NEW j \in 1..4 PROVE flat[4 * (k - 1) + j] = q[k][j]
    <3>1. 4 * (k - 1) + j \in 1..(4 * n) /\ Turn(4 * (k - 1) + j) = k /\ Place(4 * (k - 1) + j) = j
      <4>1. k \in Nat \ {0} /\ 1..(4 * k) \subseteq 1..(4 * n)
        BY <1>1
      <4> QED BY <4>1, LineOf
    <3> QED BY <1>3, <2>2, <3>1
  <2> QED BY <1>1, <1>3, <2>2, <2>3 DEF InTurn
<1> QED BY <1>9, <1>10

(* The report of a set of phones: a blank line and a heading, four lines of *)
(* each phone in some order, and the total.                                 *)
Lists(t, p, n) ==
  /\ t \in Seq(Written) /\ Len(t) = 4 * n + 3
  /\ t[1] = Registered!Plain("blank") /\ t[2] = Registered!Plain("header")
  /\ t[4 * n + 3] = Registered!Plain("total")
  /\ \A k \in 1..n :
       /\ t[4 * k - 1] = Registered!Plain("call-id")
       /\ t[4 * k] = Registered!Line("user", p[k][1])
       /\ t[4 * k + 1] = Registered!Line("contact", p[k][2])
       /\ t[4 * k + 2] = Registered!Plain("status")

LEMMA ReportLines ==
  ASSUME NEW s, IsFiniteSet(s), s \subseteq Extensions \X Contacts
  PROVE  \E n \in Nat : \E p \in [1..n -> s] :
           s = {p[k] : k \in 1..n} /\ Lists(Registered!Report(s), p, n)
<1> DEFINE S == {Registered!Entry(x) : x \in s}
           q == Registered!SetToSeq(S)
           n == Len(q)
           flat == Registered!FlattenSeq(q)
           p == [k \in 1..n |-> CHOOSE x \in s : q[k] = Registered!Entry(x)]
           head == <<Registered!Plain("blank"), Registered!Plain("header")>>
           end == <<Registered!Plain("total")>>
           t == (head \o flat) \o end
<1>1. IsFiniteSet(S)
  <2> DEFINE f == [x \in s |-> Registered!Entry(x)]
  <2>1. f \in Surjection(s, S)
    BY DEF Surjection
  <2> QED BY <2>1, FS_Surjection
<1>2. /\ q \in Seq(S) /\ n \in Nat
      /\ \A x \in S : \E k \in 1..n : q[k] = x
  <2>1. q = Shown!SetToSeq(S)
    BY DEF Registered!SetToSeq, Shown!SetToSeq, Registered!Cardinality, Shown!Cardinality,
           Registered!IsInjective, Shown!IsInjective
  <2> HIDE DEF S, q
  <2> QED BY <1>1, <2>1, Listed
<1>3. ASSUME NEW x \in s
      PROVE  /\ Registered!Entry(x) \in Seq(Written) /\ Len(Registered!Entry(x)) = 4
             /\ Registered!Entry(x)[1] = Registered!Plain("call-id")
             /\ Registered!Entry(x)[2] = Registered!Line("user", x[1])
             /\ Registered!Entry(x)[3] = Registered!Line("contact", x[2])
             /\ Registered!Entry(x)[4] = Registered!Plain("status")
  <2>1. x[1] \in Extensions /\ x[2] \in Contacts
    OBVIOUS
  <2>2. {Registered!Plain("call-id"), Registered!Line("user", x[1]),
         Registered!Line("contact", x[2]), Registered!Plain("status")} \subseteq Written
    <3>1. Registered!Plain("call-id") \in Written /\ Registered!Plain("status") \in Written
      BY WrittenLines
    <3>2. ASSUME NEW v \in Extensions \cup Contacts
          PROVE  Registered!Line("user", v) \in Written /\ Registered!Line("contact", v) \in Written
      BY WrittenLines
    <3>3. Registered!Line("user", x[1]) \in Written /\ Registered!Line("contact", x[2]) \in Written
      BY <2>1, <3>2
    <3> QED BY <3>1, <3>3
  <2> QED BY <2>2 DEF Registered!Entry
<1>4. ASSUME NEW k \in 1..n PROVE p[k] \in s /\ q[k] = Registered!Entry(p[k])
  <2>1. q[k] \in S
    BY <1>2, ElementOfSeq
  <2>2. p[k] = CHOOSE x \in s : q[k] = Registered!Entry(x)
    OBVIOUS
  <2> HIDE DEF p, q
  <2> QED BY <2>1, <2>2
<1>5. s = {p[k] : k \in 1..n}
  <2>1. ASSUME NEW x \in s PROVE \E k \in 1..n : p[k] = x
    <3>1. PICK k \in 1..n : q[k] = Registered!Entry(x)
      BY <1>2
    <3>2. Registered!Entry(p[k]) = Registered!Entry(x) /\ p[k] \in s
      BY <1>4, <3>1
    <3>3. Registered!Line("user", p[k][1]) = Registered!Line("user", x[1])
          /\ Registered!Line("contact", p[k][2]) = Registered!Line("contact", x[2])
      <4> HIDE DEF p
      <4> QED BY <1>3, <3>2
    <3>4. p[k][1] = x[1] /\ p[k][2] = x[2]
      <4> HIDE DEF p
      <4> QED BY <3>3 DEF Registered!Line
    <3> HIDE DEF p
    <3>5. p[k] = x
      BY <3>2, <3>4
    <3> QED BY <3>5
  <2> HIDE DEF p, n
  <2> QED BY <1>4, <2>1
<1>6. InTurn(flat, q, n)
  <2>1. q \in Seq(Seq(Written))
    <3>1. S \subseteq Seq(Written)
      <4> SUFFICES ASSUME NEW x \in s PROVE Registered!Entry(x) \in Seq(Written)
        OBVIOUS
      <4> QED BY <1>3
    <3> HIDE DEF S, q
    <3> QED BY <1>2, <3>1, SeqMonotonic
  <2>2. \A k \in 1..Len(q) : Len(q[k]) = 4
    <3> HIDE DEF p, q
    <3> QED BY <1>3, <1>4
  <2>3. n = Len(q) /\ flat = Registered!FlattenSeq(q)
    OBVIOUS
  <2> HIDE DEF q, n, flat
  <2> QED BY <2>1, <2>2, <2>3, Fours
<1>7. /\ head \in Seq(Written) /\ Len(head) = 2 /\ end \in Seq(Written) /\ Len(end) = 1
      /\ head[1] = Registered!Plain("blank") /\ head[2] = Registered!Plain("header")
      /\ end[1] = Registered!Plain("total")
  <2>1. /\ Registered!Plain("blank") \in Written /\ Registered!Plain("header") \in Written
        /\ Registered!Plain("total") \in Written
    BY WrittenLines
  <2> QED BY <2>1
<1>8. Registered!Report(s) = t
  <2> HIDE DEF flat
  <2>1. Registered!Report(s) = head \o flat \o end
    BY DEF Registered!Report, flat, q, S
  <2> QED BY <2>1
<1> HIDE DEF S, q, flat, p, head, end
<1>9. /\ head \o flat \in Seq(Written) /\ Len(head \o flat) = 4 * n + 2
      /\ \A i \in 1..(4 * n + 2) : (head \o flat)[i] = IF i <= 2 THEN head[i] ELSE flat[i - 2]
  <2>1. 4 * n + 2 = 2 + Len(flat)
    BY <1>2, <1>6 DEF InTurn
  <2> DEFINE la == 2
             l == 4 * n + 2
  <2>3. flat \in Seq(Written) /\ head \in Seq(Written) /\ la = Len(head) /\ l = la + Len(flat)
    BY <1>6, <1>7, <2>1 DEF InTurn
  <2> HIDE DEF la, l
  <2>2. /\ head \o flat \in Seq(Written) /\ Len(head \o flat) = l
        /\ \A i \in 1..l : (head \o flat)[i] = IF i <= la THEN head[i] ELSE flat[i - la]
    BY <2>3, Joined
  <2> QED BY <2>2, Zenon DEF la, l
<1>10. /\ t \in Seq(Written) /\ Len(t) = 4 * n + 3
       /\ \A i \in 1..(4 * n + 3) :
            t[i] = IF i <= 2 THEN head[i] ELSE IF i <= 4 * n + 2 THEN flat[i - 2] ELSE end[1]
  <2> DEFINE a == head \o flat
  <2>1. a \in Seq(Written) /\ Len(a) = 4 * n + 2 /\ 4 * n + 3 = 4 * n + 2 + Len(end)
    BY <1>2, <1>7, <1>9
  <2>2. /\ a \o end \in Seq(Written) /\ Len(a \o end) = 4 * n + 3
        /\ \A i \in 1..(4 * n + 3) : (a \o end)[i] = IF i <= 4 * n + 2 THEN a[i] ELSE end[i - (4 * n + 2)]
    <3> DEFINE la == 4 * n + 2
               l == 4 * n + 3
    <3>1. a \in Seq(Written) /\ end \in Seq(Written) /\ la = Len(a) /\ l = la + Len(end)
      BY <1>7, <2>1
    <3> HIDE DEF a, la, l
    <3>2. /\ a \o end \in Seq(Written) /\ Len(a \o end) = l
          /\ \A i \in 1..l : (a \o end)[i] = IF i <= la THEN a[i] ELSE end[i - la]
      BY <3>1, Joined
    <3> QED BY <3>2, Zenon DEF la, l
  <2>3. ASSUME NEW i \in 1..(4 * n + 3)
        PROVE  (a \o end)[i] = IF i <= 2 THEN head[i] ELSE IF i <= 4 * n + 2 THEN flat[i - 2] ELSE end[1]
    <3>1. CASE i <= 4 * n + 2
      <4>1. i \in 1..(4 * n + 2) /\ a[i] = IF i <= 2 THEN head[i] ELSE flat[i - 2]
        BY <1>2, <1>9, <3>1, SMTT(20)
      <4> HIDE DEF a
      <4> QED BY <2>2, <3>1, <4>1
    <3>2. CASE ~(i <= 4 * n + 2)
      <4>1. i - (4 * n + 2) = 1 /\ ~(i <= 2)
        BY <1>2, <3>2
      <4> HIDE DEF a
      <4> QED BY <2>2, <3>2, <4>1
    <3> QED BY <3>1, <3>2
  <2> QED BY <2>2, <2>3
<1> HIDE DEF t
<1>11. ASSUME NEW k \in 1..n
       PROVE  /\ t[4 * k - 1] = Registered!Plain("call-id")
              /\ t[4 * k] = Registered!Line("user", p[k][1])
              /\ t[4 * k + 1] = Registered!Line("contact", p[k][2])
              /\ t[4 * k + 2] = Registered!Plain("status")
  <2>1. ASSUME NEW j \in 1..4, NEW i, i = 4 * k - 2 + j PROVE t[i] = q[k][j]
    <3>1. i \in 1..(4 * n + 3) /\ ~(i <= 2) /\ i <= 4 * n + 2 /\ i - 2 = 4 * (k - 1) + j
      BY <1>2, <2>1
    <3>2. t[i] = flat[i - 2]
      BY <1>10, <3>1
    <3> QED BY <1>6, <3>1, <3>2 DEF InTurn
  <2>2. q[k] = Registered!Entry(p[k]) /\ p[k] \in s
    BY <1>4
  <2>3. 4 * k - 1 = 4 * k - 2 + 1 /\ 4 * k = 4 * k - 2 + 2 /\ 4 * k + 1 = 4 * k - 2 + 3 /\ 4 * k + 2 = 4 * k - 2 + 4
    BY <1>2
  <2>4. t[4 * k - 1] = q[k][1] /\ t[4 * k] = q[k][2] /\ t[4 * k + 1] = q[k][3] /\ t[4 * k + 2] = q[k][4]
    BY <2>1, <2>3
  <2> QED BY <1>3, <2>2, <2>4
<1>12. Lists(t, p, n)
  <2>1. 1 \in 1..(4 * n + 3) /\ 2 \in 1..(4 * n + 3) /\ 4 * n + 3 \in 1..(4 * n + 3)
        /\ ~(4 * n + 3 <= 2) /\ ~(4 * n + 3 <= 4 * n + 2)
    BY <1>2
  <2>2. t[1] = head[1] /\ t[2] = head[2] /\ t[4 * n + 3] = end[1]
    BY <1>10, <2>1
  <2> QED BY <1>7, <1>10, <1>11, <2>2 DEF Lists
<1>13. p \in [1..n -> s]
  BY <1>4 DEF p
<1> QED BY <1>2, <1>5, <1>8, <1>12, <1>13

(* Reading it.  The only line of a kind is the first; a block ends where    *)
(* the next one starts, or with the text.                                   *)
LEMMA FirstIs ==
  ASSUME NEW b, NEW kind, NEW m \in 1..Len(b), b[m].kind = kind,
         \A i \in 1..Len(b) : b[i].kind = kind => i = m
  PROVE  Registered!First(b, kind) = b[m].value
<1> DEFINE of == {i \in 1..Len(b) : b[i].kind = kind}
<1>1. of = {m}
  OBVIOUS
<1>2. Registered!Min({m}) = m
  BY DEF Registered!Min
<1>3. of # {} /\ Registered!Min(of) = m
  BY <1>1, <1>2
<1> HIDE DEF of
<1>4. Registered!First(b, kind) = IF of = {} THEN "" ELSE b[Registered!Min(of)].value
  BY DEF Registered!First, of
<1> QED BY <1>3, <1>4

LEMMA FirstNone ==
  ASSUME NEW b, NEW kind, \A i \in 1..Len(b) : b[i].kind # kind
  PROVE  Registered!First(b, kind) = ""
  BY DEF Registered!First

LEMMA BlockIs ==
  ASSUME NEW t \in Seq(Written), NEW i \in 1..Len(t), NEW end \in (i + 1)..(Len(t) + 1),
         end \in Registered!Starts(t) \/ end = Len(t) + 1,
         \A j \in Registered!Starts(t) : j > i => j >= end,
         NEW b, b = Registered!Block(t, i)
  PROVE  Len(b) = end - i /\ \A m \in 1..(end - i) : b[m] = t[i + m - 1]
<1> DEFINE ends == {j \in Registered!Starts(t) : j > i}
           last == IF ends = {} THEN Len(t) + 1 ELSE CHOOSE j \in ends : \A k \in ends : j <= k
<1>0. Len(t) \in Nat /\ Registered!Starts(t) \subseteq 1..Len(t)
  BY LenProperties DEF Registered!Starts
<1>1. last = end
  <2>1. CASE end \in Registered!Starts(t)
    <3>1. end \in ends /\ \A k \in ends : end <= k
      BY <1>0, <2>1
    <3>2. \A j \in ends : (\A k \in ends : j <= k) => j = end
      BY <1>0, <3>1
    <3> HIDE DEF ends
    <3>3. (CHOOSE j \in ends : \A k \in ends : j <= k) = end
      BY <3>1, <3>2
    <3> QED BY <3>1, <3>3
  <2>2. CASE end = Len(t) + 1
    <3>1. ends = {}
      BY <1>0, <2>2
    <3> QED BY <2>2, <3>1
  <2> QED BY <2>1, <2>2
<1>2. b = SubSeq(t, i, end - 1)
  <2>1. b = SubSeq(t, i, last - 1)
    BY DEF Registered!Block
  <2> HIDE DEF last
  <2> QED BY <1>1, <2>1
<1>3. \A j \in i..(end - 1) : t[j] \in Written
  BY <1>0, ElementOfSeq
<1>4. /\ Len(SubSeq(t, i, end - 1)) = end - i
      /\ \A m \in 1..(end - i) : SubSeq(t, i, end - 1)[m] = t[i + m - 1]
  <2>1. end - 1 \in Int /\ i <= end - 1 /\ (end - 1) - i + 1 = end - i
    BY <1>0
  <2> QED BY <1>3, <2>1, SubSeqProperties
<1> QED BY <1>2, <1>4

(* Where the lines of each kind are. *)
LEMMA OfLine ==
  \A kind, v : /\ Registered!Line(kind, v).kind = kind /\ Registered!Line(kind, v).value = v
               /\ Registered!Plain(kind).kind = kind
  BY DEF Registered!Line, Registered!Plain

LEMMA MarkedLines ==
  Registered!Plain("header").marked /\ Registered!Plain("call-id").marked
  BY DEF Registered!Line, Registered!Plain

KindAt(t, n, i) ==
  /\ t[i].kind = "call-id" <=> \E k \in 1..n : i = 4 * k - 1
  /\ t[i].kind = "user" => \E k \in 1..n : i = 4 * k
  /\ t[i].kind = "contact" => \E k \in 1..n : i = 4 * k + 1

LEMMA KindsOf ==
  ASSUME NEW s, NEW n \in Nat, NEW p \in [1..n -> s], NEW t, Lists(t, p, n), NEW i \in 1..Len(t)
  PROVE  KindAt(t, n, i)
<1>1. Len(t) = 4 * n + 3
  BY DEF Lists
<1>2. CASE i \in {1, 2, 4 * n + 3}
  <2>1. t[i].kind \in {"blank", "header", "total"}
    <3>1. t[1].kind = "blank" /\ t[2].kind = "header" /\ t[4 * n + 3].kind = "total"
      BY OfLine DEF Lists
    <3> QED BY <1>2, <3>1
  <2>2. ~\E k \in 1..n : i = 4 * k - 1
    BY <1>2
  <2> QED BY <2>1, <2>2 DEF KindAt
<1>3. CASE i \notin {1, 2, 4 * n + 3}
  <2> DEFINE k == (i + 1) \div 4
  <2>1. k \in 1..n /\ i \in {4 * k - 1, 4 * k, 4 * k + 1, 4 * k + 2}
    BY <1>1, <1>3
  <2> HIDE DEF k
  <2>2. /\ t[4 * k - 1].kind = "call-id" /\ t[4 * k].kind = "user"
        /\ t[4 * k + 1].kind = "contact" /\ t[4 * k + 2].kind = "status"
    <3>1. /\ t[4 * k - 1] = Registered!Plain("call-id") /\ t[4 * k] = Registered!Line("user", p[k][1])
          /\ t[4 * k + 1] = Registered!Line("contact", p[k][2]) /\ t[4 * k + 2] = Registered!Plain("status")
      BY <2>1 DEF Lists
    <3> QED BY <3>1, OfLine
  <2>3. i # 4 * k - 1 => ~\E l \in 1..n : i = 4 * l - 1
    BY <2>1
  <2> QED BY <2>1, <2>2, <2>3 DEF KindAt
<1> QED BY <1>2, <1>3

LEMMA SameRest ==
  ASSUME NEW k \in Int, NEW l \in Int, NEW m \in 1..5
  PROVE  (4 * k + m - 2 = 4 * l => m = 2) /\ (4 * k + m - 2 = 4 * l + 1 => m = 3)
  OBVIOUS

(* The rows of a report are the phones it lists. *)
LEMMA RowsOf ==
  ASSUME NEW s, s \subseteq Extensions \X Contacts,
         NEW n \in Nat, NEW p \in [1..n -> s], NEW t, Lists(t, p, n)
  PROVE  Registered!Rows(t) = {p[k] : k \in 1..n}
<1>0. t \in Seq(Written) /\ Len(t) = 4 * n + 3 /\ 1 \in 1..Len(t)
  BY DEF Lists
<1>1. Registered!Starts(t) = {1} \cup {4 * k - 1 : k \in 1..n}
  <2>1. \A k \in 1..n : 4 * k - 1 \in 1..Len(t)
    BY <1>0
  <2>2. {i \in 1..Len(t) : t[i].kind = "call-id"} = {4 * k - 1 : k \in 1..n}
    <3>1. ASSUME NEW i \in 1..Len(t) PROVE t[i].kind = "call-id" <=> \E k \in 1..n : i = 4 * k - 1
      <4>1. KindAt(t, n, i)
        BY KindsOf
      <4> QED BY <4>1 DEF KindAt
    <3> QED BY <2>1, <3>1
  <2> QED BY <2>2 DEF Registered!Starts
<1>2. Registered!First(Registered!Block(t, 1), "user") = ""
  <2> DEFINE end == IF n = 0 THEN 4 ELSE 3
             b == Registered!Block(t, 1)
  <2>1. end \in (1 + 1)..(Len(t) + 1) /\ (end \in Registered!Starts(t) \/ end = Len(t) + 1)
        /\ \A j \in Registered!Starts(t) : j > 1 => j >= end
    <3>1. CASE n = 0
      BY <1>0, <1>1, <3>1
    <3>2. CASE n # 0
      <4>1. 1 \in 1..n /\ 3 = 4 * 1 - 1
        BY <3>2
      <4> QED BY <1>0, <1>1, <3>2, <4>1
    <3> QED BY <3>1, <3>2
  <2>2. Len(b) = end - 1 /\ \A m \in 1..(end - 1) : b[m] = t[1 + m - 1]
    <3> HIDE DEF end
    <3> QED BY <1>0, <2>1, BlockIs
  <2>3. ASSUME NEW m \in 1..Len(b) PROVE b[m].kind # "user"
    <3>1. b[m] = t[m] /\ m \in 1..Len(t) /\ m < 4
      BY <1>0, <2>2
    <3>2. t[m].kind = "user" => \E k \in 1..n : m = 4 * k
      <4> HIDE DEF b, end
      <4> QED BY <3>1, KindsOf DEF KindAt
    <3>3. ~\E k \in 1..n : m = 4 * k
      BY <3>1
    <3> HIDE DEF b
    <3> QED BY <3>1, <3>2, <3>3
  <2> HIDE DEF b
  <2>4. Registered!First(b, "user") = ""
    BY <2>3, FirstNone
  <2> QED BY <2>4 DEF b
<1>3. ASSUME NEW k \in 1..n
      PROVE  /\ Registered!First(Registered!Block(t, 4 * k - 1), "user") = p[k][1]
             /\ Registered!First(Registered!Block(t, 4 * k - 1), "contact") = p[k][2]
  <2> DEFINE i == 4 * k - 1
             end == IF k = n THEN 4 * n + 4 ELSE 4 * k + 3
             b == Registered!Block(t, i)
  <2>1. i \in 1..Len(t) /\ end \in (i + 1)..(Len(t) + 1)
    BY <1>0
  <2>2. end \in Registered!Starts(t) \/ end = Len(t) + 1
    <3>1. CASE k # n
      <4>1. k + 1 \in 1..n /\ end = 4 * (k + 1) - 1
        BY <3>1
      <4> QED BY <1>1, <4>1
    <3> QED BY <1>0, <3>1
  <2>3. ASSUME NEW j \in Registered!Starts(t), j > i PROVE j >= end
    <3>1. PICK l \in 1..n : j = 4 * l - 1
      BY <1>1, <2>3
    <3> QED BY <2>3, <3>1
  <2>4. Len(b) = end - i /\ \A m \in 1..(end - i) : b[m] = t[i + m - 1]
    <3> HIDE DEF end, i
    <3> QED BY <1>0, <2>1, <2>2, <2>3, BlockIs, ZenonT(30)
  <2>5. end - i \in {4, 5} /\ i + 2 - 1 = 4 * k /\ i + 3 - 1 = 4 * k + 1
    OBVIOUS
  <2>6. 2 \in 1..Len(b) /\ 3 \in 1..Len(b) /\ b[2] = t[4 * k] /\ b[3] = t[4 * k + 1]
    <3> HIDE DEF end, i, b
    <3> QED BY <2>4, <2>5
  <2>7. ASSUME NEW m \in 1..Len(b)
        PROVE  (b[m].kind = "user" => m = 2) /\ (b[m].kind = "contact" => m = 3)
    <3>1. b[m] = t[4 * k + m - 2] /\ 4 * k + m - 2 \in 1..Len(t) /\ m \in 1..5
      <4>1. m \in 1..(end - i) /\ i + m - 1 = 4 * k + m - 2
        BY <2>4
      <4>2. b[m] = t[4 * k + m - 2]
        <5> HIDE DEF end, i, b
        <5> QED BY <2>4, <4>1
      <4> QED BY <1>0, <2>5, <4>1, <4>2
    <3>2. /\ t[4 * k + m - 2].kind = "user" => \E l \in 1..n : 4 * k + m - 2 = 4 * l
          /\ t[4 * k + m - 2].kind = "contact" => \E l \in 1..n : 4 * k + m - 2 = 4 * l + 1
      <4> DEFINE j == 4 * k + m - 2
      <4>1. j \in 1..Len(t)
        BY <3>1
      <4> HIDE DEF j
      <4>2. /\ t[j].kind = "user" => \E l \in 1..n : j = 4 * l
            /\ t[j].kind = "contact" => \E l \in 1..n : j = 4 * l + 1
        BY <4>1, KindsOf DEF KindAt
      <4> QED BY <4>2 DEF j
    <3> HIDE DEF b, i, end
    <3>3. ASSUME NEW l \in 1..n
          PROVE  (4 * k + m - 2 = 4 * l => m = 2) /\ (4 * k + m - 2 = 4 * l + 1 => m = 3)
      <4>1. m \in 1..5 /\ k \in Int /\ l \in Int
        BY <3>1
      <4> QED BY <4>1, SameRest
    <3> QED BY <3>1, <3>2, <3>3
  <2>8. /\ b[2].kind = "user" /\ b[2].value = p[k][1]
        /\ b[3].kind = "contact" /\ b[3].value = p[k][2]
    <3> HIDE DEF b, i, end
    <3>1. b[2] = Registered!Line("user", p[k][1]) /\ b[3] = Registered!Line("contact", p[k][2])
      BY <2>6 DEF Lists
    <3> QED BY <3>1, OfLine
  <2> HIDE DEF b, i, end
  <2>9. Registered!First(b, "user") = p[k][1] /\ Registered!First(b, "contact") = p[k][2]
    BY <2>6, <2>7, <2>8, FirstIs
  <2> QED BY <2>9 DEF b, i
<1>4. ASSUME NEW k \in 1..n PROVE p[k][1] # "" /\ p[k] = <<p[k][1], p[k][2]>>
  <2>1. p[k] \in Extensions \X Contacts
    OBVIOUS
  <2>2. p[k] = <<p[k][1], p[k][2]>> /\ p[k][1] \in Extensions
    BY <2>1
  <2> QED BY <2>2, VerdictAssumption, Zenon
<1> DEFINE F(c, kind) == Registered!First(c, kind)
           B(i) == Registered!Block(t, i)
           named == {c \in {B(i) : i \in Registered!Starts(t)} : F(c, "user") # ""}
<1>5. named = {B(4 * k - 1) : k \in 1..n}
  <2>1. ASSUME NEW k \in 1..n PROVE F(B(4 * k - 1), "user") # ""
    BY <1>3, <1>4
  <2>2. F(B(1), "user") = ""
    BY <1>2
  <2> HIDE DEF F, B
  <2> QED BY <1>1, <2>1, <2>2
<1>6. Registered!Rows(t) = {<<F(b, "user"), F(b, "contact")>> : b \in named}
  BY DEF Registered!Rows
<1>7. ASSUME NEW k \in 1..n PROVE <<F(B(4 * k - 1), "user"), F(B(4 * k - 1), "contact")>> = p[k]
  BY <1>3, <1>4
<1> HIDE DEF F, B, named
<1>8. Registered!Rows(t) = {<<F(B(4 * k - 1), "user"), F(B(4 * k - 1), "contact")>> : k \in 1..n}
  BY <1>5, <1>6
<1> QED BY <1>7, <1>8

(* A whole report is authoritative and exact; and what is no report, but    *)
(* is authoritative all the same, is no refusal and has something of one.   *)
LEMMA ReportParse ==
  ASSUME NEW s, IsFiniteSet(s), s \subseteq Extensions \X Contacts, NEW t, t = Registered!Report(s)
  PROVE  Registered!IsAuthoritative(Registered!Classify(t)) /\ Registered!Classify(t).rows = s
<1>1. PICK n \in Nat : \E p \in [1..n -> s] : s = {p[k] : k \in 1..n} /\ Lists(t, p, n)
  BY ReportLines
<1>2. PICK p \in [1..n -> s] : s = {p[k] : k \in 1..n} /\ Lists(t, p, n)
  BY <1>1
<1>3. Registered!Rows(t) = s
  BY <1>2, RowsOf
<1>4. /\ Len(t) = 4 * n + 3 /\ t[1].kind = "blank" /\ t[2].kind = "header" /\ 2 \in 1..Len(t)
      /\ t[2].marked
  <2>1. t[1] = Registered!Plain("blank") /\ t[2] = Registered!Plain("header") /\ Len(t) = 4 * n + 3
    BY <1>2 DEF Lists
  <2>2. 2 \in 1..Len(t)
    BY <2>1
  <2> QED BY <2>1, <2>2, OfLine, MarkedLines
<1> DEFINE written == {i \in 1..Len(t) : t[i].kind # "blank"}
<1>5. written # {} /\ Registered!Min(written) = 2
  <2>1. 2 \in written /\ \A i \in written : 2 <= i
    BY <1>4
  <2>2. \A i \in written : (\A j \in written : i <= j) => i = 2
    BY <1>4, <2>1
  <2> HIDE DEF written
  <2>3. (CHOOSE i \in written : \A j \in written : i <= j) = 2
    BY <2>1, <2>2
  <2> QED BY <2>1, <2>3 DEF Registered!Min
<1>6. Registered!Has(t)
  BY <1>4 DEF Registered!Has
<1> DEFINE verdict == IF Registered!Rows(t) # {} THEN Registered!Result("complete", Registered!Rows(t))
                      ELSE Registered!Result("empty", {})
<1>7. Registered!Classify(t) = verdict
  <2>1. t[Registered!Min(written)].kind # "refusal"
    BY <1>4, <1>5
  <2>2. (CASE written = {} -> Registered!Result("malformed", {})
           [] written # {} /\ t[Registered!Min(written)].kind = "refusal" -> Registered!Result("error", {})
           [] written # {} /\ t[Registered!Min(written)].kind # "refusal" ->
                IF Registered!Rows(t) # {} THEN Registered!Result("complete", Registered!Rows(t))
                ELSE IF Registered!Has(t) THEN Registered!Result("empty", {})
                ELSE Registered!Result("malformed", {})) = verdict
    <3> HIDE DEF written
    <3> QED BY <1>5, <1>6, <2>1
  <2> QED BY <2>2 DEF Registered!Classify
<1> QED BY <1>3, <1>7 DEF Registered!IsAuthoritative, Registered!Result

(* Lines that name nobody make no row. *)
LEMMA NoRows ==
  ASSUME NEW S, NEW t \in Seq(S), Len(t) # 0, ~Registered!Names(t),
         \A i \in 1..Len(t) : t[i].kind # "call-id"
  PROVE  Registered!Rows(t) = {}
<1>0. Len(t) \in Nat /\ 1 \in 1..Len(t)
  BY LenProperties
<1>1. Registered!Starts(t) = {1}
  BY DEF Registered!Starts
<1>2. Registered!Block(t, 1) = SubSeq(t, 1, Len(t))
  <2>1. {j \in Registered!Starts(t) : j > 1} = {}
    BY <1>1
  <2> QED BY <1>0, <2>1 DEF Registered!Block
<1>3. SubSeq(t, 1, Len(t)) = t
  <2> DEFINE b == SubSeq(t, 1, Len(t))
  <2>1. b \in Seq(S) /\ Len(b) = Len(t) /\ \A i \in 1..Len(t) : b[i] = t[i]
    BY <1>0, SubSeqProperties, ElementOfSeq
  <2> HIDE DEF b
  <2>2. b = t
    BY <2>1, SeqEqual
  <2> QED BY <2>2 DEF b
<1>4. Registered!First(t, "user") = ""
  <2> DEFINE of == {i \in 1..Len(t) : t[i].kind = "user"}
  <2>1. CASE of = {}
    <3>1. \A i \in 1..Len(t) : t[i].kind # "user"
      BY <2>1
    <3> QED BY <3>1, FirstNone
  <2>2. CASE of # {}
    <3>1. PICK m \in of : \A i \in of : m <= i
      <4>1. of \subseteq Nat
        OBVIOUS
      <4> HIDE DEF of
      <4> QED BY <2>2, <4>1, LeastNatural
    <3>2. m \in 1..Len(t) /\ t[m].kind = "user" /\ \A i \in 1..Len(t) : t[i].kind = "user" => m <= i
      BY <3>1
    <3>3. Registered!First(t, "user") = t[m].value
      <4>1. \A i \in of : (\A j \in of : i <= j) => i = m
        BY <1>0, <3>1
      <4> HIDE DEF of
      <4>2. Registered!Min(of) = m
        <5>1. (CHOOSE i \in of : \A j \in of : i <= j) = m
          BY <3>1, <4>1
        <5> QED BY <5>1 DEF Registered!Min
      <4>3. Registered!First(t, "user") = IF of = {} THEN "" ELSE t[Registered!Min(of)].value
        BY DEF Registered!First, of
      <4> QED BY <2>2, <4>2, <4>3
    <3> QED BY <3>2, <3>3 DEF Registered!Names
  <2> QED BY <2>1, <2>2
<1> QED BY <1>1, <1>2, <1>3, <1>4 DEF Registered!Rows

LEMMA NoReportParse ==
  ASSUME NEW t \in Registered!NoReport, Registered!IsAuthoritative(Registered!Classify(t))
  PROVE  ~Registered!Refused(t) /\ (Registered!Has(t) \/ Registered!Names(t))
<1> DEFINE written == {i \in 1..Len(t) : t[i].kind # "blank"}
<1>0. t \in Seq(Registered!Stray) /\ Len(t) \in Nat
  <2>1. PICK m \in 0..MaxStray : t \in [1..m -> Registered!Stray]
    BY DEF Registered!NoReport, Registered!SeqOf
  <2> QED BY <2>1, LenProperties
<1>1. ~(Registered!Result("malformed", {}).state \in {"complete", "empty"})
      /\ ~(Registered!Result("error", {}).state \in {"complete", "empty"})
  BY DEF Registered!Result
<1>2. written # {}
  <2> SUFFICES ASSUME written = {} PROVE FALSE
    OBVIOUS
  <2>1. Registered!Classify(t) = Registered!Result("malformed", {})
    BY DEF Registered!Classify
  <2> QED BY <1>1, <2>1 DEF Registered!IsAuthoritative
<1>3. PICK m \in written : \A i \in written : m <= i
  <2>1. written \subseteq Nat
    BY <1>0
  <2> HIDE DEF written
  <2> QED BY <1>2, <2>1, LeastNatural
<1>4. Registered!Min(written) = m
  <2>1. \A i \in written : (\A j \in written : i <= j) => i = m
    BY <1>0, <1>3
  <2> HIDE DEF written
  <2>2. (CHOOSE i \in written : \A j \in written : i <= j) = m
    BY <1>3, <2>1
  <2> QED BY <2>2 DEF Registered!Min
<1>5. t[m].kind # "refusal"
  <2> SUFFICES ASSUME t[m].kind = "refusal" PROVE FALSE
    OBVIOUS
  <2>1. Registered!Classify(t) = Registered!Result("error", {})
    <3>1. t[Registered!Min(written)].kind = "refusal"
      BY <1>4
    <3> QED BY <1>2, <3>1 DEF Registered!Classify
  <2> QED BY <1>1, <2>1 DEF Registered!IsAuthoritative
<1>6. ~Registered!Refused(t)
  <2> SUFFICES ASSUME NEW i \in 1..Len(t), t[i].kind = "refusal",
                      \A j \in 1..(i - 1) : t[j].kind = "blank"
               PROVE  FALSE
    BY DEF Registered!Refused
  <2>1. i \in written /\ m <= i /\ m \in 1..Len(t)
    BY <1>3
  <2>2. m \notin 1..(i - 1)
    BY <1>3
  <2>3. m = i
    BY <1>0, <2>1, <2>2
  <2> QED BY <1>5, <2>3
<1>7. Registered!Has(t) \/ Registered!Names(t)
  <2> SUFFICES ASSUME ~Registered!Has(t), ~Registered!Names(t) PROVE FALSE
    OBVIOUS
  <2>1. ASSUME NEW l \in Registered!Stray, l.kind = "call-id" PROVE l.marked
    <3>1. Registered!Plain("call-id").marked
      BY MarkedLines
    <3>2. \A k : k # "call-id" => Registered!Plain(k).kind # "call-id"
      BY OfLine
    <3>3. \A e : Registered!Line("user", e).kind # "call-id"
      BY OfLine
    <3>4. \A x : [x EXCEPT !.marked = TRUE].kind # "call-id" \/ [x EXCEPT !.marked = TRUE].marked
      OBVIOUS
    <3> QED BY <2>1, <3>1, <3>2, <3>3, <3>4 DEF Registered!Stray
  <2>2. \A i \in 1..Len(t) : t[i].kind # "call-id"
    BY <1>0, <2>1, ElementOfSeq DEF Registered!Has
  <2>3. Len(t) # 0
    BY <1>2
  <2>4. Registered!Rows(t) = {}
    BY <1>0, <2>2, <2>3, NoRows
  <2>5. Registered!Classify(t) = Registered!Result("malformed", {})
    <3>1. t[Registered!Min(written)].kind # "refusal"
      BY <1>4, <1>5
    <3> QED BY <1>2, <2>4, <3>1 DEF Registered!Classify
  <2> QED BY <1>1, <2>5 DEF Registered!IsAuthoritative
<1> QED BY <1>6, <1>7

(* Between the switch's answer and its reading, the text is the report of   *)
(* the phones it held then, or none.                                        *)
RegisteredInv ==
  read = "registrations" =>
    /\ IsFiniteSet(phones) /\ phones \subseteq Extensions \X Contacts
    /\ pc = "replied" =>
         /\ IsFiniteSet(held) /\ held \subseteq Extensions \X Contacts
         /\ IF reported THEN answer = Registered!Report(held) ELSE answer \in Registered!NoReport

(* list_registrations_result: whatever phones come and go, a whole report   *)
(* is authoritative and tells exactly those that were registered when the   *)
(* switch wrote it; a refusal never counts, whatever lines follow it, nor   *)
(* does text without a marker and without a User line that names anybody    *)
(* (registrations.py 110-151).  Other text does: the code asks no more of a *)
(* report.  Of a report cut short the first is false, and assumed away.     *)
THEOREM ReportIsProof ==
  ASSUME ~Damage
  PROVE  Spec => OnlyReportsCount
<1> DEFINE Counts == read = "registrations" /\ Registered!list_registrations_result =>
              LET counts == Registered!IsAuthoritative(result')
              IN  /\ reported => counts /\ result'.rows = held
                  /\ ~reported /\ counts =>
                       ~Registered!Refused(answer) /\ (Registered!Has(answer) \/ Registered!Names(answer))
<1>1. Init => RegisteredInv
  BY FS_EmptySet DEF Init, Shown!Init, Registered!Init, RegisteredInv
<1>2. ASSUME RegisteredInv, [Next]_vars PROVE RegisteredInv'
  <2> SUFFICES ASSUME read = "registrations", read' = read PROVE RegisteredInv'
    BY <1>2 DEF Next, vars, RegisteredInv
  <2>0. IsFiniteSet(phones) /\ phones \subseteq Extensions \X Contacts
    BY <1>2 DEF RegisteredInv
  <2>1. CASE UNCHANGED vars
    BY <1>2, <2>1 DEF vars, RegisteredInv
  <2>2. ASSUME NEW p \in Extensions \X Contacts, Registered!Register(p) \/ Registered!Unregister(p)
        PROVE  RegisteredInv'
    <3>1. IsFiniteSet(phones') /\ phones' \subseteq Extensions \X Contacts
      BY <2>0, <2>2, FS_AddElement, FS_RemoveElement DEF Registered!Register, Registered!Unregister
    <3>2. UNCHANGED <<pc, answer, held, reported>>
      BY <2>2 DEF Registered!Register, Registered!Unregister
    <3> QED BY <1>2, <3>1, <3>2 DEF RegisteredInv
  <2>3. CASE Registered!Ask
    BY <2>0, <2>3 DEF RegisteredInv, Registered!Ask
  <2>4. CASE Registered!Reply
    <3>1. /\ held' = phones /\ UNCHANGED phones
          /\ IF reported' THEN answer' = Registered!Report(phones) ELSE answer' \in Registered!NoReport
      BY <2>4 DEF Registered!Reply
    <3> QED BY <2>0, <3>1 DEF RegisteredInv
  <2>5. CASE Registered!list_registrations_result
    BY <2>0, <2>5 DEF RegisteredInv, Registered!list_registrations_result
  <2>6. CASE Registered!Raise
    BY <2>0, <2>6 DEF RegisteredInv, Registered!Raise
  <2> QED BY <1>2, <2>1, <2>2, <2>3, <2>4, <2>5, <2>6 DEF Next, Registered!Next
<1>3. RegisteredInv => [Counts]_vars
  <2> SUFFICES ASSUME RegisteredInv, read = "registrations", Registered!list_registrations_result
               PROVE  Counts
    OBVIOUS
  <2>1. /\ result' = Registered!Classify(answer)
        /\ IsFiniteSet(held) /\ held \subseteq Extensions \X Contacts
        /\ IF reported THEN answer = Registered!Report(held) ELSE answer \in Registered!NoReport
    BY DEF RegisteredInv, Registered!list_registrations_result
  <2>2. CASE reported
    BY <2>1, <2>2, ReportParse
  <2>3. CASE ~reported
    BY <2>1, <2>3, NoReportParse
  <2> QED BY <2>2, <2>3
<1> QED BY <1>1, <1>2, <1>3, PTL DEF Spec, OnlyReportsCount
=============================================================================
