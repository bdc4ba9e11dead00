-------------------------- MODULE SmsImportProofs ---------------------------
(***************************************************************************)
(* Proofs about the import of received messages, for any texts, any memory *)
(* of the SIM, any old history, and any number of arrivals, imports,       *)
(* failures, deletions and crashes.                                        *)
(***************************************************************************)
EXTENDS SmsImport, SequenceTheorems, FiniteSetTheorems, TLAPS

-----------------------------------------------------------------------------
(* Sequences and sets.                                                       *)

LEMMA RemovedAt ==
  ASSUME NEW S, NEW s \in Seq(S), NEW k \in 1..Len(s)
  PROVE  LET r == RemoveAt(s, k)
         IN  /\ r \in Seq(S) /\ DOMAIN r = 1..(Len(s) - 1)
             /\ \A i \in DOMAIN r : r[i] = s[IF i < k THEN i ELSE i + 1]
<1> DEFINE a == SubSeq(s, 1, k - 1)
           b == SubSeq(s, k + 1, Len(s))
<1>0. Len(s) \in Nat /\ \A i \in 1..Len(s) : s[i] \in S
  BY LenProperties, ElementOfSeq
<1>1. a \in Seq(S) /\ Len(a) = k - 1 /\ \A i \in 1..(k - 1) : a[i] = s[i]
  <2>1. \A i \in 1..(k - 1) : s[i] \in S
    BY <1>0
  <2>2. QED BY <1>0, <2>1, SubSeqProperties
<1>2. b \in Seq(S) /\ Len(b) = Len(s) - k /\ \A i \in 1..(Len(s) - k) : b[i] = s[k + i]
  <2>1. \A i \in (k + 1)..Len(s) : s[i] \in S
    BY <1>0
  <2>2. /\ b \in Seq(S)
        /\ Len(b) = IF k + 1 <= Len(s) THEN Len(s) - (k + 1) + 1 ELSE 0
        /\ \A i \in 1..(Len(s) - (k + 1) + 1) : b[i] = s[(k + 1) + i - 1]
    BY <1>0, <2>1, SubSeqProperties
  <2>3. QED BY <2>2, <1>0
<1> HIDE DEF a, b
<1>3. /\ a \o b \in Seq(S) /\ Len(a \o b) = Len(s) - 1
      /\ \A i \in 1..(Len(s) - 1) : (a \o b)[i] = IF i <= k - 1 THEN a[i] ELSE b[i - (k - 1)]
  BY <1>0, <1>1, <1>2, ConcatProperties
<1>4. RemoveAt(s, k) = a \o b
  BY DEF RemoveAt, a, b
<1>5. DOMAIN (a \o b) = 1..(Len(s) - 1)
  BY <1>3, LenProperties
<1>6. ASSUME NEW i \in 1..(Len(s) - 1)
      PROVE  (a \o b)[i] = s[IF i < k THEN i ELSE i + 1]
  <2>1. CASE i < k
    BY <2>1, <1>0, <1>1, <1>3
  <2>2. CASE ~(i < k)
    <3>1. i - (k - 1) \in 1..(Len(s) - k) /\ k + (i - (k - 1)) = i + 1
      BY <2>2, <1>0
    <3>2. QED BY <2>2, <3>1, <1>0, <1>2, <1>3
  <2>3. QED BY <2>1, <2>2
<1>7. QED BY <1>3, <1>4, <1>5, <1>6

\* A bounded set of numbers has a greatest one.
LEMMA MaxIn ==
  ASSUME NEW n \in Nat, NEW S \in SUBSET (1..n), S # {}
  PROVE  Max(S) \in S
<1> DEFINE E == {n - x : x \in S}
<1>1. E # {} /\ E \subseteq Nat
  OBVIOUS
<1>2. \E e \in E : \A y \in E : ~(<<y, e>> \in OpToRel(<, Nat))
  BY <1>1, WFMin, NatLessThanWellFounded
<1>3. PICK e \in E : \A y \in E : ~(<<y, e>> \in OpToRel(<, Nat))
  BY <1>2
<1>4. PICK x \in S : e = n - x
  BY <1>3
<1>5. ASSUME NEW y \in S PROVE x >= y
  <2>1. n - y \in E /\ n - y \in Nat /\ e \in Nat
    BY <1>1, <1>3
  <2>2. ~(n - y < e)
    BY <1>3, <2>1 DEF OpToRel
  <2>3. x \in Int /\ y \in Int
    OBVIOUS
  <2>4. QED BY <1>4, <2>2, <2>3
<1>6. QED BY <1>5 DEF Max

-----------------------------------------------------------------------------
(* A message takes a part.                                                   *)

\* What a message is made of.  One of an old history is complete and has no parts; one of the
\* SIM is complete when it has each part once, of texts that can be taken for its own.
Whole(m, old) ==
  /\ m.text \in Texts =>
       /\ \A p \in m.parts : Near(m.text, p.text)
       /\ \A p, q \in m.parts : p # q => p.part # q.part
       /\ m.done <=> {p.part : p \in m.parts} = 1..decode(m.text).total
  /\ m.text \in Records => m.done /\ m.parts = {} /\ m.text \in old

\* No PDU and no old record is in two messages.
Apart(m, n) ==
  /\ m.parts \cap n.parts = {}
  /\ m.text \in Records => m.text # n.text

History(ms, old) ==
  /\ ms \in Seq(Message)
  /\ \A i \in DOMAIN ms : Whole(ms[i], old)
  /\ \A i, j \in DOMAIN ms : i # j => Apart(ms[i], ms[j])

LEMMA TextIs ==
  ASSUME NEW t \in Texts
  PROVE  /\ decode(t).peer \in Nat /\ decode(t).ref \in Nat /\ decode(t).total \in Nat \ {0}
         /\ decode(t).time \in Nat /\ Window \in Nat
BY ImportAssumption DEF decode

LEMMA PduIs ==
  ASSUME NEW p \in Pdus
  PROVE  p.text \in Texts /\ p.part \in 1..decode(p.text).total
<1>1. PICK t \in Texts : p \in [text : {t}, part : 1..Header[t].total]
  BY DEF Pdus
<1>2. QED BY <1>1 DEF decode

LEMMA NearSelf == \A t \in Texts : Near(t, t)
BY TextIs DEF Near

\* A set of PDUs of different numbers has as many elements as the text has parts if and only if
\* it has each part.
LEMMA PartsCounted ==
  ASSUME NEW P \in SUBSET Pdus, NEW n \in Nat, \A p \in P : p.part \in 1..n,
         \A p, q \in P : p # q => p.part # q.part
  PROVE  Cardinality(P) = n <=> {p.part : p \in P} = 1..n
<1> DEFINE f == [p \in P |-> p.part]
<1>1. IsFiniteSet(1..n) /\ Cardinality(1..n) = n
  BY FS_Interval
<1>2. f \in [P -> 1..n] /\ DOMAIN f = P /\ \A p \in P : f[p] = p.part
  OBVIOUS
<1> HIDE DEF f
<1>3. f \in Injection(P, 1..n)
  BY <1>2 DEF Injection, IsInjective
<1>4. Cardinality(P) = n <=> f \in Surjection(P, 1..n)
  BY <1>1, <1>3, FS_Injection
<1>5. f \in Surjection(P, 1..n) <=> \A k \in 1..n : \E p \in P : p.part = k
  BY <1>2 DEF Surjection
<1>6. (\A k \in 1..n : \E p \in P : p.part = k) <=> {p.part : p \in P} = 1..n
  OBVIOUS
<1>7. QED BY <1>4, <1>5, <1>6

\* A message that takes a part stays sound, whichever message it is.
LEMMA GrownWhole ==
  ASSUME NEW m \in Message, m.text \in Texts, NEW p \in Pdus, NEW old, Whole(m, old),
         Near(m.text, p.text), \A q \in m.parts : q.part # p.part
  PROVE  LET g == Grown(m, p)
         IN  g \in Message /\ g.text = m.text /\ g.parts = m.parts \cup {p} /\ Whole(g, old)
<1> DEFINE P == m.parts \cup {p}
           n == decode(m.text).total
           d == Cardinality(P) = decode(p.text).total
           g == Grown(m, p)
<1>0. /\ m.parts \subseteq Pdus /\ p.text \in Texts /\ p.part \in 1..decode(p.text).total
      /\ n \in Nat \ {0}
  BY PduIs, TextIs DEF Message
<1>1. \A q \in P : Near(m.text, q.text) /\ q.part \in 1..n
  <2>1. ASSUME NEW q \in P PROVE Near(m.text, q.text) /\ q.part \in 1..n
    <3>1. Near(m.text, q.text) /\ q \in Pdus
      BY <1>0 DEF Whole
    <3>2. q.part \in 1..decode(q.text).total
      BY <3>1, PduIs
    <3>3. QED BY <3>1, <3>2 DEF Near
  <2>2. QED BY <2>1
<1>2. \A q, r \in P : q # r => q.part # r.part
  BY DEF Whole
<1>3. decode(p.text).total = n
  BY DEF Near
<1>4. Cardinality(P) = n <=> {q.part : q \in P} = 1..n
  BY <1>0, <1>1, <1>2, PartsCounted
<1>5. g = [m EXCEPT !.parts = P, !.done = d]
  BY DEF Grown
<1> HIDE DEF P, g, n
<1>6. P \subseteq Pdus
  BY <1>0 DEF P
<1>7. g \in Message /\ g.text = m.text /\ g.parts = P /\ g.done = d
  BY <1>5, <1>6 DEF Message
<1>8. m.text \notin Records
  BY ImportAssumption
<1>9. Whole(g, old)
  BY <1>1, <1>2, <1>3, <1>4, <1>7, <1>8 DEF Whole, n
<1>10. QED BY <1>7, <1>9 DEF P, g

LEMMA OpenedWhole ==
  ASSUME NEW t \in Texts, NEW old
  PROVE  Opened(t) \in Message /\ Opened(t).text = t /\ Opened(t).parts = {}
         /\ ~Opened(t).done /\ Whole(Opened(t), old)
<1>1. /\ Opened(t) \in Message /\ Opened(t).text = t /\ Opened(t).parts = {}
      /\ Opened(t).done = FALSE
  BY DEF Opened, Message
<1>2. t \notin Records
  BY ImportAssumption
<1>3. {p.part : p \in {}} # 1..decode(t).total
  <2>1. 1 \in 1..decode(t).total
    BY TextIs
  <2>2. QED BY <2>1
<1>4. Whole(Opened(t), old)
  BY <1>1, <1>2, <1>3 DEF Whole
<1>5. QED BY <1>1, <1>4

\* A new message goes to the end.
LEMMA AppendKeeps ==
  ASSUME NEW ms, NEW old, History(ms, old), NEW m \in Message, Whole(m, old),
         \A i \in DOMAIN ms : Apart(ms[i], m) /\ Apart(m, ms[i])
  PROVE  History(Append(ms, m), old)
<1> DEFINE n == Append(ms, m)
<1>1. /\ ms \in Seq(Message) /\ Len(ms) \in Nat /\ DOMAIN ms = 1..Len(ms)
      /\ \A i \in DOMAIN ms : ms[i] \in Message
  BY LenProperties, ElementOfSeq DEF History
<1>2. /\ n \in Seq(Message) /\ Len(n) = Len(ms) + 1 /\ n[Len(ms) + 1] = m
      /\ \A i \in 1..Len(ms) : n[i] = ms[i]
  BY <1>1, AppendProperties
<1>3. DOMAIN n = 1..(Len(ms) + 1)
  BY <1>2, LenProperties
<1> HIDE DEF n
<1>4. \A i \in DOMAIN n : (i \in DOMAIN ms /\ n[i] = ms[i]) \/ (i = Len(ms) + 1 /\ n[i] = m)
  BY <1>1, <1>2, <1>3
<1>5. \A i \in DOMAIN n : Whole(n[i], old)
  BY <1>4 DEF History
<1>6. \A i, j \in DOMAIN n : i # j => Apart(n[i], n[j])
  BY <1>4 DEF History
<1>7. QED BY <1>2, <1>5, <1>6 DEF History, n

\* A message is replaced by one that is whole and apart from the others.
LEMMA ReplaceKeeps ==
  ASSUME NEW ms, NEW old, History(ms, old), NEW k \in DOMAIN ms, NEW m \in Message, Whole(m, old),
         \A i \in DOMAIN ms : i # k => Apart(ms[i], m) /\ Apart(m, ms[i]),
         NEW n, n = [ms EXCEPT ![k] = m]
  PROVE  History(n, old)
<1>2. /\ ms \in Seq(Message) /\ Len(ms) \in Nat /\ DOMAIN ms = 1..Len(ms)
  BY LenProperties DEF History
<1>3. n \in Seq(Message)
  BY <1>2, ExceptSeq
<1>4. DOMAIN n = DOMAIN ms /\ n[k] = m /\ \A i \in DOMAIN ms : i # k => n[i] = ms[i]
  BY <1>2
<1>5. \A i \in DOMAIN n : Whole(n[i], old)
  BY <1>4 DEF History
<1>6. \A i, j \in DOMAIN n : i # j => Apart(n[i], n[j])
  BY <1>4 DEF History
<1>7. QED BY <1>3, <1>5, <1>6 DEF History

-----------------------------------------------------------------------------
(* The transactions on the history.                                          *)

\* A part is filed once, and in one message.
LEMMA FiledKeeps ==
  ASSUME NEW old, History(messages, old), NEW p \in Pdus
  PROVE  History(Filed(p), old)
<1> DEFINE groups == {i \in DOMAIN messages : Joins(messages[i], p)}
<1>1. /\ messages \in Seq(Message) /\ Len(messages) \in Nat /\ DOMAIN messages = 1..Len(messages)
      /\ \A i \in DOMAIN messages : messages[i] \in Message
  BY LenProperties, ElementOfSeq DEF History
<1>2. p.text \in Texts /\ p.text \notin Records
  BY PduIs, ImportAssumption
<1>3. CASE Stored(p)
  BY <1>3 DEF Filed
<1>4. CASE ~Stored(p)
  <2>1. \A i \in DOMAIN messages : p \notin messages[i].parts
    BY <1>4 DEF Stored
  <2>2. CASE groups = {}
    <3> DEFINE m == Grown(Opened(p.text), p)
    <3>1. /\ Opened(p.text) \in Message /\ Opened(p.text).text = p.text
          /\ Opened(p.text).parts = {} /\ Whole(Opened(p.text), old)
      BY <1>2, OpenedWhole
    <3>2. Near(Opened(p.text).text, p.text)
      BY <1>2, <3>1, NearSelf
    <3>3. m \in Message /\ m.text = p.text /\ m.parts = {p} /\ Whole(m, old)
      <4>1. \A q \in Opened(p.text).parts : q.part # p.part
        BY <3>1
      <4>2. PICK o : o = Opened(p.text)
        OBVIOUS
      <4>3. o.text \in Texts
        BY <4>2, <3>1, <1>2
      <4>4. Grown(o, p) \in Message /\ Grown(o, p).text = o.text
            /\ Grown(o, p).parts = o.parts \cup {p} /\ Whole(Grown(o, p), old)
        BY <3>1, <3>2, <4>1, <4>2, <4>3, GrownWhole
      <4>5. QED BY <4>2, <4>4, <3>1
    <3> HIDE DEF m
    <3>4. \A i \in DOMAIN messages : Apart(messages[i], m) /\ Apart(m, messages[i])
      BY <3>3, <2>1, <1>2 DEF Apart
    <3>5. Filed(p) = Append(messages, m)
      BY <1>4, <2>2 DEF Filed, Grouped, m
    <3>6. QED BY <3>3, <3>4, <3>5, AppendKeeps
  <2>3. CASE groups # {}
    <3>1. PICK k : k = Max(groups)
      OBVIOUS
    <3>2. k \in groups
      <4>1. groups \in SUBSET (1..Len(messages))
        BY <1>1
      <4> HIDE DEF groups
      <4>2. QED BY <1>1, <2>3, <3>1, <4>1, MaxIn
    <3>3. k \in DOMAIN messages /\ Joins(messages[k], p)
      BY <3>2
    <3>4. PICK m : m = messages[k]
      OBVIOUS
    <3>5. /\ m \in Message /\ Whole(m, old) /\ ~m.done /\ Near(m.text, p.text)
          /\ \A q \in m.parts : q.part # p.part
      BY <1>1, <3>3, <3>4 DEF History, Joins
    <3>6. m.text \in Texts
      BY <3>5 DEF Whole, Message
    <3>7. PICK g : g = Grown(m, p)
      OBVIOUS
    <3>8. g \in Message /\ g.text = m.text /\ g.parts = m.parts \cup {p} /\ Whole(g, old)
      BY <3>5, <3>6, <3>7, GrownWhole
    <3>9. m.text \notin Records
      BY <3>6, ImportAssumption
    <3>10. \A i \in DOMAIN messages : i # k => Apart(messages[i], g) /\ Apart(g, messages[i])
      <4>1. ASSUME NEW i \in DOMAIN messages, i # k
            PROVE  Apart(messages[i], g) /\ Apart(g, messages[i])
        <5>1. Apart(messages[i], m)
          BY <4>1, <3>3, <3>4 DEF History
        <5>2. QED BY <5>1, <2>1, <3>8, <3>9 DEF Apart
      <4>2. QED BY <4>1
    <3>11. Filed(p) = [messages EXCEPT ![k] = g]
      BY <1>4, <2>3, <3>1, <3>4, <3>7 DEF Filed, Grouped
    <3>12. QED BY <3>3, <3>8, <3>10, <3>11, ReplaceKeeps
  <2>4. QED BY <2>2, <2>3
<1>5. QED BY <1>3, <1>4

\* A message leaves with its parts.
LEMMA DeleteKeeps ==
  ASSUME NEW old, History(messages, old), NEW k \in DOMAIN messages
  PROVE  History(RemoveAt(messages, k), old)
<1>1. messages \in Seq(Message) /\ Len(messages) \in Nat /\ DOMAIN messages = 1..Len(messages)
  BY LenProperties DEF History
<1>2. PICK r : r = RemoveAt(messages, k)
  OBVIOUS
<1>3. /\ r \in Seq(Message) /\ DOMAIN r = 1..(Len(messages) - 1)
      /\ \A i \in DOMAIN r : r[i] = messages[IF i < k THEN i ELSE i + 1]
  BY <1>1, <1>2, RemovedAt
<1>4. \A i \in DOMAIN r : (IF i < k THEN i ELSE i + 1) \in DOMAIN messages
  BY <1>1, <1>3
<1>5. \A i \in DOMAIN r : Whole(r[i], old)
  BY <1>3, <1>4 DEF History
<1>6. \A i, j \in DOMAIN r : i # j => Apart(r[i], r[j])
  <2>1. ASSUME NEW i \in DOMAIN r, NEW j \in DOMAIN r, i # j
        PROVE  Apart(r[i], r[j])
    <3> DEFINE a == IF i < k THEN i ELSE i + 1
               b == IF j < k THEN j ELSE j + 1
    <3>1. a # b
      BY <1>1, <1>3, <2>1
    <3>2. a \in DOMAIN messages /\ b \in DOMAIN messages /\ r[i] = messages[a] /\ r[j] = messages[b]
      BY <1>3, <1>4
    <3> HIDE DEF a, b
    <3>3. QED BY <3>1, <3>2 DEF History
  <2>2. QED BY <2>1
<1>7. QED BY <1>2, <1>3, <1>5, <1>6 DEF History

\* The records of a document are put in an order, each once.
LEMMA Ordered ==
  ASSUME NEW S, IsFiniteSet(S)
  PROVE  LET o == SetToSeq(S)
         IN  /\ o \in Seq(S) /\ Cardinality(S) \in Nat
             /\ \A i, j \in DOMAIN o : i # j => o[i] # o[j]
<1>1. Cardinality(S) \in Nat /\ \E f : f \in Bijection(1..Cardinality(S), S)
  BY FS_CardinalityType DEF ExistsBijection
<1>2. \E f \in [1..Cardinality(S) -> S] : IsInjective(f)
  BY <1>1 DEF Bijection, Injection
<1>3. PICK o : o = SetToSeq(S)
  OBVIOUS
<1>4. o \in [1..Cardinality(S) -> S] /\ IsInjective(o)
  BY <1>2, <1>3 DEF SetToSeq
<1>5. o \in Seq(S)
  BY <1>1, <1>4, IsASeq
<1>6. QED BY <1>1, <1>3, <1>4, <1>5 DEF IsInjective

\* A document adds the records that no earlier one had, each once.
LEMMA LegacyKeeps ==
  ASSUME History(messages, legacy), legacy \subseteq Records,
         NEW document \in SUBSET Records, ImportLegacy(document)
  PROVE  History(messages', legacy') /\ legacy' \subseteq Records
<1> DEFINE Old(r) == [text |-> r, parts |-> {}, done |-> TRUE]
<1>1. PICK fresh : fresh = document \ legacy
  OBVIOUS
<1>2. PICK order : order = SetToSeq(fresh)
  OBVIOUS
<1>3. PICK new : new = [k \in DOMAIN order |-> Old(order[k])]
  OBVIOUS
<1>4. legacy' = legacy \cup fresh /\ messages' = messages \o new
  BY <1>1, <1>2, <1>3 DEF ImportLegacy
<1>5. fresh \subseteq Records /\ fresh \cap legacy = {}
  BY <1>1
<1>6. /\ order \in Seq(fresh) /\ Cardinality(fresh) \in Nat
      /\ \A i, j \in DOMAIN order : i # j => order[i] # order[j]
  <2>1. IsFiniteSet(fresh)
    BY <1>5, ImportAssumption, FS_Subset
  <2>2. QED BY <1>2, <2>1, Ordered
<1>7. Len(order) \in Nat /\ DOMAIN order = 1..Len(order) /\ \A k \in DOMAIN order : order[k] \in fresh
  BY <1>6, LenProperties, ElementOfSeq
<1>8. \A k \in DOMAIN order : /\ Old(order[k]) \in Message
                              /\ Old(order[k]).text = order[k] /\ Old(order[k]).parts = {}
                              /\ Old(order[k]).done = TRUE
  BY <1>5, <1>7 DEF Message
<1>9. \A k \in DOMAIN order : new[k] = Old(order[k])
  BY <1>3
<1> HIDE DEF Old
<1>10. new \in Seq(Message) /\ Len(new) = Len(order)
  <2>1. new = [k \in 1..Len(order) |-> Old(order[k])]
    BY <1>3, <1>7
  <2>2. new \in [1..Len(order) -> Message]
    BY <2>1, <1>7, <1>8
  <2>3. QED BY <2>2, <1>7
<1>11. \A k \in DOMAIN order : /\ new[k].text = order[k] /\ new[k].text \in fresh
                               /\ new[k].parts = {} /\ new[k].done
  BY <1>7, <1>8, <1>9
<1>12. /\ messages \in Seq(Message) /\ Len(messages) \in Nat /\ DOMAIN messages = 1..Len(messages)
       /\ \A i \in DOMAIN messages : Whole(messages[i], legacy)
  BY LenProperties DEF History
<1>13. /\ messages' \in Seq(Message) /\ Len(messages') = Len(messages) + Len(order)
       /\ \A i \in 1..(Len(messages) + Len(order)) :
            messages'[i] = IF i <= Len(messages) THEN messages[i] ELSE new[i - Len(messages)]
  <2>1. PICK all : all = messages \o new
    OBVIOUS
  <2>2. /\ all \in Seq(Message) /\ Len(all) = Len(messages) + Len(new)
        /\ \A i \in 1..(Len(messages) + Len(new)) :
             all[i] = IF i <= Len(messages) THEN messages[i] ELSE new[i - Len(messages)]
    BY <1>10, <1>12, <2>1, ConcatProperties
  <2>3. QED BY <1>4, <1>10, <2>1, <2>2
<1>14. DOMAIN messages' = 1..(Len(messages) + Len(order))
  BY <1>13, LenProperties
<1>15. \A i \in DOMAIN messages' :
         \/ i \in DOMAIN messages /\ messages'[i] = messages[i]
         \/ i - Len(messages) \in DOMAIN order /\ messages'[i] = new[i - Len(messages)]
  BY <1>7, <1>12, <1>13, <1>14
<1>16. \A i \in DOMAIN messages' : Whole(messages'[i], legacy')
  <2>1. ASSUME NEW i \in DOMAIN messages' PROVE Whole(messages'[i], legacy')
    <3>1. CASE i \in DOMAIN messages /\ messages'[i] = messages[i]
      BY <3>1, <1>4, <1>12 DEF Whole
    <3>2. CASE i - Len(messages) \in DOMAIN order /\ messages'[i] = new[i - Len(messages)]
      <4>1. PICK k \in DOMAIN order : messages'[i] = new[k]
        BY <3>2
      <4>2. new[k].text \in fresh /\ new[k].parts = {} /\ new[k].done
        BY <1>11
      <4>3. new[k].text \in Records /\ new[k].text \notin Texts
        BY <4>2, <1>5, ImportAssumption
      <4>4. QED BY <4>1, <4>2, <4>3, <1>4 DEF Whole
    <3>3. QED BY <3>1, <3>2, <1>15
  <2>2. QED BY <2>1
<1>17. \A i \in DOMAIN messages, k \in DOMAIN order : Apart(messages[i], new[k]) /\ Apart(new[k], messages[i])
  <2>1. ASSUME NEW i \in DOMAIN messages, NEW k \in DOMAIN order
        PROVE  messages[i].text # new[k].text
    <3>1. messages[i].text \in Records => messages[i].text \in legacy
      BY <1>12 DEF Whole
    <3>2. QED BY <3>1, <1>5, <1>11
  <2>2. QED BY <2>1, <1>11 DEF Apart
<1>18. \A k, l \in DOMAIN order : k # l => Apart(new[k], new[l])
  BY <1>6, <1>11 DEF Apart
<1>19. \A i, j \in DOMAIN messages' : i # j => Apart(messages'[i], messages'[j])
  <2>1. ASSUME NEW i \in DOMAIN messages', NEW j \in DOMAIN messages', i # j
        PROVE  Apart(messages'[i], messages'[j])
    <3>1. CASE i \in DOMAIN messages /\ messages'[i] = messages[i]
      BY <3>1, <2>1, <1>15, <1>17 DEF History
    <3>2. CASE i - Len(messages) \in DOMAIN order /\ messages'[i] = new[i - Len(messages)]
      <4>1. CASE j \in DOMAIN messages /\ messages'[j] = messages[j]
        BY <3>2, <4>1, <1>17
      <4>2. CASE j - Len(messages) \in DOMAIN order /\ messages'[j] = new[j - Len(messages)]
        <5>1. i - Len(messages) # j - Len(messages)
          BY <2>1, <1>12, <1>14, <1>7
        <5>2. QED BY <3>2, <4>2, <5>1, <1>18
      <4>3. QED BY <4>1, <4>2, <1>15
    <3>3. QED BY <3>1, <3>2, <1>15
  <2>2. QED BY <2>1
<1>20. QED BY <1>4, <1>5, <1>13, <1>16, <1>19 DEF History

-----------------------------------------------------------------------------
(* Every step keeps the history and the types.                               *)

Counters == used \in [arrivals : 0..MaxArrivals, events : 0..MaxEvents]
Workers ==
  worker \in [mode : Modes, at : {"off", "sync", "import", "wait"},
              urc : {"none", "quiet", "pending", "closed"}]
Past == hist \in [missed : BOOLEAN, forgotten : SUBSET Pdus]

\* The inductive invariant.
ImportInv ==
  /\ History(messages, legacy) /\ legacy \subseteq Records
  /\ sim \in [Slots -> Pdus \cup {None}]
  /\ lists \in [Syncs -> Listings \cup {None}]
  /\ Workers /\ cfg \in Modes /\ Counters /\ Past

LEMMA InvImplies ==
  ASSUME ImportInv
  PROVE  TypeOK /\ HistoryIsSound
<1>1. TypeOK
  BY DEF ImportInv, History, Apart, TypeOK, Workers, Counters, Past
<1>2. HistoryIsSound
  BY DEF ImportInv, History, Whole, HistoryIsSound
<1>3. QED BY <1>1, <1>2

LEMMA InvInit ==
  ASSUME Init
  PROVE  ImportInv
<1>1. History(<<>>, {})
  BY DEF History
<1>2. sim \in [Slots -> Pdus \cup {None}] /\ lists \in [Syncs -> Listings \cup {None}]
  BY DEF Init
<1>3. Workers /\ cfg \in Modes /\ Past
  BY ImportAssumption DEF Init, Workers, Modes, NoWorker, Past
<1>4. Counters
  <2>1. 0 \in 0..MaxArrivals /\ 0 \in 0..MaxEvents
    BY ImportAssumption
  <2>2. QED BY <2>1 DEF Init, Counters
<1>5. QED BY <1>1, <1>2, <1>3, <1>4 DEF Init, ImportInv

LEMMA Counted ==
  ASSUME Counters, Event
  PROVE  Counters'
<1>1. used.events + 1 \in 0..MaxEvents
  BY ImportAssumption DEF Counters, Event
<1>2. QED BY <1>1 DEF Counters, Event

LEMMA ListTypes ==
  ASSUME ImportInv
  PROVE  /\ Listing \in Listings
         /\ \A s \in Syncs : lists[s] # None =>
              /\ Left(s) \subseteq Slots /\ lists[s] \in [Left(s) -> Pdus]
<1>1. {j \in Slots : sim[j] # None} \in SUBSET Slots
  OBVIOUS
<1>2. Listing \in [{j \in Slots : sim[j] # None} -> Pdus]
  BY DEF Listing, ImportInv
<1>3. Listing \in Listings
  BY <1>1, <1>2 DEF Listings
<1>4. ASSUME NEW s \in Syncs, lists[s] # None
      PROVE  Left(s) \subseteq Slots /\ lists[s] \in [Left(s) -> Pdus]
  <2>1. lists[s] \in Listings
    BY <1>4 DEF ImportInv
  <2>2. PICK I \in SUBSET Slots : lists[s] \in [I -> Pdus]
    BY <2>1 DEF Listings
  <2>3. QED BY <2>2 DEF Left
<1>5. QED BY <1>3, <1>4

LEMMA ReadKeeps ==
  ASSUME ImportInv, NEW s \in Syncs, Read(s)
  PROVE  /\ History(messages', legacy') /\ legacy' \subseteq Records
         /\ sim' \in [Slots -> Pdus \cup {None}] /\ lists' \in [Syncs -> Listings \cup {None}]
         /\ cfg' \in Modes
<1>1. UNCHANGED <<sim, messages, legacy, cfg>> /\ lists' = [lists EXCEPT ![s] = Listing]
  BY DEF Read
<1>2. Listing \in Listings /\ lists \in [Syncs -> Listings \cup {None}]
  BY ListTypes DEF ImportInv
<1>3. lists' \in [Syncs -> Listings \cup {None}]
  BY <1>1, <1>2
<1>4. QED BY <1>1, <1>3 DEF ImportInv

LEMMA SyncKeeps ==
  ASSUME ImportInv, NEW s \in Syncs, Import(s) \/ Finish(s) \/ ImportFail(s)
  PROVE  ImportInv'
<1>1. CASE Import(s)
  <2>1. PICK i \in Left(s) : /\ messages' = Filed(lists[s][i])
                             /\ lists' = [lists EXCEPT ![s] = Restrict(@, Left(s) \ {i})]
    BY <1>1 DEF Import
  <2>2. UNCHANGED <<sim, legacy, worker, cfg, used, hist>> /\ lists[s] # None
    BY <1>1 DEF Import
  <2>3. Left(s) \subseteq Slots /\ lists[s] \in [Left(s) -> Pdus]
    BY <2>2, ListTypes
  <2>4. lists[s][i] \in Pdus
    BY <2>3
  <2>5. History(messages', legacy')
    BY <2>1, <2>2, <2>4, FiledKeeps DEF ImportInv
  <2>6. Restrict(lists[s], Left(s) \ {i}) \in Listings
    <3>1. Left(s) \ {i} \in SUBSET Slots /\ Restrict(lists[s], Left(s) \ {i}) \in [Left(s) \ {i} -> Pdus]
      BY <2>3 DEF Restrict
    <3>2. QED BY <3>1 DEF Listings
  <2>7. lists' \in [Syncs -> Listings \cup {None}]
    BY <2>1, <2>6 DEF ImportInv
  <2>8. QED BY <2>2, <2>5, <2>7 DEF ImportInv, Workers, Counters, Past
<1>2. CASE Finish(s)
  <2>1. lists' = [lists EXCEPT ![s] = None] /\ UNCHANGED <<sim, messages, legacy, cfg, used, hist>>
    BY <1>2 DEF Finish
  <2>2. lists' \in [Syncs -> Listings \cup {None}]
    BY <2>1 DEF ImportInv
  <2>3. Workers'
    BY <1>2 DEF Finish, ImportInv, Workers
  <2>4. QED BY <2>1, <2>2, <2>3 DEF ImportInv, Counters, Past
<1>3. CASE ImportFail(s)
  <2>1. /\ lists' = [lists EXCEPT ![s] = None] /\ UNCHANGED <<sim, messages, legacy, cfg, hist>>
        /\ Event
    BY <1>3 DEF ImportFail
  <2>2. lists' \in [Syncs -> Listings \cup {None}]
    BY <2>1 DEF ImportInv
  <2>3. Workers'
    BY <1>3 DEF ImportFail, ImportInv, Workers, NewWorker
  <2>4. Counters'
    BY <2>1, Counted DEF ImportInv
  <2>5. QED BY <2>1, <2>2, <2>3, <2>4 DEF ImportInv, Past
<1>4. QED BY <1>1, <1>2, <1>3

LEMMA WorkerKeeps ==
  ASSUME ImportInv, Supervise \/ Worker \/ WorkerReadFail
  PROVE  ImportInv'
<1>1. CASE Supervise
  <2>1. UNCHANGED <<sim, messages, legacy, cfg, used, hist>>
    BY <1>1 DEF Supervise
  <2>2. Workers'
    BY <1>1 DEF Supervise, ImportInv, Workers, NewWorker, NoWorker, Modes, Served
  <2>3. lists' \in [Syncs -> Listings \cup {None}]
    BY <1>1 DEF Supervise, ImportInv, Syncs
  <2>4. QED BY <2>1, <2>2, <2>3 DEF ImportInv, Counters, Past
<1>2. CASE Setup \/ Wait
  <2>1. UNCHANGED <<sim, messages, legacy, lists, cfg, used, hist>>
    BY <1>2 DEF Setup, Wait
  <2>2. Workers'
    BY <1>2 DEF Setup, Wait, ImportInv, Workers
  <2>3. QED BY <2>1, <2>2 DEF ImportInv, Counters, Past
<1>3. CASE WorkerRead
  <2>1. Read("worker") /\ "worker" \in Syncs /\ UNCHANGED used
    BY <1>3 DEF WorkerRead, Syncs
  <2>2. Workers' /\ Past'
    BY <1>3 DEF WorkerRead, ImportInv, Workers, Past
  <2>3. /\ History(messages', legacy') /\ legacy' \subseteq Records
        /\ sim' \in [Slots -> Pdus \cup {None}] /\ lists' \in [Syncs -> Listings \cup {None}]
        /\ cfg' \in Modes
    BY <2>1, ReadKeeps
  <2>4. QED BY <2>1, <2>2, <2>3 DEF ImportInv, Counters
<1>4. CASE WorkerReadFail
  <2>1. Event /\ UNCHANGED <<sim, messages, legacy, lists, cfg, hist>>
    BY <1>4 DEF WorkerReadFail
  <2>2. Workers'
    BY <1>4 DEF WorkerReadFail, ImportInv, Workers
  <2>3. Counters'
    BY <2>1, Counted DEF ImportInv
  <2>4. QED BY <2>1, <2>2, <2>3 DEF ImportInv, Past
<1>5. QED BY <1>1, <1>2, <1>3, <1>4 DEF Worker

LEMMA ModemKeeps ==
  ASSUME ImportInv, (\E p \in Pdus : Arrive(p)) \/ Close
  PROVE  ImportInv'
<1>1. ASSUME NEW p \in Pdus, Arrive(p) PROVE ImportInv'
  <2>1. UNCHANGED <<messages, legacy, lists, cfg>>
    BY <1>1 DEF Arrive
  <2>2. sim' \in [Slots -> Pdus \cup {None}]
    BY <1>1 DEF Arrive, ImportInv
  <2>3. PICK kept : kept = [hist EXCEPT !.forgotten = @ \ {p}]
    OBVIOUS
  <2>4. kept \in [missed : BOOLEAN, forgotten : SUBSET Pdus]
    BY <2>3 DEF ImportInv, Past
  <2>5. Past' /\ Workers'
    <3>1. CASE worker.urc # "quiet"
      BY <1>1, <2>3, <2>4, <3>1 DEF Arrive, ImportInv, Past, Workers
    <3>2. CASE worker' = [worker EXCEPT !.urc = "pending"] /\ hist' = kept
      BY <2>4, <3>2 DEF ImportInv, Past, Workers
    <3>3. CASE hist' = [kept EXCEPT !.missed = TRUE] /\ UNCHANGED worker
      BY <2>4, <3>3 DEF ImportInv, Past, Workers
    <3>4. QED BY <1>1, <2>3, <3>1, <3>2, <3>3 DEF Arrive
  <2>6. Counters'
    <3>1. used.arrivals < MaxArrivals /\ used' = [used EXCEPT !.arrivals = @ + 1] /\ Counters
      BY <1>1 DEF Arrive, ImportInv
    <3>2. used.arrivals + 1 \in 0..MaxArrivals
      BY <3>1, ImportAssumption DEF Counters
    <3>3. QED BY <3>1, <3>2 DEF Counters
  <2>7. QED BY <2>1, <2>2, <2>5, <2>6 DEF ImportInv
<1>2. CASE Close
  <2>1. Event /\ UNCHANGED <<sim, messages, legacy, lists, cfg, hist>>
    BY <1>2 DEF Close
  <2>2. Workers'
    BY <1>2 DEF Close, ImportInv, Workers
  <2>3. Counters'
    BY <2>1, Counted DEF ImportInv
  <2>4. QED BY <2>1, <2>2, <2>3 DEF ImportInv, Past
<1>3. QED BY <1>1, <1>2

LEMMA ClientKeeps ==
  ASSUME ImportInv,
         \/ ClientSync \/ (\E i \in DOMAIN messages : Delete(i))
         \/ (\E i \in Slots : DeleteSim(i)) \/ (\E document \in SUBSET Records : ImportLegacy(document))
  PROVE  ImportInv'
<1>1. CASE ClientSync
  <2>1. Event /\ Read("client") /\ "client" \in Syncs /\ UNCHANGED <<worker, hist>>
    BY <1>1 DEF ClientSync, Syncs
  <2>2. /\ History(messages', legacy') /\ legacy' \subseteq Records
        /\ sim' \in [Slots -> Pdus \cup {None}] /\ lists' \in [Syncs -> Listings \cup {None}]
        /\ cfg' \in Modes
    BY <2>1, ReadKeeps
  <2>3. Counters'
    BY <2>1, Counted DEF ImportInv
  <2>4. QED BY <2>1, <2>2, <2>3 DEF ImportInv, Workers, Past
<1>2. ASSUME NEW i \in DOMAIN messages, Delete(i) PROVE ImportInv'
  <2>1. /\ Event /\ messages' = RemoveAt(messages, i) /\ UNCHANGED <<sim, legacy, lists, worker, cfg>>
        /\ hist' = [hist EXCEPT !.forgotten = @ \cup messages[i].parts]
    BY <1>2 DEF Delete
  <2>2. History(messages', legacy')
    BY <2>1, DeleteKeeps DEF ImportInv
  <2>3. messages[i].parts \subseteq Pdus
    <3>1. messages[i] \in Message
      BY ElementOfSeq, LenProperties DEF ImportInv, History
    <3>2. QED BY <3>1 DEF Message
  <2>4. Past'
    BY <2>1, <2>3 DEF ImportInv, Past
  <2>5. Counters'
    BY <2>1, Counted DEF ImportInv
  <2>6. QED BY <2>1, <2>2, <2>4, <2>5 DEF ImportInv, Workers
<1>3. ASSUME NEW i \in Slots, DeleteSim(i) PROVE ImportInv'
  <2>1. /\ Event /\ sim' = [sim EXCEPT ![i] = None]
        /\ UNCHANGED <<messages, legacy, lists, worker, cfg, hist>>
    BY <1>3 DEF DeleteSim
  <2>2. sim' \in [Slots -> Pdus \cup {None}]
    BY <2>1 DEF ImportInv
  <2>3. Counters'
    BY <2>1, Counted DEF ImportInv
  <2>4. QED BY <2>1, <2>2, <2>3 DEF ImportInv, Workers, Past
<1>4. ASSUME NEW document \in SUBSET Records, ImportLegacy(document) PROVE ImportInv'
  <2>1. Event /\ UNCHANGED <<sim, lists, worker, cfg, hist>>
    BY <1>4 DEF ImportLegacy
  <2>2. History(messages', legacy') /\ legacy' \subseteq Records
    BY <1>4, LegacyKeeps DEF ImportInv
  <2>3. Counters'
    BY <2>1, Counted DEF ImportInv
  <2>4. QED BY <2>1, <2>2, <2>3 DEF ImportInv, Workers, Past
<1>5. QED BY <1>1, <1>2, <1>3, <1>4

LEMMA DaemonKeeps ==
  ASSUME ImportInv, Edit \/ Crash
  PROVE  ImportInv'
<1>1. CASE Edit
  <2>1. Event /\ cfg' \in Modes /\ UNCHANGED <<sim, messages, legacy, lists, worker, hist>>
    BY <1>1 DEF Edit
  <2>2. Counters'
    BY <2>1, Counted DEF ImportInv
  <2>3. QED BY <2>1, <2>2 DEF ImportInv, Workers, Past
<1>2. CASE Crash
  <2>1. /\ Event /\ lists' = [s \in Syncs |-> None] /\ worker' = NoWorker
        /\ UNCHANGED <<sim, messages, legacy, cfg, hist>>
    BY <1>2 DEF Crash
  <2>2. lists' \in [Syncs -> Listings \cup {None}]
    BY <2>1
  <2>3. Workers'
    BY <2>1 DEF Workers, NoWorker, Modes
  <2>4. Counters'
    BY <2>1, Counted DEF ImportInv
  <2>5. QED BY <2>1, <2>2, <2>3, <2>4 DEF ImportInv, Past
<1>3. QED BY <1>1, <1>2

LEMMA StepKeeps ==
  ASSUME ImportInv, [Next]_vars
  PROVE  ImportInv'
<1>1. CASE Next
  BY <1>1, SyncKeeps, WorkerKeeps, ModemKeeps, ClientKeeps, DaemonKeeps DEF Next
<1>2. CASE UNCHANGED vars
  BY <1>2 DEF vars, ImportInv, Workers, Counters, Past
<1>3. QED BY <1>1, <1>2

\* No PDU and no record of an old history is ever in two messages of the history, however many
\* imports run at once, fail, are aborted or are repeated: insert_received looks for the PDU and
\* the group in the transaction that files the part, and the migration for the record.
THEOREM TypeCorrect == Spec => []TypeOK
<1>1. Spec => []ImportInv
  BY InvInit, StepKeeps, PTL DEF Spec
<1>2. QED BY <1>1, InvImplies, PTL

\* A message is reported as received if and only if the history has every part of it, once each,
\* and its parts are of texts that can be taken for one.
THEOREM HistorySound == Spec => []HistoryIsSound
<1>1. Spec => []ImportInv
  BY InvInit, StepKeeps, PTL DEF Spec
<1>2. QED BY <1>1, InvImplies, PTL
=============================================================================
