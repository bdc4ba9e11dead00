--------------------------- MODULE SmsSendProofs ---------------------------
(***************************************************************************)
(* Proofs about SmsSend, for any sets of calls, deletes and requests, any  *)
(* number of parts, ids and crashes, with a database that may fail.        *)
(***************************************************************************)
EXTENDS SmsSend, TLAPS

Active == {"attempt", "finish"}
Tried(c) == call[c].at \in Active \/ accepted[c] > 0

\* The unique index messages_request: one row for a request.
KeyUnique ==
  \A i, k \in Ids : rows[i] # NoRow /\ rows[k] # NoRow /\ rows[i].req = rows[k].req => i = k

\* A request somebody tried has its row, or had it deleted.
TriedIsRecorded ==
  \A c \in Calls : Tried(c) /\ call[c].req \notin erased.reqs => Recorded(call[c].req) # {}

OneTry ==
  \A c, d \in Calls :
    c # d /\ call[c].req = call[d].req /\ Tried(c) /\ Tried(d) => call[c].req \in erased.reqs

\* The row of a call that has not answered yet is the one it found or inserted.
HasRow ==
  \A c \in Calls :
    call[c].at \in Active \cup {"fetch"}
    /\ (call[c].id \notin erased.ids \/ (call[c].at \in Active /\ call[c].req \notin erased.reqs))
      => /\ call[c].id \in Ids /\ rows[call[c].id] # NoRow
         /\ rows[call[c].id].req = call[c].req /\ rows[call[c].id].body = call[c].body

HasId == \A c \in Calls : call[c].at \in Active \cup {"fetch"} => call[c].id \in Ids

OneOwner ==
  \A c, d \in Calls :
    c # d /\ call[c].at \in Active /\ call[d].at \in Active /\ call[c].id = call[d].id
      => call[c].id \in erased.ids

ActiveIsSending ==
  \A c \in Calls :
    call[c].at \in Active /\ call[c].id \notin erased.ids => rows[call[c].id].status = "sending"

OutcomeFits ==
  \A c \in Calls :
    call[c].at = "finish" => /\ call[c].outcome \in Resolved
                             /\ call[c].outcome = "submitted" => accepted[c] = Parts
                             /\ call[c].outcome = "failed" => accepted[c] < Parts

DelBound == \A d \in Deletes : del[d].at = "checked" => del[d].id \in Ids

DownIsIdle == ~daemon.up => \A c \in Calls : call[c].at \notin Live

Keys   == KeyUnique /\ TriedIsRecorded /\ OneTry
Owners == HasId /\ HasRow /\ OneOwner /\ ActiveIsSending /\ OutcomeFits
Told   == StatusTruthful /\ AnswerMatches /\ SendingIsOwned

SendInv == TypeOK /\ DelBound /\ DownIsIdle /\ Keys /\ Owners /\ Told

\* What the updates of a call's record do to its fields.
SameBut(n, r) == n \in CallSet /\ n.req = r.req /\ n.body = r.body

LEMMA EditAt ==
  ASSUME NEW r \in CallSet, NEW a \in Places, NEW n, n = [r EXCEPT !.at = a]
  PROVE  SameBut(n, r) /\ n.at = a /\ n.id = r.id /\ n.outcome = r.outcome /\ n.answer = r.answer
BY DEF CallSet, SameBut

LEMMA EditStatus ==
  ASSUME NEW w \in Row, NEW s \in Resolved, NEW n, n = [w EXCEPT !.status = s]
  PROVE  n \in Row /\ n.req = w.req /\ n.body = w.body /\ n.status = s
BY DEF Row

LEMMA NewRow ==
  ASSUME NEW r \in Requests, NEW b \in Bodies, NEW n, n = [req |-> r, body |-> b, status |-> "sending"]
  PROVE  n \in Row /\ n.req = r /\ n.body = b /\ n.status = "sending"
BY DEF Row

\* What every step of call c leaves of the table of calls.
Kept(c) ==
  /\ call' \in [Calls -> CallSet]
  /\ \A d \in Calls : call'[d].req = call[d].req /\ call'[d].body = call[d].body
  /\ \A d \in Calls : d # c => call'[d] = call[d]

To(c, at) == Kept(c) /\ call'[c].at = at

LEMMA OneCall ==
  ASSUME TypeOK, NEW c \in Calls, NEW n, SameBut(n, call[c]), call' = [call EXCEPT ![c] = n]
  PROVE  Kept(c) /\ call'[c] = n
BY DEF TypeOK, Kept, SameBut

LEMMA SendEffect ==
  ASSUME TypeOK, NEW c \in Calls, Send(c)
  PROVE  To(c, "begin") /\ call'[c].answer = call[c].answer
<1> DEFINE n == [call[c] EXCEPT !.at = "begin"]
<1>1. call[c] \in CallSet /\ "begin" \in Places
  BY DEF TypeOK, Places, Live
<1>2. call' = [call EXCEPT ![c] = n]
  BY DEF Send, Goto
<1>3. SameBut(n, call[c]) /\ n.at = "begin" /\ n.id = call[c].id /\ n.answer = call[c].answer
  BY <1>1, EditAt
<1> HIDE DEF n
<1> QED BY <1>2, <1>3, OneCall DEF To

LEMMA BeginFreshEffect ==
  ASSUME TypeOK, NEW c \in Calls, BeginFresh(c)
  PROVE  /\ To(c, "attempt") /\ call'[c].answer = call[c].answer
         /\ \E i \in Ids, w \in Row :
              /\ rows[i] = NoRow /\ rows' = [rows EXCEPT ![i] = w] /\ call'[c].id = i
              /\ w.req = call[c].req /\ w.body = call[c].body /\ w.status = "sending"
         /\ rows' \in [Ids -> Row \cup {NoRow}]
<1>1. PICK i \in Ids : /\ NextRowid(i)
                       /\ rows' = [rows EXCEPT ![i] = [req |-> call[c].req, body |-> call[c].body, status |-> "sending"]]
                       /\ call' = [call EXCEPT ![c].at = "attempt", ![c].id = i]
  BY DEF BeginFresh
<1>2. call[c] \in CallSet /\ "attempt" \in Places /\ call[c].req \in Requests /\ call[c].body \in Bodies
  BY DEF TypeOK, Places, Live, CallSet
<1> DEFINE n == [call[c] EXCEPT !.at = "attempt", !.id = i]
<1>3. call' = [call EXCEPT ![c] = n]
  BY <1>1, <1>2 DEF TypeOK
<1>4. SameBut(n, call[c]) /\ n.at = "attempt" /\ n.id = i /\ n.answer = call[c].answer
  BY <1>2 DEF CallSet, SameBut
<1> HIDE DEF n
<1>5. To(c, "attempt") /\ call'[c].answer = call[c].answer /\ call'[c].id = i
  BY <1>3, <1>4, OneCall DEF To
<1>6. rows[i] = NoRow
  <2>1. i >= i
    BY SendAssumption DEF Ids
  <2>2. QED BY <1>1, <2>1 DEF NextRowid
<1> DEFINE w == [req |-> call[c].req, body |-> call[c].body, status |-> "sending"]
<1>7. w \in Row /\ w.req = call[c].req /\ w.body = call[c].body /\ w.status = "sending"
  BY <1>2, NewRow
<1>8. rows' = [rows EXCEPT ![i] = w]
  BY <1>1
<1> HIDE DEF w
<1>9. rows' \in [Ids -> Row \cup {NoRow}]
  BY <1>7, <1>8 DEF TypeOK
<1> QED BY <1>5, <1>6, <1>7, <1>8, <1>9

LEMMA BeginKnownEffect ==
  ASSUME TypeOK, NEW c \in Calls, BeginKnown(c)
  PROVE  \E i \in Recorded(call[c].req) :
           /\ Kept(c) /\ call'[c].id = i /\ call'[c].answer = call[c].answer
           /\ call'[c].at \in {"fetch", "refused"}
           /\ call'[c].at = "fetch" => rows[i].body = call[c].body
<1>1. PICK i \in Recorded(call[c].req) :
        call' = [call EXCEPT ![c].at = IF rows[i].body = call[c].body THEN "fetch" ELSE "refused",
                             ![c].id = i]
  BY DEF BeginKnown
<1> DEFINE a == IF rows[i].body = call[c].body THEN "fetch" ELSE "refused"
<1>2. call[c] \in CallSet /\ a \in Places /\ i \in Ids
  BY DEF TypeOK, Places, Live, Recorded
<1> DEFINE n == [call[c] EXCEPT !.at = a, !.id = i]
<1>3. call' = [call EXCEPT ![c] = n]
  BY <1>1, <1>2 DEF TypeOK
<1>4. a \in {"fetch", "refused"} /\ (a = "fetch" => rows[i].body = call[c].body)
  OBVIOUS
<1> HIDE DEF a
<1>5. SameBut(n, call[c]) /\ n.at = a /\ n.id = i /\ n.answer = call[c].answer
  BY <1>2 DEF CallSet, SameBut
<1> HIDE DEF n
<1>6. Kept(c) /\ call'[c].id = i /\ call'[c].at = a /\ call'[c].answer = call[c].answer
  BY <1>3, <1>5, OneCall
<1> QED BY <1>4, <1>6

LEMMA AttemptedEffect ==
  ASSUME TypeOK, NEW c \in Calls, Attempted(c)
  PROVE  /\ To(c, "finish") /\ call'[c].id = call[c].id /\ call'[c].answer = call[c].answer
         /\ call'[c].outcome \in Resolved
         /\ call'[c].outcome = "submitted" => accepted[c] = Parts
         /\ call'[c].outcome = "failed" => accepted[c] < Parts
<1>1. PICK o \in Resolved :
        /\ o = "submitted" => accepted[c] = Parts
        /\ o = "failed" => accepted[c] < Parts
        /\ call' = [call EXCEPT ![c].at = "finish", ![c].outcome = o]
  BY DEF Attempted
<1>2. call[c] \in CallSet /\ "finish" \in Places
  BY DEF TypeOK, Places, Live
<1> DEFINE n == [call[c] EXCEPT !.at = "finish", !.outcome = o]
<1>3. call' = [call EXCEPT ![c] = n]
  BY <1>1, <1>2 DEF TypeOK
<1>4. SameBut(n, call[c]) /\ n.at = "finish" /\ n.outcome = o /\ n.id = call[c].id /\ n.answer = call[c].answer
  BY <1>2 DEF CallSet, SameBut
<1> HIDE DEF n
<1> QED BY <1>1, <1>3, <1>4, OneCall DEF To

LEMMA FinishEffect ==
  ASSUME TypeOK, OutcomeFits, HasId, NEW c \in Calls, Finish(c)
  PROVE  /\ To(c, "fetch") /\ call'[c].id = call[c].id /\ call'[c].answer = call[c].answer
         /\ call[c].id \in Ids
         /\ rows' \in [Ids -> Row \cup {NoRow}]
         /\ \A i \in Ids : i # call[c].id \/ rows[i] = NoRow => rows'[i] = rows[i]
         /\ LET i == call[c].id
            IN rows[i] # NoRow => /\ rows'[i] # NoRow /\ rows'[i].req = rows[i].req
                                  /\ rows'[i].body = rows[i].body /\ rows'[i].status = call[c].outcome
<1>1. call[c] \in CallSet /\ "fetch" \in Places /\ call[c].id \in Ids /\ call[c].outcome \in Resolved
  BY DEF TypeOK, Places, Live, OutcomeFits, HasId, Finish, At, Active
<1> DEFINE n == [call[c] EXCEPT !.at = "fetch"]
<1>2. call' = [call EXCEPT ![c] = n]
  BY DEF Finish, Goto
<1>3. SameBut(n, call[c]) /\ n.at = "fetch" /\ n.id = call[c].id /\ n.answer = call[c].answer
  BY <1>1, EditAt
<1> HIDE DEF n
<1>4. To(c, "fetch") /\ call'[c].id = call[c].id /\ call'[c].answer = call[c].answer
  BY <1>2, <1>3, OneCall DEF To
<1>5. CASE rows[call[c].id] = NoRow
  BY <1>1, <1>4, <1>5 DEF Finish, TypeOK
<1>6. CASE rows[call[c].id] # NoRow
  <2> DEFINE w == [rows[call[c].id] EXCEPT !.status = call[c].outcome]
  <2>1. rows[call[c].id] \in Row
    BY <1>1, <1>6 DEF TypeOK
  <2>2. rows' = [rows EXCEPT ![call[c].id] = w]
    BY <1>1, <1>6 DEF Finish, TypeOK
  <2>3. w \in Row /\ w.req = rows[call[c].id].req /\ w.body = rows[call[c].id].body /\ w.status = call[c].outcome
    BY <1>1, <2>1, EditStatus
  <2> HIDE DEF w
  <2>4. rows' \in [Ids -> Row \cup {NoRow}] /\ w # NoRow
    BY <2>2, <2>3, SendAssumption DEF TypeOK
  <2>5. /\ \A i \in Ids : i # call[c].id => rows'[i] = rows[i]
        /\ rows'[call[c].id] = w
    BY <1>1, <2>2 DEF TypeOK
  <2>6. QED BY <1>1, <1>4, <1>6, <2>3, <2>4, <2>5
<1> QED BY <1>5, <1>6

LEMMA FetchEffect ==
  ASSUME TypeOK, HasId, NEW c \in Calls, Fetch(c)
  PROVE  /\ To(c, "done") /\ call'[c].id = call[c].id /\ call'[c].answer = rows[call[c].id]
         /\ call[c].id \in Ids /\ rows[call[c].id] # NoRow
<1>1. call[c] \in CallSet /\ "done" \in Places /\ call[c].id \in Ids /\ rows[call[c].id] \in Row
  BY DEF TypeOK, Places, HasId, Fetch, At
<1> DEFINE n == [call[c] EXCEPT !.at = "done", !.answer = rows[call[c].id]]
<1>2. call' = [call EXCEPT ![c] = n] /\ rows[call[c].id] # NoRow
  BY <1>1 DEF Fetch, TypeOK
<1>3. SameBut(n, call[c]) /\ n.at = "done" /\ n.id = call[c].id /\ n.answer = rows[call[c].id]
  BY <1>1 DEF CallSet, SameBut
<1> HIDE DEF n
<1> QED BY <1>1, <1>2, <1>3, OneCall DEF To

LEMMA DbErrorEffect ==
  ASSUME TypeOK, NEW c \in Calls, DbError(c)
  PROVE  To(c, "error") /\ call'[c].id = call[c].id /\ call'[c].answer = call[c].answer
<1> DEFINE n == [call[c] EXCEPT !.at = "error"]
<1>1. call[c] \in CallSet /\ "error" \in Places
  BY DEF TypeOK, Places, Live
<1>2. call' = [call EXCEPT ![c] = n]
  BY DEF DbError, Goto
<1>3. SameBut(n, call[c]) /\ n.at = "error" /\ n.id = call[c].id /\ n.answer = call[c].answer
  BY <1>1, EditAt
<1> HIDE DEF n
<1> QED BY <1>2, <1>3, OneCall DEF To

LEMMA KilledEffect ==
  ASSUME TypeOK, Killed
  PROVE  /\ call' \in [Calls -> CallSet] /\ ~daemon'.up /\ daemon' \in [up : BOOLEAN, crashes : Nat]
         /\ \A c \in Calls :
              /\ call'[c].req = call[c].req /\ call'[c].body = call[c].body /\ call'[c].id = call[c].id
              /\ call'[c].answer = call[c].answer
              /\ call'[c].at \notin Live /\ (call'[c].at = "done" => call[c].at = "done")
<1>1. \A c \in Calls : call[c] \in CallSet
  BY DEF TypeOK
<1>2. "lost" \in Places /\ "lost" \notin Live
  BY DEF Places, Live
<1>3. \A c \in Calls : call'[c] = IF call[c].at \in Live THEN [call[c] EXCEPT !.at = "lost"] ELSE call[c]
  BY DEF Killed
<1>4. ASSUME NEW c \in Calls
      PROVE  /\ SameBut(call'[c], call[c]) /\ call'[c].id = call[c].id /\ call'[c].answer = call[c].answer
             /\ call'[c].at \notin Live /\ (call'[c].at = "done" => call[c].at = "done")
  <2>1. CASE call[c].at \in Live
    <3> DEFINE n == [call[c] EXCEPT !.at = "lost"]
    <3>1. call'[c] = n
      BY <1>3, <2>1
    <3>2. SameBut(n, call[c]) /\ n.at = "lost" /\ n.id = call[c].id /\ n.answer = call[c].answer
      BY <1>1, <1>2, EditAt
    <3> HIDE DEF n
    <3>3. QED BY <1>2, <3>1, <3>2
  <2>2. CASE call[c].at \notin Live
    BY <1>1, <1>3, <2>2 DEF SameBut
  <2>3. QED BY <2>1, <2>2
<1>5. call' \in [Calls -> CallSet]
  BY <1>4 DEF Killed, SameBut
<1>6. ~daemon'.up /\ daemon' \in [up : BOOLEAN, crashes : Nat]
  BY DEF Killed, TypeOK
<1> QED BY <1>4, <1>5, <1>6 DEF SameBut

LEMMA RestartEffect ==
  ASSUME TypeOK, Restart
  PROVE  /\ rows' \in [Ids -> Row \cup {NoRow}] /\ daemon' \in [up : BOOLEAN, crashes : Nat]
         /\ \A i \in Ids :
              /\ rows'[i] = NoRow <=> rows[i] = NoRow
              /\ rows[i] # NoRow => /\ rows'[i].req = rows[i].req /\ rows'[i].body = rows[i].body
                                    /\ rows'[i].status # "sending"
                                    /\ rows[i].status # "sending" => rows'[i] = rows[i]
                                    /\ rows[i].status = "sending" => rows'[i].status = "unknown"
<1>1. \A i \in Ids : rows'[i] = IF rows[i] # NoRow /\ rows[i].status = "sending"
                                THEN [rows[i] EXCEPT !.status = "unknown"] ELSE rows[i]
  BY DEF Restart
<1>2. \A i \in Ids : rows[i] \in Row \cup {NoRow}
  BY DEF TypeOK
<1>3. ASSUME NEW i \in Ids
      PROVE  /\ rows'[i] \in Row \cup {NoRow}
             /\ rows'[i] = NoRow <=> rows[i] = NoRow
             /\ rows[i] # NoRow => /\ rows'[i].req = rows[i].req /\ rows'[i].body = rows[i].body
                                   /\ rows'[i].status # "sending"
                                   /\ rows[i].status # "sending" => rows'[i] = rows[i]
                                   /\ rows[i].status = "sending" => rows'[i].status = "unknown"
  <2>1. CASE rows[i] # NoRow /\ rows[i].status = "sending"
    <3>1. rows'[i] = [rows[i] EXCEPT !.status = "unknown"] /\ rows[i] \in Row /\ "unknown" \in Resolved
      BY <1>1, <1>2, <2>1 DEF Resolved
    <3>2. rows'[i] \in Row /\ rows'[i].req = rows[i].req /\ rows'[i].body = rows[i].body /\ rows'[i].status = "unknown"
      BY <3>1, EditStatus
    <3>3. QED BY <2>1, <3>2, SendAssumption
  <2>2. CASE rows[i] = NoRow \/ rows[i].status # "sending"
    BY <1>1, <1>2, <2>2
  <2>3. QED BY <2>1, <2>2
<1>4. rows' \in [Ids -> Row \cup {NoRow}]
  BY <1>3 DEF Restart
<1>5. daemon' \in [up : BOOLEAN, crashes : Nat]
  BY DEF Restart, TypeOK
<1> QED BY <1>3, <1>4, <1>5

LEMMA DeleteEffect ==
  ASSUME TypeOK, DelBound, NEW d \in Deletes, Delete(d)
  PROVE  /\ rows' \in [Ids -> Row \cup {NoRow}]
         /\ erased' \in [ids : SUBSET Ids, reqs : SUBSET Requests]
         /\ erased.ids \subseteq erased'.ids /\ erased.reqs \subseteq erased'.reqs
         /\ \A i \in Ids :
              /\ rows'[i] # rows[i] => /\ rows[i] # NoRow /\ rows'[i] = NoRow
                                       /\ i \in erased'.ids /\ rows[i].req \in erased'.reqs
         /\ del' \in [Deletes -> [at : {"idle", "checked", "done"}, id : Ids \cup {0}]]
<1> DEFINE i == del[d].id
<1>1. i \in Ids \cup {0} /\ erased \in [ids : SUBSET Ids, reqs : SUBSET Requests]
  BY DEF TypeOK
<1>2. rows' = [rows EXCEPT ![i] = NoRow]
  BY DEF Delete
<1>3. del' \in [Deletes -> [at : {"idle", "checked", "done"}, id : Ids \cup {0}]]
  BY DEF Delete, TypeOK
<1>4. erased' = IF rows[i] = NoRow THEN erased
                ELSE [ids |-> erased.ids \cup {i}, reqs |-> erased.reqs \cup {rows[i].req}]
  BY DEF Delete
<1>5. i \in Ids
  BY DEF Delete, DelBound
<1>6. CASE rows[i] = NoRow
  BY <1>1, <1>2, <1>3, <1>4, <1>5, <1>6 DEF TypeOK
<1>7. CASE rows[i] # NoRow
  <2>1. rows[i] \in Row /\ rows[i].req \in Requests
    BY <1>5, <1>7 DEF TypeOK, Row
  <2>2. /\ erased'.ids = erased.ids \cup {i} /\ erased'.reqs = erased.reqs \cup {rows[i].req}
        /\ erased' \in [ids : SUBSET Ids, reqs : SUBSET Requests]
    BY <1>1, <1>4, <1>5, <1>7, <2>1
  <2>3. rows' \in [Ids -> Row \cup {NoRow}]
    BY <1>2 DEF TypeOK
  <2>4. \A k \in Ids : rows'[k] = IF k = i THEN NoRow ELSE rows[k]
    BY <1>2, <1>5 DEF TypeOK
  <2>5. QED BY <1>3, <1>5, <1>7, <2>2, <2>3, <2>4
<1> QED BY <1>6, <1>7

-----------------------------------------------------------------------------
(* The invariant, one group of conjuncts and one action at a time.           *)

LEMMA InvInit == Init => SendInv
<1> SUFFICES ASSUME Init PROVE SendInv
  OBVIOUS
<1>1. \A r \in Requests, b \in Bodies :
        /\ [NewCall(r, b) EXCEPT !.at = "idle"] \in CallSet
        /\ [NewCall(r, b) EXCEPT !.at = "idle"].at = "idle"
  BY DEF NewCall, CallSet, Places
<1>2. call \in [Calls -> CallSet] /\ \A c \in Calls : call[c].at = "idle" /\ accepted[c] = 0
  <2>1. /\ call \in [Calls -> {[NewCall(r, b) EXCEPT !.at = "idle"] : r \in Requests, b \in Bodies}]
        /\ accepted = [c \in Calls |-> 0]
    BY DEF Init
  <2>2. ASSUME NEW n \in {[NewCall(r, b) EXCEPT !.at = "idle"] : r \in Requests, b \in Bodies}
        PROVE  n \in CallSet /\ n.at = "idle"
    <3>1. PICK r \in Requests, b \in Bodies : n = [NewCall(r, b) EXCEPT !.at = "idle"]
      OBVIOUS
    <3>2. QED BY <1>1, <3>1
  <2>3. QED BY <2>1, <2>2
<1>3. TypeOK
  BY <1>2, SendAssumption DEF Init, TypeOK
<1>4. \A i \in Ids : rows[i] = NoRow
  BY DEF Init
<1>5. DelBound
  BY DEF Init, DelBound
<1>6. \A c \in Calls : ~Tried(c) /\ call[c].at \notin Active \cup {"fetch", "done"}
  <2>1. \A c \in Calls : call[c].at = "idle" /\ accepted[c] = 0
    BY <1>2
  <2>2. \A c \in Calls : ~(accepted[c] > 0)
    <3>1. ~(0 > 0)
      OBVIOUS
    <3>2. QED BY <2>1, <3>1, Zenon
  <2>3. QED BY <2>1, <2>2 DEF Tried, Active
<1>7. Keys
  BY <1>4, <1>6 DEF Keys, KeyUnique, TriedIsRecorded, OneTry
<1>8. Owners
  BY <1>2, <1>6 DEF Owners, HasId, HasRow, OneOwner, ActiveIsSending, OutcomeFits, Active
<1>9. Told
  BY <1>2, <1>4, <1>6 DEF Told, StatusTruthful, AnswerMatches, SendingIsOwned
<1>10. DownIsIdle
  BY DEF Init, DownIsIdle
<1> QED BY <1>3, <1>5, <1>7, <1>8, <1>9, <1>10 DEF SendInv

LEMMA InvBeginFresh == ASSUME SendInv, NEW c \in Calls, BeginFresh(c) PROVE SendInv'
<1> USE DEF SendInv
<1>1. /\ UNCHANGED <<accepted, del, daemon, erased>>
      /\ Recorded(call[c].req) = {} /\ call[c].at = "begin"
  BY DEF BeginFresh, At
<1>2. To(c, "attempt") /\ call'[c].answer = call[c].answer /\ rows' \in [Ids -> Row \cup {NoRow}]
  BY BeginFreshEffect
<1>3. PICK i \in Ids, w \in Row :
        /\ rows[i] = NoRow /\ rows' = [rows EXCEPT ![i] = w] /\ call'[c].id = i
        /\ w.req = call[c].req /\ w.body = call[c].body /\ w.status = "sending"
  BY BeginFreshEffect
<1>4. /\ \A k \in Ids : k # i => rows'[k] = rows[k]
      /\ rows'[i] = w /\ w # NoRow
  BY <1>3, SendAssumption DEF TypeOK
<1>5. \A d \in Calls : d # c => call'[d] = call[d]
  BY <1>2 DEF To, Kept
<1>6. \A d \in Calls : call'[d].req = call[d].req /\ call'[d].body = call[d].body
  BY <1>2 DEF To, Kept
<1>7. call'[c].at = "attempt" /\ call' \in [Calls -> CallSet]
  BY <1>2 DEF To, Kept
<1>8. TypeOK'
  BY <1>1, <1>2, <1>7 DEF TypeOK
<1>9. DelBound'
  BY <1>1 DEF DelBound
<1>10. Keys'
  <2>1. KeyUnique'
    BY <1>1, <1>3, <1>4 DEF Keys, KeyUnique, Recorded
  <2>2. TriedIsRecorded'
    BY <1>1, <1>3, <1>4, <1>5, <1>6 DEF Keys, TriedIsRecorded, Tried, Recorded
  <2>3. \A d \in Calls : Tried(d)' /\ d # c => Tried(d)
    BY <1>1, <1>5 DEF Tried
  <2>4. \A d \in Calls : d # c /\ Tried(d) /\ call[d].req = call[c].req => call[c].req \in erased.reqs
    BY <1>1 DEF Keys, TriedIsRecorded
  <2>5. OneTry'
    BY <1>1, <1>6, <2>3, <2>4 DEF Keys, OneTry
  <2>6. QED BY <2>1, <2>2, <2>5 DEF Keys
<1>11. Owners'
  <2>1. HasId'
    BY <1>3, <1>5 DEF Owners, HasId
  <2>2. HasRow'
    BY <1>1, <1>3, <1>4, <1>5, <1>6 DEF Owners, HasRow
  <2>3. OneOwner'
    <3>1. \A d \in Calls : d # c /\ call[d].at \in Active /\ call[d].id = i => i \in erased.ids
      BY <1>3 DEF Owners, HasRow, Active
    <3>2. QED BY <1>1, <1>3, <1>5, <3>1 DEF Owners, OneOwner
  <2>4. ActiveIsSending'
    <3>1. \A d \in Calls : d # c /\ call[d].at \in Active /\ call[d].id \notin erased.ids => call[d].id # i /\ call[d].id \in Ids
      BY <1>3 DEF Owners, HasRow, Active
    <3>2. QED BY <1>1, <1>3, <1>4, <1>5, <3>1 DEF Owners, ActiveIsSending
  <2>5. OutcomeFits'
    BY <1>1, <1>5, <1>7 DEF Owners, OutcomeFits
  <2>6. QED BY <2>1, <2>2, <2>3, <2>4, <2>5 DEF Owners
<1>12. Told'
  <2>1. StatusTruthful'
    BY <1>1, <1>3, <1>4, <1>6 DEF Told, StatusTruthful
  <2>2. AnswerMatches'
    BY <1>1, <1>5, <1>6, <1>7 DEF Told, AnswerMatches
  <2>3. SendingIsOwned'
    BY <1>1, <1>3, <1>4, <1>5, <1>7 DEF Told, SendingIsOwned
  <2>4. QED BY <2>1, <2>2, <2>3 DEF Told
<1>13. DownIsIdle'
  BY DEF DownIsIdle, BeginFresh, At
<1> QED BY <1>8, <1>9, <1>10, <1>11, <1>12, <1>13

\* Steps of a call that touch neither table nor modem: the call leaves its place, and is
\* active only if it was and has its outcome by then.
LEMMA InvQuiet ==
  ASSUME SendInv, NEW c \in Calls, Kept(c), daemon.up, UNCHANGED <<rows, accepted, del, daemon, erased>>,
         call'[c].at \in Active => call[c].at \in Active /\ call'[c].id = call[c].id,
         call'[c].at = "finish" => /\ call'[c].outcome \in Resolved
                                   /\ call'[c].outcome = "submitted" => accepted[c] = Parts
                                   /\ call'[c].outcome = "failed" => accepted[c] < Parts,
         call'[c].at = "fetch" => /\ call'[c].id \in Ids /\ rows[call'[c].id] # NoRow
                                  /\ rows[call'[c].id].req = call[c].req
                                  /\ rows[call'[c].id].body = call[c].body,
         call'[c].at = "done" =>
           (call'[c].id \notin erased.ids =>
              call'[c].answer.req = call[c].req /\ call'[c].answer.body = call[c].body),
         call[c].at \in Active =>
           call'[c].id = call[c].id /\ call'[c].at \in {"attempt", "finish", "error"},
         call[c].at = "error" => call'[c] = call[c]
  PROVE  SendInv'
<1> USE DEF SendInv
<1>1. UNCHANGED <<rows, accepted, del, daemon, erased>>
  OBVIOUS
<1>2. /\ \A d \in Calls : d # c => call'[d] = call[d]
      /\ \A d \in Calls : call'[d].req = call[d].req /\ call'[d].body = call[d].body
      /\ call' \in [Calls -> CallSet]
  BY DEF Kept
<1>3. TypeOK' /\ DelBound'
  BY <1>1, <1>2 DEF TypeOK, DelBound
<1>4. \A d \in Calls : call'[d].at \in Active => call[d].at \in Active /\ call'[d].id = call[d].id
  BY <1>2
<1>5. \A d \in Calls : Tried(d)' => Tried(d)
  BY <1>1, <1>4 DEF Tried
<1>6. Keys'
  <2>1. KeyUnique'
    BY <1>1 DEF Keys, KeyUnique
  <2>2. TriedIsRecorded'
    BY <1>1, <1>2, <1>5 DEF Keys, TriedIsRecorded, Recorded
  <2>3. OneTry'
    BY <1>1, <1>2, <1>5 DEF Keys, OneTry
  <2>4. QED BY <2>1, <2>2, <2>3 DEF Keys
<1>7. Owners'
  <2>1. HasId'
    BY <1>2, <1>4 DEF Owners, HasId
  <2>2. HasRow'
    BY <1>1, <1>2, <1>4 DEF Owners, HasRow
  <2>3. OneOwner'
    BY <1>1, <1>4 DEF Owners, OneOwner
  <2>4. ActiveIsSending'
    BY <1>1, <1>4 DEF Owners, ActiveIsSending
  <2>5. OutcomeFits'
    BY <1>1, <1>2 DEF Owners, OutcomeFits
  <2>6. QED BY <2>1, <2>2, <2>3, <2>4, <2>5 DEF Owners
<1>8. Told'
  <2>1. StatusTruthful'
    BY <1>1, <1>2 DEF Told, StatusTruthful
  <2>2. AnswerMatches'
    BY <1>1, <1>2 DEF Told, AnswerMatches
  <2>3. SendingIsOwned'
    <3>1. \A d \in Calls : call[d].at \in {"attempt", "finish", "error"} =>
                             call'[d].id = call[d].id /\ call'[d].at \in {"attempt", "finish", "error"}
      BY <1>2 DEF Active
    <3>2. QED BY <1>1, <3>1 DEF Told, SendingIsOwned
  <2>4. QED BY <2>1, <2>2, <2>3 DEF Told
<1> QED BY <1>1, <1>3, <1>6, <1>7, <1>8 DEF DownIsIdle

LEMMA InvQuietSteps ==
  ASSUME SendInv, NEW c \in Calls,
         Send(c) \/ BeginKnown(c) \/ Attempted(c) \/ Fetch(c) \/ DbError(c)
  PROVE  SendInv'
<1> USE DEF SendInv, Owners
<1>1. CASE Send(c)
  <2>1. To(c, "begin") /\ call[c].at = "idle" /\ daemon.up /\ UNCHANGED <<rows, accepted, del, daemon, erased>>
    BY <1>1, SendEffect DEF Send, At
  <2>2. QED BY <2>1, InvQuiet DEF To, Active
<1>2. CASE BeginKnown(c)
  <2>1. PICK i \in Recorded(call[c].req) :
          /\ Kept(c) /\ call'[c].id = i /\ call'[c].answer = call[c].answer
          /\ call'[c].at \in {"fetch", "refused"}
          /\ call'[c].at = "fetch" => rows[i].body = call[c].body
    BY <1>2, BeginKnownEffect
  <2>2. i \in Ids /\ rows[i] # NoRow /\ rows[i].req = call[c].req
    BY DEF Recorded
  <2>3. call[c].at = "begin" /\ daemon.up /\ UNCHANGED <<rows, accepted, del, daemon, erased>>
    BY <1>2 DEF BeginKnown, At
  <2>4. QED BY <2>1, <2>2, <2>3, InvQuiet DEF Active
<1>3. CASE Attempted(c)
  <2>1. call[c].at = "attempt" /\ daemon.up /\ UNCHANGED <<rows, accepted, del, daemon, erased>>
    BY <1>3 DEF Attempted, At
  <2>2. QED BY <1>3, <2>1, AttemptedEffect, InvQuiet DEF To, Active
<1>4. CASE Fetch(c)
  <2>1. call[c].at = "fetch" /\ daemon.up /\ UNCHANGED <<rows, accepted, del, daemon, erased>>
    BY <1>4 DEF Fetch, At
  <2>2. call[c].id \notin erased.ids =>
          rows[call[c].id].req = call[c].req /\ rows[call[c].id].body = call[c].body
    BY <2>1 DEF HasRow
  <2>3. /\ Kept(c) /\ call'[c].at = "done" /\ call'[c].id = call[c].id
        /\ call'[c].answer = rows[call[c].id]
    BY <1>4, FetchEffect DEF To
  <2>4. QED BY <2>1, <2>2, <2>3, InvQuiet DEF Active
<1>5. CASE DbError(c)
  <2>1. call[c].at \in {"begin", "finish", "fetch"} /\ daemon.up /\ UNCHANGED <<rows, accepted, del, daemon, erased>>
    BY <1>5 DEF DbError
  <2>2. QED BY <1>5, <2>1, DbErrorEffect, InvQuiet DEF To, Active
<1> QED BY <1>1, <1>2, <1>3, <1>4, <1>5

LEMMA InvPart == ASSUME SendInv, NEW c \in Calls, Part(c) PROVE SendInv'
<1> USE DEF SendInv
<1>1. /\ UNCHANGED <<rows, call, del, daemon, erased>> /\ call[c].at = "attempt" /\ accepted[c] < Parts
      /\ accepted' = [accepted EXCEPT ![c] = @ + 1]
  BY DEF Part, At
<1>2. /\ accepted' \in [Calls -> 0..Parts] /\ accepted \in [Calls -> 0..Parts]
      /\ \A d \in Calls : d # c => accepted'[d] = accepted[d]
  BY <1>1, SendAssumption DEF TypeOK
<1>3. TypeOK' /\ DelBound'
  BY <1>1, <1>2 DEF TypeOK, DelBound
<1>4. Tried(c) /\ \A d \in Calls : Tried(d)' => Tried(d)
  BY <1>1, <1>2 DEF Tried, Active
<1>5. Keys'
  <2>1. KeyUnique'
    BY <1>1 DEF Keys, KeyUnique
  <2>2. TriedIsRecorded'
    BY <1>1, <1>4 DEF Keys, TriedIsRecorded, Recorded
  <2>3. OneTry'
    BY <1>1, <1>4 DEF Keys, OneTry
  <2>4. QED BY <2>1, <2>2, <2>3 DEF Keys
<1>6. Owners'
  <2>1. HasId' /\ HasRow' /\ OneOwner' /\ ActiveIsSending'
    BY <1>1 DEF Owners, HasId, HasRow, OneOwner, ActiveIsSending
  <2>2. OutcomeFits'
    BY <1>1, <1>2 DEF Owners, OutcomeFits
  <2>3. QED BY <2>1, <2>2 DEF Owners
<1>7. Told'
  <2>1. ASSUME NEW i \in Ids \ erased.ids, rows[i] # NoRow, rows[i].req = call[c].req,
               call[c].req \notin erased.reqs
        PROVE  rows[i].status = "sending"
    <3>1. call[c].id \in Ids /\ rows[call[c].id] # NoRow /\ rows[call[c].id].req = call[c].req
      BY <1>1, <2>1 DEF Owners, HasRow, Active
    <3>2. call[c].id = i
      BY <2>1, <3>1 DEF Keys, KeyUnique
    <3>3. QED BY <1>1, <2>1, <3>2 DEF Owners, ActiveIsSending, Active
  <2>2. StatusTruthful'
    BY <1>1, <1>2, <2>1 DEF Told, StatusTruthful
  <2>3. AnswerMatches' /\ SendingIsOwned'
    BY <1>1 DEF Told, AnswerMatches, SendingIsOwned
  <2>4. QED BY <2>2, <2>3 DEF Told
<1>8. DownIsIdle'
  BY DEF DownIsIdle, Part, At
<1> QED BY <1>3, <1>5, <1>6, <1>7, <1>8

LEMMA InvFinish == ASSUME SendInv, NEW c \in Calls, Finish(c) PROVE SendInv'
<1> USE DEF SendInv
<1> DEFINE f == call[c].id
<1>1. UNCHANGED <<accepted, del, daemon, erased>> /\ call[c].at = "finish"
  BY DEF Finish, At
<1>2. /\ To(c, "fetch") /\ call'[c].id = f /\ f \in Ids
      /\ rows' \in [Ids -> Row \cup {NoRow}]
      /\ \A i \in Ids : i # f \/ rows[i] = NoRow => rows'[i] = rows[i]
      /\ rows[f] # NoRow => /\ rows'[f] # NoRow /\ rows'[f].req = rows[f].req
                            /\ rows'[f].body = rows[f].body /\ rows'[f].status = call[c].outcome
  BY FinishEffect DEF Owners
<1>3. /\ call' \in [Calls -> CallSet] /\ call'[c].at = "fetch"
      /\ \A d \in Calls : d # c => call'[d] = call[d]
      /\ \A d \in Calls : call'[d].req = call[d].req /\ call'[d].body = call[d].body
  BY <1>2 DEF To, Kept
<1>4. \A i \in Ids : /\ rows'[i] = NoRow <=> rows[i] = NoRow
                     /\ rows[i] # NoRow => rows'[i].req = rows[i].req /\ rows'[i].body = rows[i].body
  BY <1>2
<1>5. TypeOK' /\ DelBound'
  BY <1>1, <1>2, <1>3 DEF TypeOK, DelBound
<1>6. \A d \in Calls : call'[d].at \in Active => d # c /\ call[d].at \in Active
  BY <1>3 DEF Active
<1>7. \A d \in Calls : Tried(d)' => Tried(d)
  BY <1>1, <1>3, <1>6 DEF Tried
<1>8. Keys'
  <2>1. KeyUnique'
    BY <1>4 DEF Keys, KeyUnique
  <2>2. TriedIsRecorded'
    BY <1>1, <1>3, <1>4, <1>7 DEF Keys, TriedIsRecorded, Recorded
  <2>3. OneTry'
    BY <1>1, <1>3, <1>7 DEF Keys, OneTry
  <2>4. QED BY <2>1, <2>2, <2>3 DEF Keys
<1>9. \A d \in Calls : d # c /\ call[d].at \in Active /\ call[d].id = f => f \in erased.ids
  BY <1>1 DEF Owners, OneOwner, Active
<1>10. Owners'
  <2>1. HasId'
    BY <1>2, <1>3, <1>6 DEF Owners, HasId
  <2>2. HasRow'
    <3>1. \A d \in Calls : call'[d].id = call[d].id
      BY <1>2, <1>3
    <3>2. \A d \in Calls : call'[d].at \in Active \cup {"fetch"} => call[d].at \in Active \cup {"fetch"}
      BY <1>1, <1>3 DEF Active
    <3>3. QED BY <1>1, <1>3, <1>4, <1>6, <3>1, <3>2 DEF Owners, HasRow
  <2>3. OneOwner'
    BY <1>1, <1>3, <1>6 DEF Owners, OneOwner
  <2>4. ActiveIsSending'
    <3>1. ASSUME NEW d \in Calls, call'[d].at \in Active, call'[d].id \notin erased'.ids
          PROVE  rows'[call'[d].id].status = "sending"
      <4>1. d # c /\ call[d].at \in Active /\ call'[d] = call[d] /\ call[d].id \notin erased.ids
        BY <1>1, <1>3, <1>6, <3>1
      <4>2. call[d].id # f /\ call[d].id \in Ids
        BY <1>9, <4>1 DEF Owners, HasId
      <4>3. QED BY <1>2, <4>1, <4>2 DEF Owners, ActiveIsSending
    <3>2. QED BY <3>1 DEF ActiveIsSending
  <2>5. OutcomeFits'
    BY <1>1, <1>3 DEF Owners, OutcomeFits
  <2>6. QED BY <2>1, <2>2, <2>3, <2>4, <2>5 DEF Owners
<1>11. Told'
  <2>1. ASSUME NEW i \in Ids \ erased'.ids, rows'[i] # NoRow, rows'[i].req \notin erased'.reqs
        PROVE  LET mine == {d \in Calls : call'[d].req = rows'[i].req}
               IN  /\ rows'[i].status = "submitted" => \E d \in mine : accepted'[d] = Parts
                   /\ rows'[i].status = "failed" => \A d \in mine : accepted'[d] < Parts
    <3>1. CASE i # f
      BY <1>1, <1>2, <1>3, <2>1, <3>1 DEF Told, StatusTruthful
    <3>2. CASE i = f
      <4>1. rows'[i].status = call[c].outcome /\ rows'[i].req = rows[i].req /\ rows[i].req = call[c].req
        BY <1>1, <1>2, <1>4, <2>1, <3>2 DEF Owners, HasRow, Active
      <4>2. ASSUME NEW d \in Calls, d # c, call[d].req = call[c].req PROVE accepted[d] < Parts
        <5>1. ~Tried(d)
          BY <1>1, <2>1, <4>1, <4>2 DEF Keys, OneTry, Tried, Active
        <5>2. accepted[d] \in 0..Parts /\ ~(accepted[d] > 0)
          BY <5>1 DEF Tried, TypeOK
        <5>3. QED BY <5>2, SendAssumption
      <4>3. /\ call[c].outcome = "submitted" => accepted[c] = Parts
            /\ call[c].outcome = "failed" => accepted[c] < Parts
        BY <1>1 DEF Owners, OutcomeFits
      <4>4. QED BY <1>1, <1>3, <4>1, <4>2, <4>3
    <3>3. QED BY <3>1, <3>2
  <2>2. StatusTruthful'
    BY <2>1 DEF StatusTruthful
  <2>3. AnswerMatches'
    BY <1>1, <1>3 DEF Told, AnswerMatches
  <2>4. ASSUME NEW i \in Ids \ erased.ids, daemon.up, rows'[i] # NoRow, rows'[i].status = "sending"
        PROVE  \E d \in Calls : call'[d].id = i /\ call'[d].at \in {"attempt", "finish", "error"}
    <3>1. call[c].outcome \in Resolved
      BY <1>1 DEF Owners, OutcomeFits
    <3>2. i # f /\ rows'[i] = rows[i]
      BY <1>2, <1>4, <2>4, <3>1 DEF Resolved
    <3>3. PICK d \in Calls : call[d].id = i /\ call[d].at \in {"attempt", "finish", "error"}
      BY <2>4, <3>2 DEF Told, SendingIsOwned
    <3>4. QED BY <1>3, <3>2, <3>3
  <2>5. SendingIsOwned'
    BY <1>1, <2>4 DEF SendingIsOwned
  <2>6. QED BY <2>2, <2>3, <2>5 DEF Told
<1>12. DownIsIdle'
  BY DEF DownIsIdle, Finish, At
<1> QED BY <1>5, <1>8, <1>10, <1>11, <1>12

LEMMA InvKilled == SendInv /\ Killed => SendInv'
<1> SUFFICES ASSUME SendInv, Killed PROVE SendInv'
  OBVIOUS
<1> USE DEF SendInv
<1>1. UNCHANGED <<rows, accepted, erased>>
  BY DEF Killed
<1>2. /\ call' \in [Calls -> CallSet] /\ ~daemon'.up /\ daemon' \in [up : BOOLEAN, crashes : Nat]
      /\ \A c \in Calls :
           /\ call'[c].req = call[c].req /\ call'[c].body = call[c].body /\ call'[c].id = call[c].id
           /\ call'[c].answer = call[c].answer
           /\ call'[c].at \notin Live /\ (call'[c].at = "done" => call[c].at = "done")
  BY KilledEffect
<1>3. del' \in [Deletes -> [at : {"idle", "checked", "done"}, id : Ids \cup {0}]] /\ DelBound'
  BY DEF Killed, TypeOK, DelBound
<1>4. TypeOK'
  BY <1>1, <1>2, <1>3 DEF TypeOK
<1>5. \A c \in Calls : call'[c].at \notin Active \cup {"fetch"}
  BY <1>2 DEF Live, Active
<1>6. \A c \in Calls : Tried(c)' => Tried(c)
  BY <1>1, <1>5 DEF Tried
<1>7. Keys'
  <2>1. KeyUnique'
    BY <1>1 DEF Keys, KeyUnique
  <2>2. TriedIsRecorded'
    BY <1>1, <1>2, <1>6 DEF Keys, TriedIsRecorded, Recorded
  <2>3. OneTry'
    BY <1>1, <1>2, <1>6 DEF Keys, OneTry
  <2>4. QED BY <2>1, <2>2, <2>3 DEF Keys
<1>8. Owners'
  BY <1>5 DEF Owners, HasId, HasRow, OneOwner, ActiveIsSending, OutcomeFits, Active
<1>9. Told'
  <2>1. StatusTruthful'
    BY <1>1, <1>2 DEF Told, StatusTruthful
  <2>2. AnswerMatches'
    BY <1>1, <1>2 DEF Told, AnswerMatches
  <2>3. SendingIsOwned'
    BY <1>2 DEF SendingIsOwned
  <2>4. QED BY <2>1, <2>2, <2>3 DEF Told
<1>10. DownIsIdle'
  BY <1>2 DEF DownIsIdle
<1> QED BY <1>3, <1>4, <1>7, <1>8, <1>9, <1>10

LEMMA InvRestart == SendInv /\ Restart => SendInv'
<1> SUFFICES ASSUME SendInv, Restart PROVE SendInv'
  OBVIOUS
<1> USE DEF SendInv
<1>1. UNCHANGED <<call, accepted, del, erased>> /\ ~daemon.up
  BY DEF Restart
<1>2. /\ rows' \in [Ids -> Row \cup {NoRow}] /\ daemon' \in [up : BOOLEAN, crashes : Nat]
      /\ \A i \in Ids :
           /\ rows'[i] = NoRow <=> rows[i] = NoRow
           /\ rows[i] # NoRow => /\ rows'[i].req = rows[i].req /\ rows'[i].body = rows[i].body
                                 /\ rows'[i].status # "sending"
                                 /\ rows[i].status # "sending" => rows'[i] = rows[i]
                                 /\ rows[i].status = "sending" => rows'[i].status = "unknown"
  BY RestartEffect
<1>3. \A c \in Calls : call[c].at \notin Active \cup {"fetch"}
  BY <1>1 DEF DownIsIdle, Live, Active
<1>4. TypeOK' /\ DelBound'
  BY <1>1, <1>2 DEF TypeOK, DelBound
<1>5. Keys'
  <2>1. KeyUnique'
    BY <1>2 DEF Keys, KeyUnique
  <2>2. TriedIsRecorded'
    BY <1>1, <1>2 DEF Keys, TriedIsRecorded, Recorded, Tried
  <2>3. OneTry'
    BY <1>1 DEF Keys, OneTry, Tried
  <2>4. QED BY <2>1, <2>2, <2>3 DEF Keys
<1>6. Owners'
  BY <1>1, <1>3 DEF Owners, HasId, HasRow, OneOwner, ActiveIsSending, OutcomeFits, Active
<1>7. Told'
  <2>1. StatusTruthful'
    BY <1>1, <1>2 DEF Told, StatusTruthful
  <2>2. AnswerMatches'
    BY <1>1 DEF Told, AnswerMatches
  <2>3. SendingIsOwned'
    BY <1>2 DEF SendingIsOwned
  <2>4. QED BY <2>1, <2>2, <2>3 DEF Told
<1>8. DownIsIdle'
  BY DEF DownIsIdle, Restart, TypeOK
<1> QED BY <1>4, <1>5, <1>6, <1>7, <1>8

LEMMA InvDelete == ASSUME SendInv, NEW d \in Deletes, Delete(d) PROVE SendInv'
<1> USE DEF SendInv
<1>1. UNCHANGED <<call, accepted, daemon>> /\ daemon.up
  BY DEF Delete
<1>2. /\ rows' \in [Ids -> Row \cup {NoRow}]
      /\ erased' \in [ids : SUBSET Ids, reqs : SUBSET Requests]
      /\ erased.ids \subseteq erased'.ids /\ erased.reqs \subseteq erased'.reqs
      /\ \A i \in Ids :
           /\ rows'[i] # rows[i] => /\ rows[i] # NoRow /\ rows'[i] = NoRow
                                    /\ i \in erased'.ids /\ rows[i].req \in erased'.reqs
      /\ del' \in [Deletes -> [at : {"idle", "checked", "done"}, id : Ids \cup {0}]]
  BY DeleteEffect
<1>3. TypeOK' /\ DelBound'
  BY <1>1, <1>2 DEF TypeOK, DelBound, Delete
<1>4. Keys'
  <2>1. KeyUnique'
    BY <1>2 DEF Keys, KeyUnique
  <2>2. TriedIsRecorded'
    <3>1. \A i \in Ids : rows[i] # NoRow /\ rows[i].req \notin erased'.reqs => rows'[i] = rows[i]
      BY <1>2
    <3>2. QED BY <1>1, <1>2, <3>1 DEF Keys, TriedIsRecorded, Recorded, Tried
  <2>3. OneTry'
    BY <1>1, <1>2 DEF Keys, OneTry, Tried
  <2>4. QED BY <2>1, <2>2, <2>3 DEF Keys
<1>5. Owners'
  <2>1. HasId' /\ OneOwner' /\ OutcomeFits'
    BY <1>1, <1>2 DEF Owners, HasId, OneOwner, OutcomeFits
  <2>2. HasRow'
    BY <1>1, <1>2 DEF Owners, HasRow
  <2>3. ActiveIsSending'
    BY <1>1, <1>2 DEF Owners, ActiveIsSending, HasId
  <2>4. QED BY <2>1, <2>2, <2>3 DEF Owners
<1>6. Told'
  <2>1. StatusTruthful'
    BY <1>1, <1>2 DEF Told, StatusTruthful
  <2>2. AnswerMatches'
    BY <1>1, <1>2 DEF Told, AnswerMatches
  <2>3. SendingIsOwned'
    BY <1>1, <1>2 DEF Told, SendingIsOwned
  <2>4. QED BY <2>1, <2>2, <2>3 DEF Told
<1>7. DownIsIdle'
  BY <1>1 DEF DownIsIdle
<1> QED BY <1>3, <1>4, <1>5, <1>6, <1>7

LEMMA InvCheck == ASSUME SendInv, NEW d \in Deletes, NEW i \in Ids, CheckDelete(d, i) PROVE SendInv'
<1>1. UNCHANGED <<rows, call, accepted, daemon, erased>>
      /\ del' = [del EXCEPT ![d] = [at |-> "checked", id |-> i]]
  BY DEF CheckDelete
<1>2. TypeOK' /\ DelBound'
  BY <1>1 DEF SendInv, TypeOK, DelBound
<1>3. Keys' /\ Owners' /\ Told' /\ DownIsIdle'
  BY <1>1 DEF SendInv, Keys, KeyUnique, TriedIsRecorded, OneTry, Tried, Recorded, Owners, HasId, HasRow, OneOwner,
              ActiveIsSending, OutcomeFits, Told, StatusTruthful, AnswerMatches, SendingIsOwned, DownIsIdle
<1> QED BY <1>2, <1>3 DEF SendInv

LEMMA InvStutter == SendInv /\ UNCHANGED vars => SendInv'
BY DEF vars, SendInv, TypeOK, DelBound, Keys, KeyUnique, TriedIsRecorded, OneTry, Tried, Recorded, Owners, HasId,
       HasRow, OneOwner, ActiveIsSending, OutcomeFits, Told, StatusTruthful, AnswerMatches, SendingIsOwned, DownIsIdle

LEMMA SendStep == SendInv /\ [Next]_vars => SendInv'
<1> SUFFICES ASSUME SendInv, [Next]_vars PROVE SendInv'
  OBVIOUS
<1>1. ASSUME NEW c \in Calls, Send(c) \/ Task(c) PROVE SendInv'
  BY <1>1, InvQuietSteps, InvBeginFresh, InvPart, InvFinish, InvKilled DEF Task, Panic
<1>2. ASSUME NEW d \in Deletes, Delete(d) \/ \E i \in Ids : CheckDelete(d, i) PROVE SendInv'
  BY <1>2, InvDelete, InvCheck
<1>3. CASE Crash
  BY <1>3, InvKilled DEF Crash
<1>4. CASE Restart
  BY <1>4, InvRestart
<1>5. CASE UNCHANGED vars
  BY <1>5, InvStutter
<1> QED BY <1>1, <1>2, <1>3, <1>4, <1>5 DEF Next

LEMMA SendInvariant == Spec => []SendInv
<1>1. Init => SendInv
  BY InvInit
<1>2. SendInv /\ [Next]_vars => SendInv'
  BY SendStep
<1> QED BY <1>1, <1>2, PTL DEF Spec

\* Every variable keeps its type.
THEOREM TypeCorrect == Spec => []TypeOK
<1>1. SendInv => TypeOK
  BY DEF SendInv
<1> QED BY <1>1, SendInvariant, PTL

\* A request_id is handed to the modem by one call at most while its record is kept,
\* however many calls repeat it and whenever the daemon crashes (begin_payload_send).
THEOREM SentOnce == Spec => []AtMostOnce
<1>1. SendInv => AtMostOnce
  BY DEF SendInv, Keys, OneTry, Tried, AtMostOnce
<1> QED BY <1>1, SendInvariant, PTL

\* The status in the history is what happened to the message (send_parts, finish_send).
THEOREM HistoryIsTruthful == Spec => []StatusTruthful
<1>1. SendInv => StatusTruthful
  BY DEF SendInv, Told
<1> QED BY <1>1, SendInvariant, PTL

\* A repeated call is answered by the record of its own request and content.
THEOREM AnswersMatch == Spec => []AnswerMatches
<1>1. SendInv => AnswerMatches
  BY DEF SendInv, Told
<1> QED BY <1>1, SendInvariant, PTL

\* No row is left "sending" without a task, but by a failed database write (serve()).
THEOREM NoOrphanSending == Spec => []SendingIsOwned
<1>1. SendInv => SendingIsOwned
  BY DEF SendInv, Told
<1> QED BY <1>1, SendInvariant, PTL

\* A resolved status is never overwritten while the row is kept: only the call that
\* inserted the row finishes it, once, and the start-up repair looks at "sending" alone.
THEOREM ResolvedStays == Spec => ResolvedIsFinal
<1> DEFINE Stays == \A i \in Ids \ erased.ids :
                      rows[i] # NoRow /\ rows[i].status \in Resolved => rows'[i] \in {rows[i], NoRow}
<1>1. ASSUME SendInv, [Next]_vars PROVE Stays
  <2> SUFFICES ASSUME NEW i \in Ids \ erased.ids, rows[i] # NoRow, rows[i].status \in Resolved
               PROVE  rows'[i] \in {rows[i], NoRow}
    OBVIOUS
  <2> USE <1>1 DEF SendInv
  <2>1. ASSUME NEW c \in Calls, BeginFresh(c) PROVE rows'[i] = rows[i]
    <3>1. PICK k \in Ids, w \in Row : rows[k] = NoRow /\ rows' = [rows EXCEPT ![k] = w]
      BY <2>1, BeginFreshEffect
    <3>2. QED BY <3>1 DEF TypeOK
  <2>2. ASSUME NEW c \in Calls, Finish(c) PROVE rows'[i] = rows[i]
    <3>1. /\ call[c].id \in Ids
          /\ \A k \in Ids : k # call[c].id \/ rows[k] = NoRow => rows'[k] = rows[k]
      BY <2>2, FinishEffect DEF Owners
    <3>2. call[c].id # i
      BY <2>2 DEF Finish, At, Owners, ActiveIsSending, Active, Resolved
    <3>3. QED BY <3>1, <3>2
  <2>3. ASSUME NEW d \in Deletes, Delete(d) PROVE rows'[i] \in {rows[i], NoRow}
    BY <2>3, DeleteEffect
  <2>4. CASE Restart
    <3>1. rows[i].status # "sending"
      BY DEF Resolved
    <3>2. QED BY <2>4, <3>1, RestartEffect
  <2>5. CASE UNCHANGED rows
    BY <2>5
  <2>6. ASSUME NEW c \in Calls, Send(c) \/ Task(c) PROVE rows'[i] \in {rows[i], NoRow}
    BY <2>1, <2>2, <2>5, <2>6
       DEF Send, Task, BeginKnown, Part, Attempted, Fetch, DbError, Panic, Killed
  <2>7. ASSUME NEW d \in Deletes, NEW k \in Ids, CheckDelete(d, k) PROVE rows' = rows
    BY <2>7 DEF CheckDelete
  <2>8. CASE Crash
    BY <2>8 DEF Crash, Killed
  <2> QED BY <2>3, <2>4, <2>5, <2>6, <2>7, <2>8 DEF Next, vars
<1>2. SendInv /\ [Next]_vars => [Stays]_vars
  BY <1>1
<1> QED BY <1>2, SendInvariant, PTL DEF Spec, ResolvedIsFinal

=============================================================================
