------------------------------ MODULE SmsSend ------------------------------
(***************************************************************************)
(* Outgoing SMS: the send tasks, the history table they share with the     *)
(* clients that delete from it, and the restarts of the daemon.            *)
(*                                                                         *)
(* A step is one SQLite transaction or autocommitted statement, or one     *)
(* part accepted by the modem.  A request stands for (modem, request_id),  *)
(* a body for all that begin_payload_send compares: peer, text and hash.   *)
(***************************************************************************)
EXTENDS Naturals

CONSTANTS
  Calls,      (* send calls of HTTP clients, each an owned task             *)
  Deletes,    (* delete calls of HTTP clients                               *)
  Requests, Bodies,
  MaxId,      (* bound: row ids                                             *)
  Parts,      (* parts of a message                                         *)
  MaxCrashes, (* bound: crashes of the daemon                               *)
  DbFails,    (* may the database refuse an operation (busy, disk full)     *)
  NoRow

Ids == 1..MaxId
Resolved == {"submitted", "failed", "unknown"}
Row == [req : Requests, body : Bodies, status : {"sending"} \cup Resolved]

ASSUME SendAssumption ==
  /\ MaxId \in Nat /\ Parts \in Nat \ {0} /\ MaxCrashes \in Nat
  /\ DbFails \in BOOLEAN /\ NoRow \notin Row

VARIABLES
  rows,      (* the table messages: id -> row or NoRow                      *)
  call,      (* the send tasks                                              *)
  accepted,  (* parts of each call the modem has accepted (history)         *)
  del,       (* the delete calls                                            *)
  daemon,    (* is it up, and how often it crashed                          *)
  erased     (* ids and requests deleted from the table (history)           *)

vars == <<rows, call, accepted, del, daemon, erased>>

NewCall(r, b) == [at |-> "begin", req |-> r, body |-> b, id |-> 0, outcome |-> "none", answer |-> NoRow]

Init ==
  /\ rows = [i \in Ids |-> NoRow]
  /\ call \in [Calls -> {[NewCall(r, b) EXCEPT !.at = "idle"] : r \in Requests, b \in Bodies}]
  /\ accepted = [c \in Calls |-> 0]
  /\ del = [d \in Deletes |-> [at |-> "idle", id |-> 0]]
  /\ daemon = [up |-> TRUE, crashes |-> 0]
  /\ erased = [ids |-> {}, reqs |-> {}]

-----------------------------------------------------------------------------
(* send_parts: an owned task, which an HTTP client leaving does not stop.    *)

\* SQLite gives a new row the largest rowid plus one: ids of deleted rows come back.
NextRowid(i) ==
  \A k \in Ids : /\ k >= i => rows[k] = NoRow
                 /\ k = i - 1 => rows[k] # NoRow

Recorded(r) == {i \in Ids : rows[i] # NoRow /\ rows[i].req = r}

At(c, here) == daemon.up /\ call[c].at = here
Goto(c, there) == call' = [call EXCEPT ![c].at = there]

Send(c) ==
  /\ At(c, "idle") /\ Goto(c, "begin")
  /\ UNCHANGED <<rows, accepted, del, daemon, erased>>

\* begin_payload_send, one transaction: a fresh request is recorded as "sending".
BeginFresh(c) ==
  /\ At(c, "begin") /\ Recorded(call[c].req) = {}
  /\ \E i \in Ids :
       /\ NextRowid(i)
       /\ rows' = [rows EXCEPT ![i] = [req |-> call[c].req, body |-> call[c].body, status |-> "sending"]]
       /\ call' = [call EXCEPT ![c].at = "attempt", ![c].id = i]
  /\ UNCHANGED <<accepted, del, daemon, erased>>

\* Mutant: the content of a known request is not compared.
BeginKnownAny(c) ==
  /\ At(c, "begin")
  /\ \E i \in Recorded(call[c].req) : call' = [call EXCEPT ![c].at = "fetch", ![c].id = i]
  /\ UNCHANGED <<rows, accepted, del, daemon, erased>>

\* A known request is answered from the table; with another content it is an error.
BeginKnown(c) ==
  /\ At(c, "begin")
  /\ \E i \in Recorded(call[c].req) :
       call' = [call EXCEPT ![c].at = IF rows[i].body = call[c].body THEN "fetch" ELSE "refused",
                            ![c].id = i]
  /\ UNCHANGED <<rows, accepted, del, daemon, erased>>

\* Mutant: one part more than the message has.
PartAgain(c) ==
  /\ At(c, "attempt") /\ accepted[c] <= Parts
  /\ accepted' = [accepted EXCEPT ![c] = @ + 1]
  /\ UNCHANGED <<rows, call, del, daemon, erased>>

\* The modem accepts one more part of the message.
Part(c) ==
  /\ At(c, "attempt") /\ accepted[c] < Parts
  /\ accepted' = [accepted EXCEPT ![c] = @ + 1]
  /\ UNCHANGED <<rows, call, del, daemon, erased>>

\* Mutant: the references are not counted.
AttemptedUncounted(c) ==
  /\ At(c, "attempt")
  /\ \E o \in Resolved :
       /\ o = "failed" => accepted[c] < Parts
       /\ call' = [call EXCEPT ![c].at = "finish", ![c].outcome = o]
  /\ UNCHANGED <<rows, accepted, del, daemon, erased>>

\* The outcome of the transaction: all parts have their reference; the modem rejected
\* one; or the port failed, and what the modem has accepted is anyone's guess.
Attempted(c) ==
  /\ At(c, "attempt")
  /\ \E o \in Resolved :
       /\ o = "submitted" => accepted[c] = Parts
       /\ o = "failed" => accepted[c] < Parts
       /\ call' = [call EXCEPT ![c].at = "finish", ![c].outcome = o]
  /\ UNCHANGED <<rows, accepted, del, daemon, erased>>

\* Mutant: only a success is recorded.
FinishSubmitted(c) ==
  /\ At(c, "finish") /\ Goto(c, "fetch")
  /\ rows' = IF rows[call[c].id] = NoRow \/ call[c].outcome # "submitted" THEN rows
             ELSE [rows EXCEPT ![call[c].id].status = call[c].outcome]
  /\ UNCHANGED <<accepted, del, daemon, erased>>

\* finish_send: UPDATE ... WHERE id; no row with the id is no error.
Finish(c) ==
  /\ At(c, "finish") /\ Goto(c, "fetch")
  /\ rows' = IF rows[call[c].id] = NoRow THEN rows
             ELSE [rows EXCEPT ![call[c].id].status = call[c].outcome]
  /\ UNCHANGED <<accepted, del, daemon, erased>>

\* get(..).expect("recorded send")
Fetch(c) ==
  /\ At(c, "fetch") /\ rows[call[c].id] # NoRow
  /\ call' = [call EXCEPT ![c].at = "done", ![c].answer = rows[call[c].id]]
  /\ UNCHANGED <<rows, accepted, del, daemon, erased>>

\* A database operation fails and ends the task with an error.
DbError(c) ==
  /\ DbFails /\ call[c].at \in {"begin", "finish", "fetch"} /\ daemon.up
  /\ Goto(c, "error")
  /\ UNCHANGED <<rows, accepted, del, daemon, erased>>

-----------------------------------------------------------------------------
(* delete: the check and the DELETE are two statements.                      *)

CheckDelete(d, i) ==
  /\ daemon.up /\ del[d].at = "idle"
  /\ rows[i] # NoRow => rows[i].status # "sending"
  /\ del' = [del EXCEPT ![d] = [at |-> "checked", id |-> i]]
  /\ UNCHANGED <<rows, call, accepted, daemon, erased>>

Delete(d) ==
  /\ daemon.up /\ del[d].at = "checked"
  /\ LET i == del[d].id
     IN  /\ rows' = [rows EXCEPT ![i] = NoRow]
         /\ erased' = IF rows[i] = NoRow THEN erased
                      ELSE [ids |-> erased.ids \cup {i}, reqs |-> erased.reqs \cup {rows[i].req}]
  /\ del' = [del EXCEPT ![d].at = "done"]
  /\ UNCHANGED <<call, accepted, daemon>>

-----------------------------------------------------------------------------
(* The process: panic = "abort", procd respawns it, serve() repairs the table. *)

Live == {"begin", "attempt", "finish", "fetch"}

Killed ==
  /\ daemon' = [up |-> FALSE, crashes |-> daemon.crashes + 1]
  /\ call' = [c \in Calls |-> IF call[c].at \in Live THEN [call[c] EXCEPT !.at = "lost"] ELSE call[c]]
  /\ del' = [d \in Deletes |-> IF del[d].at = "checked" THEN [del[d] EXCEPT !.at = "done"] ELSE del[d]]
  /\ UNCHANGED <<rows, accepted, erased>>

\* The expectation of Fetch fails.
Panic(c) == At(c, "fetch") /\ rows[call[c].id] = NoRow /\ Killed

Crash == daemon.up /\ daemon.crashes < MaxCrashes /\ Killed

\* Mutants: interrupted rows removed, left alone, every sent row marked.
RestartForgets ==
  /\ ~daemon.up /\ daemon' = [daemon EXCEPT !.up = TRUE]
  /\ rows' = [i \in Ids |-> IF rows[i] # NoRow /\ rows[i].status = "sending" THEN NoRow ELSE rows[i]]
  /\ UNCHANGED <<call, accepted, del, erased>>
RestartAsIs ==
  /\ ~daemon.up /\ daemon' = [daemon EXCEPT !.up = TRUE]
  /\ UNCHANGED <<rows, call, accepted, del, erased>>
RestartAll ==
  /\ ~daemon.up /\ daemon' = [daemon EXCEPT !.up = TRUE]
  /\ rows' = [i \in Ids |-> IF rows[i] # NoRow THEN [rows[i] EXCEPT !.status = "unknown"] ELSE rows[i]]
  /\ UNCHANGED <<call, accepted, del, erased>>

Restart ==
  /\ ~daemon.up /\ daemon' = [daemon EXCEPT !.up = TRUE]
  /\ rows' = [i \in Ids |-> IF rows[i] # NoRow /\ rows[i].status = "sending"
                            THEN [rows[i] EXCEPT !.status = "unknown"] ELSE rows[i]]
  /\ UNCHANGED <<call, accepted, del, erased>>

-----------------------------------------------------------------------------
Task(c) == \/ BeginFresh(c) \/ BeginKnown(c) \/ Part(c) \/ Attempted(c) \/ Finish(c)
           \/ Fetch(c) \/ DbError(c) \/ Panic(c)

Next ==
  \/ \E c \in Calls : Send(c) \/ Task(c)
  \/ \E d \in Deletes : Delete(d) \/ \E i \in Ids : CheckDelete(d, i)
  \/ Crash \/ Restart

Spec == Init /\ [][Next]_vars

\* The runtime polls the tasks, the port answers each of them, and procd respawns the daemon.
FairSpec == Spec /\ WF_vars(Restart) /\ \A c \in Calls : WF_vars(Task(c))
-----------------------------------------------------------------------------
(* Properties.                                                               *)

Places == Live \cup {"idle", "refused", "done", "error", "lost"}
CallSet == [at : Places, req : Requests, body : Bodies, id : Ids \cup {0},
            outcome : Resolved \cup {"none"}, answer : Row \cup {NoRow}]

TypeOK ==
  /\ rows \in [Ids -> Row \cup {NoRow}]
  /\ call \in [Calls -> CallSet]
  /\ accepted \in [Calls -> 0..Parts]
  /\ del \in [Deletes -> [at : {"idle", "checked", "done"}, id : Ids \cup {0}]]
  /\ daemon \in [up : BOOLEAN, crashes : Nat]
  /\ erased \in [ids : SUBSET Ids, reqs : SUBSET Requests]

\* However often a client repeats a request_id, over crashes and database errors, at most
\* one call hands it to the modem, as long as nobody deletes its record.
AtMostOnce ==
  \A c, d \in Calls :
    c # d /\ call[c].req = call[d].req /\ accepted[c] > 0 /\ accepted[d] > 0
      => call[c].req \in erased.reqs

\* The history tells what happened: "submitted" means that one call had all its parts
\* accepted, "failed" that none had.
StatusTruthful ==
  \A i \in Ids \ erased.ids :
    rows[i] # NoRow /\ rows[i].req \notin erased.reqs =>
      LET mine == {c \in Calls : call[c].req = rows[i].req}
      IN  /\ rows[i].status = "submitted" => \E c \in mine : accepted[c] = Parts
          /\ rows[i].status = "failed" => \A c \in mine : accepted[c] < Parts

\* A status once resolved stays, through retries and restarts, until the row is deleted.
ResolvedIsFinal ==
  [][\A i \in Ids \ erased.ids :
       rows[i] # NoRow /\ rows[i].status \in Resolved => rows'[i] \in {rows[i], NoRow}]_vars

\* A call is answered by the record of its own request and content.
AnswerMatches ==
  \A c \in Calls :
    call[c].at = "done" /\ call[c].id \notin erased.ids =>
      call[c].answer.req = call[c].req /\ call[c].answer.body = call[c].body

\* A row says "sending" only while a task works on it, or after its database write failed.
SendingIsOwned ==
  \A i \in Ids \ erased.ids :
    daemon.up /\ rows[i] # NoRow /\ rows[i].status = "sending" =>
      \E c \in Calls : call[c].id = i /\ call[c].at \in {"attempt", "finish", "error"}

\* Every message leaves the status "sending", over crashes too, unless the database refused
\* its task.
OutcomeRecorded ==
  \A i \in Ids :
    rows[i] # NoRow /\ rows[i].status = "sending"
    ~> \/ rows[i] = NoRow \/ rows[i].status # "sending"
       \/ \E c \in Calls : call[c].id = i /\ call[c].at = "error"

\* .expect("recorded send"): the row of a call is there when it is read back.
RecordedSend == \A c \in Calls : call[c].at = "fetch" => rows[call[c].id] # NoRow
=============================================================================
