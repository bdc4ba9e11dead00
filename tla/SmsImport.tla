------------------------------ MODULE SmsImport ------------------------------
(* The import of received messages: the SIM's memory, the worker that lists it at intervals or *)
(* when the modem notifies it of a message, the transactions that file the listed parts in the *)
(* history, and the client's calls.                                                            *)
(*                                                                                             *)
(* A PDU is a part of a text, and the PDUs of different texts differ.  The history is the      *)
(* sequence of its messages in the order of their ids, which is all that the import uses of    *)
(* them.                                                                                       *)
EXTENDS FiniteSets, SequencesExt

CONSTANTS
  Texts,        (* texts that are sent to the modem                          *)
  Header,       (* their sender, reference, number of parts and time         *)
  Window,       (* 86400 seconds                                             *)
  Slots,        (* indices of the SIM's memory                               *)
  Records,      (* records of an old history                                 *)
  First,        (* sms.mode when the daemon starts                           *)
  MaxArrivals,  (* bound: PDUs that arrive                                   *)
  MaxEvents,    (* bound: edits, calls, errors, closed ports, crashes        *)
  None

ASSUME ImportAssumption ==
  /\ Header \in [Texts -> [peer : Nat, ref : Nat, total : Nat \ {0}, time : Nat]]
  /\ Window \in Nat /\ Slots \subseteq Nat
  /\ First \in {"poll", "urc", "manual"} /\ MaxArrivals \in Nat /\ MaxEvents \in Nat
  /\ None \notin Texts /\ Records \cap Texts = {} /\ IsFiniteSet(Records)

\* What a PDU tells of its text, besides the number of its part: sender, reference, number of
\* parts and time.
decode(t) == Header[t]

Pdus == UNION {[text : {t}, part : 1..Header[t].total] : t \in Texts}

VARIABLES
  sim,        (* the memory of the SIM (external)                            *)
  messages,   (* tables messages and sms_segments                            *)
  legacy,     (* table legacy_imports                                        *)
  lists,      (* what each running import still has to file                  *)
  worker,     (* its mode, position and the receiver of events               *)
  cfg,        (* sms.mode in AppState.config                                 *)
  used,       (* bounds                                                      *)
  hist        (* history: was a notification lost since the worker listed;
                 PDUs that a client deleted from the history                 *)

vars == <<sim, messages, legacy, lists, worker, cfg, used, hist>>

Syncs == {"worker", "client", "orphan"}
Modes == {"poll", "urc", "manual"}
NoWorker == [mode |-> "manual", at |-> "off", urc |-> "none"]
NewWorker(mode) == [mode |-> mode, at |-> "sync", urc |-> "none"]

Init ==
  /\ sim = [i \in Slots |-> None] /\ messages = <<>> /\ legacy = {}
  /\ lists = [s \in Syncs |-> None]
  /\ worker = NoWorker /\ cfg = First
  /\ used = [arrivals |-> 0, events |-> 0]
  /\ hist = [missed |-> FALSE, forgotten |-> {}]

Event == used.events < MaxEvents /\ used' = [used EXCEPT !.events = @ + 1]

OnSim(p) == \E i \in Slots : sim[i] = p

-----------------------------------------------------------------------------
(* One part is filed in one transaction.                                     *)

Stored(p) == \E i \in DOMAIN messages : p \in messages[i].parts

\* The same sender, reference and number of parts within a day.
Near(t, u) ==
  LET a == decode(t)  b == decode(u)
  IN  /\ a.peer = b.peer /\ a.ref = b.ref /\ a.total = b.total
      /\ a.time <= b.time + Window /\ b.time <= a.time + Window

\* Mutant: a part joins an open group whether or not its number is taken.
JoinsTaken(m, p) == ~m.done /\ Near(m.text, p.text)
Joins(m, p) == ~m.done /\ Near(m.text, p.text) /\ \A q \in m.parts : q.part # p.part

Opened(t) == [text |-> t, parts |-> {}, done |-> FALSE]
Grown(m, p) ==
  [m EXCEPT !.parts = @ \cup {p}, !.done = Cardinality(m.parts \cup {p}) = decode(p.text).total]

\* A known PDU changes nothing; another joins the newest group that takes it, or opens one.
Grouped(p) ==
  LET groups == {i \in DOMAIN messages : Joins(messages[i], p)}
  IN  IF groups = {} THEN Append(messages, Grown(Opened(p.text), p))
      ELSE [messages EXCEPT ![Max(groups)] = Grown(@, p)]

FiledAgain(p) == Grouped(p)      \* mutant: known PDUs are not looked for
Filed(p) == IF Stored(p) THEN messages ELSE Grouped(p)

-----------------------------------------------------------------------------
(* sync: the list is read by one program of the port, and filed by a task of *)
(* its own, which goes on when its caller is gone.                           *)

Listing == [i \in {j \in Slots : sim[j] # None} |-> sim[i]]

Read(s) ==
  /\ lists[s] = None
  /\ lists' = [lists EXCEPT ![s] = Listing]
  /\ UNCHANGED <<sim, messages, legacy, cfg>>

\* The indices that are still to be filed; they are taken in order.
Left(s) == DOMAIN lists[s]

Import(s) ==
  /\ lists[s] # None
  /\ \E i \in Left(s) :
       /\ \A j \in Left(s) : i <= j
       /\ messages' = Filed(lists[s][i])
       /\ lists' = [lists EXCEPT ![s] = Restrict(@, Left(s) \ {i})]
  /\ UNCHANGED <<sim, legacy, worker, cfg, used, hist>>

\* The worker then awaits the next event, or the end of its interval.
Finish(s) ==
  /\ lists[s] # None /\ Left(s) = {}
  /\ lists' = [lists EXCEPT ![s] = None]
  /\ worker' = IF s # "worker" THEN worker
               ELSE [worker EXCEPT !.at = IF worker.urc = "none" THEN "sync" ELSE "wait"]
  /\ UNCHANGED <<sim, messages, legacy, cfg, used, hist>>

\* The database refuses a transaction: another one was written in between.  The rest of the
\* list is given up, and the worker drops its receiver.
ImportFail(s) ==
  /\ Event /\ lists[s] # None /\ Left(s) # {}
  /\ lists' = [lists EXCEPT ![s] = None]
  /\ worker' = IF s # "worker" THEN worker ELSE NewWorker(worker.mode)
  /\ UNCHANGED <<sim, messages, legacy, cfg, hist>>

-----------------------------------------------------------------------------
(* The worker of the modem.                                                  *)

Served == cfg \in {"poll", "urc"}

\* Every two seconds: a change of the configuration aborts the worker, but not its import.
\* Bound: one such import at a time.
Supervise ==
  /\ worker.mode # cfg
  /\ worker' = IF Served THEN NewWorker(cfg) ELSE NoWorker
  /\ lists["worker"] # None => lists["orphan"] = None
  /\ lists' = IF lists["worker"] = None THEN lists
              ELSE [lists EXCEPT !["orphan"] = lists["worker"], !["worker"] = None]
  /\ UNCHANGED <<sim, messages, legacy, cfg, used, hist>>

\* setup_urc subscribes before its program is sent.
Setup ==
  /\ worker.at = "sync" /\ worker.mode = "urc" /\ worker.urc = "none"
  /\ worker' = [worker EXCEPT !.urc = "quiet"]
  /\ UNCHANGED <<sim, messages, legacy, lists, cfg, used, hist>>

WorkerRead ==
  /\ worker.at = "sync" /\ (worker.mode = "urc" => worker.urc # "none")
  /\ Read("worker")
  /\ worker' = [worker EXCEPT !.at = "import"]
  /\ hist' = [hist EXCEPT !.missed = FALSE]
  /\ UNCHANGED used

WorkerReadFail ==
  /\ Event /\ worker.at = "sync" /\ worker.urc # "none"
  /\ worker' = [worker EXCEPT !.urc = "none"]
  /\ UNCHANGED <<sim, messages, legacy, lists, cfg, hist>>

\* Mutant: a closed port is awaited for ever.
WaitsOpen ==
  /\ worker.at = "wait" /\ worker.urc = "pending"
  /\ worker' = [worker EXCEPT !.at = "sync", !.urc = "quiet"]
  /\ UNCHANGED <<sim, messages, legacy, lists, cfg, used, hist>>

\* A notification, or a gap in the events, wakes the worker; a closed port also drops the receiver.
Wait ==
  /\ worker.at = "wait" /\ worker.urc \in {"pending", "closed"}
  /\ worker' = [worker EXCEPT !.at = "sync", !.urc = IF @ = "closed" THEN "none" ELSE "quiet"]
  /\ UNCHANGED <<sim, messages, legacy, lists, cfg, used, hist>>

Worker == Setup \/ WorkerRead \/ Wait

-----------------------------------------------------------------------------
(* The network, the modem and the port.                                      *)

\* A PDU arrives, perhaps not for the first time.  A port that is recovering from a failed
\* transaction takes the notification for a line of that: nobody hears of it.
Arrive(p) ==
  /\ used.arrivals < MaxArrivals /\ used' = [used EXCEPT !.arrivals = @ + 1]
  /\ \E i \in Slots : /\ sim[i] = None /\ \A j \in Slots : j < i => sim[j] # None
                      /\ sim' = [sim EXCEPT ![i] = p]
  /\ LET kept == [hist EXCEPT !.forgotten = @ \ {p}]
     IN  IF worker.urc # "quiet" THEN hist' = kept /\ UNCHANGED worker
         ELSE \/ worker' = [worker EXCEPT !.urc = "pending"] /\ hist' = kept
              \/ hist' = [kept EXCEPT !.missed = TRUE] /\ UNCHANGED worker
  /\ UNCHANGED <<messages, legacy, lists, cfg>>

Close ==
  /\ Event /\ worker.urc \in {"quiet", "pending"}
  /\ worker' = [worker EXCEPT !.urc = "closed"]
  /\ UNCHANGED <<sim, messages, legacy, lists, cfg, hist>>

-----------------------------------------------------------------------------
(* Clients and the daemon.                                                   *)

ClientSync == Event /\ Read("client") /\ UNCHANGED <<worker, hist>>

\* The segments of a message go with it.
Delete(i) ==
  /\ Event /\ messages' = RemoveAt(messages, i)
  /\ hist' = [hist EXCEPT !.forgotten = @ \cup messages[i].parts]
  /\ UNCHANGED <<sim, legacy, lists, worker, cfg>>

\* The PDU in the slot is compared with the one to be deleted, in the same program.
DeleteSim(i) ==
  /\ Event /\ sim[i] # None
  /\ sim' = [sim EXCEPT ![i] = None]
  /\ UNCHANGED <<messages, legacy, lists, worker, cfg, hist>>

\* All records of a document in one transaction, those that were imported before left out.
ImportLegacy(document) ==
  LET fresh == document \ legacy
      Old(r) == [text |-> r, parts |-> {}, done |-> TRUE]
      order == SetToSeq(fresh)
  IN  /\ Event /\ fresh # {}
      /\ legacy' = legacy \cup fresh
      /\ messages' = messages \o [k \in DOMAIN order |-> Old(order[k])]
      /\ UNCHANGED <<sim, lists, worker, cfg, hist>>

Edit ==
  /\ Event /\ cfg' \in Modes \ {cfg}
  /\ UNCHANGED <<sim, messages, legacy, lists, worker, hist>>

Crash ==
  /\ Event
  /\ lists' = [s \in Syncs |-> None] /\ worker' = NoWorker
  /\ UNCHANGED <<sim, messages, legacy, cfg, hist>>

Next ==
  \/ \E s \in Syncs : Import(s) \/ Finish(s) \/ ImportFail(s)
  \/ Supervise \/ Worker \/ WorkerReadFail
  \/ (\E p \in Pdus : Arrive(p)) \/ Close
  \/ ClientSync \/ (\E i \in DOMAIN messages : Delete(i)) \/ (\E i \in Slots : DeleteSim(i))
  \/ (\E document \in SUBSET Records : ImportLegacy(document))
  \/ Edit \/ Crash

Spec == Init /\ [][Next]_vars

\* The supervisor, the worker and the blocking tasks are run.
FairSpec ==
  /\ Spec /\ WF_vars(Supervise) /\ WF_vars(Worker)
  /\ \A s \in Syncs : WF_vars(Import(s) \/ Finish(s))

-----------------------------------------------------------------------------
(* Properties.                                                               *)

Listings == UNION {[I -> Pdus] : I \in SUBSET Slots}
Message == [text : Texts \cup Records, parts : SUBSET Pdus, done : BOOLEAN]

\* The types, and the schema's UNIQUE(modem_id, pdu) and primary key of legacy_imports: no PDU
\* and no old record is in two messages, with imports that run at once, fail and are repeated.
TypeOK ==
  /\ sim \in [Slots -> Pdus \cup {None}]
  /\ messages \in Seq(Message) /\ legacy \subseteq Records
  /\ lists \in [Syncs -> Listings \cup {None}]
  /\ worker \in [mode : Modes, at : {"off", "sync", "import", "wait"},
                 urc : {"none", "quiet", "pending", "closed"}]
  /\ cfg \in Modes
  /\ used \in [arrivals : 0..MaxArrivals, events : 0..MaxEvents]
  /\ hist \in [missed : BOOLEAN, forgotten : SUBSET Pdus]
  /\ \A i, j \in DOMAIN messages :
       i # j => /\ messages[i].parts \cap messages[j].parts = {}
                /\ messages[i].text \in Records => messages[i].text # messages[j].text

\* A message is reported as received if and only if it has every part, once each, and takes
\* them from several texts only if their sender used a reference again within the window.
HistoryIsSound ==
  \A i \in DOMAIN messages :
    LET m == messages[i]
    IN  m.text \in Texts =>
          /\ \A p, q \in m.parts : p # q => p.part # q.part /\ Near(m.text, p.text)
          /\ m.done <=> {p.part : p \in m.parts} = 1..decode(m.text).total

\* A message on the SIM gets into the history, whatever was lost, refused, aborted or restarted
\* in between, unless the port took its notification for something else.
ArrivalsImported ==
  \A p \in Pdus :
    []<>(OnSim(p) /\ Served => Stored(p) \/ hist.missed \/ p \in hist.forgotten)
=============================================================================
