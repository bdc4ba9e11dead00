---------------------------- MODULE SmsForward ----------------------------
(***************************************************************************)
(* Forwarding of received SMS to the destinations (sinks) of one modem:    *)
(* the outbox in SQLite, the worker that claims and posts, the handlers    *)
(* that change the configuration, and clients that delete a message or     *)
(* retry a delivery.                                                       *)
(*                                                                         *)
(* A step is one transaction, one write of the configuration file, or one  *)
(* request to a destination.  Time is abstract: "due" says that            *)
(* available_at has passed.  Rows of the modem that are never forwarded    *)
(* (sent messages, legacy imports) are left out.                           *)
(***************************************************************************)
EXTENDS Integers

CONSTANTS
  Messages,    (* received messages                                         *)
  MaxId,       (* bound: row ids                                            *)
  NumSinks,    (* destinations, in the order of the configuration           *)
  Targets,     (* what a destination points to                              *)
  Off,         (* the destination is disabled (it stays listed)             *)
  Configs,     (* configurations of the modem that may be saved             *)
  NoModem,     (* the modem is not configured                               *)
  MaxAttempts,
  MaxRetries,  (* bound: retries by clients of one delivery                 *)
  Admins,      (* calls that change the configuration                       *)
  MaxCrashes,  (* bound: crashes of the daemon                              *)
  DbFails,     (* may SQLite or the file system refuse an operation         *)
  None         (* no row, no job, no token                                  *)

Ids == 1..MaxId
Sinks == 1..NumSinks
SinkMap == [Sinks -> Targets \cup {Off}]
Config == [on : BOOLEAN, sink : SinkMap]

ASSUME ForwardAssumption ==
  /\ MaxId \in Nat /\ NumSinks \in Nat /\ MaxAttempts \in Nat \ {0}
  /\ MaxRetries \in Nat /\ MaxCrashes \in Nat /\ DbFails \in BOOLEAN
  /\ Off \notin Targets /\ Configs \subseteq Config \cup {NoModem} /\ NoModem \notin Config

Token == [msg : Messages, round : Nat, n : Nat]
Open == {"pending", "inflight", "failed"}
Job == [state : Open \cup {"delivered", "cancelled"}, attempts : 0..MaxAttempts,
        due : BOOLEAN, token : Token \cup {None}, target : Targets]
StoredRow == [msg : Messages, ready : BOOLEAN]
Start == [target : Targets, upto : SUBSET Ids, backlog : SUBSET Messages]

ASSUME NoneAssumption == None \notin Job \cup Token \cup StoredRow \cup Start

VARIABLES
  table,    (* messages: id -> row                                          *)
  jobs,     (* sms_deliveries, UNIQUE(message_id, sink_id)                  *)
  start,    (* sms_forward_start: fingerprint and minimum_id of each sink   *)
  live,     (* the configuration in memory                                  *)
  disk,     (* and in the file                                              *)
  worker,   (* the forwarding worker: position, snapshot, claim             *)
  admin,    (* the calls that change the configuration                      *)
  daemon,   (* is it up, and how often it crashed                           *)
  hist      (* history: posts since the last retry, rounds of retries, what *)
            (* destinations accepted, ids deleted                           *)

rowVars == <<table, jobs, start>>
vars == <<table, jobs, start, live, disk, worker, admin, daemon, hist>>

Idle(cfg) == [at |-> "idle", cfg |-> cfg, id |-> 0, sink |-> 0, token |-> None, ok |-> FALSE]

Init ==
  /\ table = [i \in Ids |-> None]
  /\ jobs = [i \in Ids |-> [s \in Sinks |-> None]]
  /\ start = [s \in Sinks |-> None]
  /\ disk \in Configs /\ live = disk
  /\ worker = Idle(disk)
  /\ admin = [a \in Admins |-> [at |-> "idle", cfg |-> disk]]
  /\ daemon = [up |-> FALSE, crashes |-> 0]
  /\ hist = [posts |-> [m \in Messages |-> [s \in Sinks |-> 0]],
             rounds |-> [m \in Messages |-> [s \in Sinks |-> 0]],
             accepted |-> {}, seen |-> {}, erased |-> {}]

-----------------------------------------------------------------------------
(* The outbox.                                                               *)

\* What becomes of a job.
Cancelled(j) == [j EXCEPT !.state = "cancelled", !.token = None]
Returned(j) == [j EXCEPT !.state = "pending", !.token = None]
Failed(j) == [j EXCEPT !.state = "failed"]
Leased(j, token) == [j EXCEPT !.state = "inflight", !.attempts = @ + 1, !.due = FALSE, !.token = token]
Recorded(j, state) == [j EXCEPT !.state = state, !.token = None, !.due = FALSE]
Retried(j) == [j EXCEPT !.state = "pending", !.attempts = 0, !.due = TRUE]
Ripe(j) == [j EXCEPT !.due = TRUE]

NewJob(t) == [state |-> "pending", attempts |-> 0, due |-> TRUE, token |-> None, target |-> t]
Is(i, s, states) == jobs[i][s] # None /\ jobs[i][s].state \in states

\* What persist_modem and the worker forward: nothing for a disabled modem.
Masked(cfg) == [s \in Sinks |-> IF cfg.on THEN cfg.sink[s] ELSE Off]

\* The destination is not what the table says it was.
Changed(s, sinks) == IF start[s] = None THEN sinks[s] # Off ELSE start[s].target # sinks[s]

\* Mutant: minimum_id is not updated with the fingerprint.
NewStartKept(sinks) ==
  [s \in Sinks |->
     IF ~Changed(s, sinks) THEN start[s]
     ELSE IF sinks[s] = Off THEN None
     ELSE [target |-> sinks[s],
           upto |-> IF start[s] = None THEN {i \in Ids : \E k \in Ids : k >= i /\ table[k] # None}
                    ELSE start[s].upto,
           backlog |-> {table[i].msg : i \in {k \in Ids : table[k] # None}}]]

\* Mutant: minimum_id is one too large.
NewStartAhead(sinks) ==
  [s \in Sinks |->
     IF ~Changed(s, sinks) THEN start[s]
     ELSE IF sinks[s] = Off THEN None
     ELSE [target |-> sinks[s],
           upto |-> {i \in Ids : i = 1 \/ \E k \in Ids : k >= i - 1 /\ table[k] # None},
           backlog |-> {table[i].msg : i \in {k \in Ids : table[k] # None}}]]

\* minimum_id is the largest id of the moment: upto is the ids it covers.
NewStart(sinks) ==
  [s \in Sinks |->
     IF ~Changed(s, sinks) THEN start[s]
     ELSE IF sinks[s] = Off THEN None
     ELSE [target |-> sinks[s],
           upto |-> {i \in Ids : \E k \in Ids : k >= i /\ table[k] # None},
           backlog |-> {table[i].msg : i \in {k \in Ids : table[k] # None}}]]

Wanted(i, s, sinks) ==
  /\ sinks[s] # Off /\ jobs[i][s] = None
  /\ table[i] # None /\ table[i].ready /\ i \notin NewStart(sinks)[s].upto

NewJobs(sinks) ==
  [i \in Ids |-> [s \in Sinks |->
     IF Changed(s, sinks) /\ Is(i, s, Open) THEN Cancelled(jobs[i][s])
     ELSE IF Wanted(i, s, sinks) THEN NewJob(sinks[s])
     ELSE jobs[i][s]]]

Enqueue(sinks) == start' = NewStart(sinks) /\ jobs' = NewJobs(sinks)

-----------------------------------------------------------------------------
(* The worker.                                                               *)

At(here) == daemon.up /\ worker.at = here
Goto(there) == worker' = [worker EXCEPT !.at = there]

\* state.config(): a snapshot, used until the end of the round.
Look ==
  /\ At("idle") /\ live # NoModem /\ \E s \in Sinks : Masked(live)[s] # Off
  /\ worker' = [Idle(live) EXCEPT !.at = "enqueue"]
  /\ UNCHANGED <<rowVars, live, disk, admin, daemon, hist>>

WorkerEnqueue ==
  /\ At("enqueue") /\ Goto("claim") /\ Enqueue(Masked(worker.cfg))
  /\ UNCHANGED <<table, live, disk, admin, daemon, hist>>

\* Mutant: an interrupted delivery keeps its lease.
ExpiredNever == jobs

\* claim: leases that ran out return to the queue ...
Expired ==
  [i \in Ids |-> [s \in Sinks |->
     IF Is(i, s, {"inflight"}) /\ jobs[i][s].due
     THEN Returned(jobs[i][s]) ELSE jobs[i][s]]]

Pending(i, s) == Expired[i][s] # None /\ Expired[i][s].state = "pending"
Spent(i, s) == Pending(i, s) /\ Expired[i][s].attempts >= MaxAttempts
ClaimableSpent(i, s) == Pending(i, s) /\ Expired[i][s].due   \* mutant: no limit
Claimable(i, s) == Pending(i, s) /\ Expired[i][s].due /\ Expired[i][s].attempts < MaxAttempts
Enabled(s) == Masked(worker.cfg)[s] # Off

\* ... those of the enabled sinks up to last that have no attempt left fail ...
Swept(last) ==
  [i \in Ids |-> [s \in Sinks |->
     IF s <= last /\ Enabled(s) /\ Spent(i, s) THEN Failed(Expired[i][s])
     ELSE Expired[i][s]]]

\* Mutant: the attempt is counted by complete only.
ClaimUncounted(i, s) ==
  /\ At("claim") /\ Enabled(s) /\ Claimable(i, s)
  /\ \A r \in Sinks, k \in Ids : r < s /\ Enabled(r) => ~Claimable(k, r)
  /\ LET token == [msg |-> table[i].msg, round |-> hist.rounds[table[i].msg][s], n |-> jobs[i][s].attempts + 1]
     IN  /\ jobs' = [Swept(s) EXCEPT ![i][s] = [Leased(@, token) EXCEPT !.attempts = @ - 1]]
         /\ worker' = [worker EXCEPT !.at = "post", !.id = i, !.sink = s, !.token = token]
  /\ UNCHANGED <<table, start, live, disk, admin, daemon, hist>>

\* ... and the first sink that has a job due gives one (which of them is left open).
Claim(i, s) ==
  /\ At("claim") /\ Enabled(s) /\ Claimable(i, s)
  /\ \A r \in Sinks, k \in Ids : r < s /\ Enabled(r) => ~Claimable(k, r)
  /\ LET token == [msg |-> table[i].msg, round |-> hist.rounds[table[i].msg][s], n |-> jobs[i][s].attempts + 1]
     IN  /\ jobs' = [Swept(s) EXCEPT ![i][s] = Leased(@, token)]
         /\ worker' = [worker EXCEPT !.at = "post", !.id = i, !.sink = s, !.token = token]
  /\ UNCHANGED <<table, start, live, disk, admin, daemon, hist>>

ClaimNothing ==
  /\ At("claim") /\ Goto("idle")
  /\ \A i \in Ids, s \in Sinks : Enabled(s) => ~Claimable(i, s)
  /\ jobs' = Swept(NumSinks)
  /\ UNCHANGED <<table, start, live, disk, admin, daemon, hist>>

\* Mutant: an answer is taken for a success.
PostTrusting(accepts, answered) ==
  /\ At("post")
  /\ worker' = [worker EXCEPT !.at = "complete", !.ok = answered]
  /\ hist' = [hist EXCEPT !.posts[worker.token.msg][worker.sink] = @ + 1,
                          !.accepted = IF accepts THEN @ \cup {<<worker.token.msg, worker.sink>>} ELSE @]
  /\ UNCHANGED <<rowVars, live, disk, admin, daemon>>

\* deliver: the destination may accept the message and its answer be lost.
Post(accepts, answered) ==
  /\ At("post")
  /\ worker' = [worker EXCEPT !.at = "complete", !.ok = accepts /\ answered]
  /\ hist' = [hist EXCEPT !.posts[worker.token.msg][worker.sink] = @ + 1,
                          !.accepted = IF accepts THEN @ \cup {<<worker.token.msg, worker.sink>>} ELSE @]
  /\ UNCHANGED <<rowVars, live, disk, admin, daemon>>

\* The claim of the worker still stands in the table.
Held == Is(worker.id, worker.sink, {"inflight"}) /\ jobs[worker.id][worker.sink].token = worker.token

Settled == IF worker.ok THEN "delivered"
           ELSE IF worker.token.n >= MaxAttempts THEN "failed" ELSE "pending"

Record == jobs' = [jobs EXCEPT ![worker.id][worker.sink] = Recorded(@, Settled)]

\* complete: without the claim it is an error, which is only logged.
Complete ==
  /\ At("complete") /\ worker' = Idle(worker.cfg)
  /\ IF Held THEN Record ELSE UNCHANGED jobs
  /\ UNCHANGED <<table, start, live, disk, admin, daemon, hist>>

WorkerError ==
  /\ DbFails /\ daemon.up /\ worker.at \in {"enqueue", "claim", "complete"}
  /\ worker' = Idle(worker.cfg)
  /\ UNCHANGED <<rowVars, live, disk, admin, daemon, hist>>

\* available_at passes.
Ripen(i, s) ==
  /\ Is(i, s, {"pending", "inflight"}) /\ ~jobs[i][s].due
  /\ jobs' = [jobs EXCEPT ![i][s] = Ripe(@)]
  /\ UNCHANGED <<table, start, live, disk, worker, admin, daemon, hist>>

-----------------------------------------------------------------------------
(* The handlers that change the configuration.                               *)

Step(a, here) == daemon.up /\ admin[a].at = here
Late == {"writing", "enqueueing"}   \* the client left, the blocking call goes on
Busy == {"persist", "written", "enqueued"} \cup Late
To(a, there) == admin' = [admin EXCEPT ![a].at = there]
Unlocked == \A b \in Admins : admin[b].at \notin {"written", "enqueued"}

\* PUT sms/config enqueues with the new destinations before it saves them.
Configure(a, cfg) ==
  /\ Step(a, "idle") /\ live # NoModem /\ live.on /\ cfg # NoModem /\ cfg.on
  /\ Enqueue(cfg.sink)
  /\ admin' = [admin EXCEPT ![a] = [at |-> "persist", cfg |-> cfg]]
  /\ UNCHANGED <<table, live, disk, worker, daemon, hist>>

\* PUT or DELETE of the modem.
SaveModem(a, cfg) ==
  /\ Step(a, "idle")
  /\ admin' = [admin EXCEPT ![a] = [at |-> "persist", cfg |-> cfg]]
  /\ UNCHANGED <<rowVars, live, disk, worker, daemon, hist>>

\* persist_modem, under the lock of the configuration: the file, ...
WriteDisk(a) ==
  /\ Step(a, "persist") /\ Unlocked /\ To(a, "written")
  /\ disk' = admin[a].cfg
  /\ UNCHANGED <<rowVars, live, worker, daemon, hist>>

\* ... the outbox (a modem no longer configured keeps its jobs), ...
Apply(cfg) == IF cfg = NoModem THEN UNCHANGED <<jobs, start>> ELSE Enqueue(Masked(cfg))

PersistEnqueue(a) ==
  /\ Step(a, "written") /\ To(a, "enqueued") /\ Apply(admin[a].cfg)
  /\ UNCHANGED <<table, live, disk, worker, daemon, hist>>

\* ... and the configuration in memory.
Swap(a) ==
  /\ Step(a, "enqueued") /\ To(a, "done")
  /\ live' = admin[a].cfg
  /\ UNCHANGED <<rowVars, disk, worker, daemon, hist>>

AdminError(a) ==
  /\ DbFails /\ daemon.up /\ admin[a].at \in {"persist", "written"} \cup Late /\ To(a, "error")
  /\ UNCHANGED <<rowVars, live, disk, worker, daemon, hist>>

\* The client leaves at an await of the handler: the lock is free again, but a call that
\* runs on a blocking thread cannot be stopped ...
Leave(a) ==
  /\ daemon.up
  /\ \/ admin[a].at \in {"persist", "enqueued"} /\ To(a, "left")
     \/ admin[a].at = "persist" /\ Unlocked /\ To(a, "writing")
     \/ admin[a].at = "written" /\ To(a, "enqueueing")
  /\ UNCHANGED <<rowVars, live, disk, worker, daemon, hist>>

\* ... and ends later.
LateWrite(a) ==
  /\ Step(a, "writing") /\ To(a, "left")
  /\ disk' = admin[a].cfg
  /\ UNCHANGED <<rowVars, live, worker, daemon, hist>>

LateEnqueue(a) ==
  /\ Step(a, "enqueueing") /\ To(a, "left") /\ Apply(admin[a].cfg)
  /\ UNCHANGED <<table, live, disk, worker, daemon, hist>>

-----------------------------------------------------------------------------
(* Messages and clients.                                                     *)

NextRowid(i) ==
  \A k \in Ids : /\ k >= i => table[k] = None
                 /\ k = i - 1 => table[k] # None

\* A message arrives whole, or its first part does.
Arrive(m, i, whole) ==
  /\ daemon.up /\ m \notin hist.seen /\ NextRowid(i)
  /\ table' = [table EXCEPT ![i] = [msg |-> m, ready |-> whole]]
  /\ hist' = [hist EXCEPT !.seen = @ \cup {m}]
  /\ UNCHANGED <<jobs, start, live, disk, worker, admin, daemon>>

LastPart(i) ==
  /\ daemon.up /\ table[i] # None /\ ~table[i].ready
  /\ table' = [table EXCEPT ![i].ready = TRUE]
  /\ UNCHANGED <<jobs, start, live, disk, worker, admin, daemon, hist>>

\* Deleting a message deletes its jobs (ON DELETE CASCADE).
DeleteMessage(i) ==
  /\ daemon.up /\ live # NoModem /\ table[i] # None
  /\ table' = [table EXCEPT ![i] = None]
  /\ jobs' = [jobs EXCEPT ![i] = [s \in Sinks |-> None]]
  /\ hist' = [hist EXCEPT !.erased = @ \cup {i}]
  /\ UNCHANGED <<start, live, disk, worker, admin, daemon>>

Requeued(i, s) ==
  /\ hist.rounds[table[i].msg][s] < MaxRetries
  /\ jobs' = [jobs EXCEPT ![i][s] = Retried(@)]
  /\ hist' = [hist EXCEPT !.posts[table[i].msg][s] = 0, !.rounds[table[i].msg][s] = @ + 1]

\* Mutant: a delivery in any state is retried.
RetryAny(i, s) ==
  /\ daemon.up /\ live # NoModem /\ jobs[i][s] # None /\ Requeued(i, s)
  /\ UNCHANGED <<table, start, live, disk, worker, admin, daemon>>

RetryDelivery(i, s) ==
  /\ daemon.up /\ live # NoModem /\ Is(i, s, {"failed"}) /\ Requeued(i, s)
  /\ UNCHANGED <<table, start, live, disk, worker, admin, daemon>>

-----------------------------------------------------------------------------
Crash ==
  /\ daemon.up /\ daemon.crashes < MaxCrashes
  /\ daemon' = [up |-> FALSE, crashes |-> daemon.crashes + 1]
  /\ worker' = Idle(disk) /\ live' = disk
  /\ admin' = [a \in Admins |-> IF admin[a].at \in Busy THEN [admin[a] EXCEPT !.at = "left"] ELSE admin[a]]
  /\ UNCHANGED <<rowVars, disk, hist>>

\* serve(): a disabled modem is not left out here.
Restart ==
  /\ ~daemon.up /\ daemon' = [daemon EXCEPT !.up = TRUE]
  /\ IF disk = NoModem THEN UNCHANGED <<jobs, start>> ELSE Enqueue(disk.sink)
  /\ UNCHANGED <<table, live, disk, worker, admin, hist>>

Worker ==
  \/ Look \/ WorkerEnqueue \/ ClaimNothing \/ Complete \/ WorkerError
  \/ \E i \in Ids, s \in Sinks : Claim(i, s)
  \/ \E accepts, answered \in BOOLEAN : Post(accepts, answered)

Admin(a) ==
  \/ \E cfg \in Configs : Configure(a, cfg) \/ SaveModem(a, cfg)
  \/ WriteDisk(a) \/ PersistEnqueue(a) \/ Swap(a) \/ AdminError(a)
  \/ Leave(a) \/ LateWrite(a) \/ LateEnqueue(a)

Client ==
  \/ \E m \in Messages, i \in Ids, whole \in BOOLEAN : Arrive(m, i, whole)
  \/ \E i \in Ids : LastPart(i) \/ DeleteMessage(i)
  \/ \E i \in Ids, s \in Sinks : RetryDelivery(i, s)

Next ==
  \/ Worker \/ Client \/ Crash \/ Restart
  \/ \E a \in Admins : Admin(a)
  \/ \E i \in Ids, s \in Sinks : Ripen(i, s)

Spec == Init /\ [][Next]_vars

\* The runtime polls the worker, time passes, and procd respawns the daemon.
FairSpec ==
  /\ Spec /\ WF_vars(Worker) /\ WF_vars(Restart)
  /\ \A i \in Ids, s \in Sinks : WF_vars(Ripen(i, s))
-----------------------------------------------------------------------------
(* Properties.                                                               *)

TypeOK ==
  /\ table \in [Ids -> StoredRow \cup {None}]
  /\ jobs \in [Ids -> [Sinks -> Job \cup {None}]]
  /\ start \in [Sinks -> Start \cup {None}]
  /\ live \in Configs /\ disk \in Configs
  /\ worker \in [at : {"idle", "enqueue", "claim", "post", "complete"}, cfg : Configs,
                 id : Ids \cup {0}, sink : Sinks \cup {0}, token : Token \cup {None}, ok : BOOLEAN]
  /\ admin \in [Admins -> [at : Busy \cup {"idle", "done", "error", "left"}, cfg : Configs]]
  /\ daemon \in [up : BOOLEAN, crashes : Nat]
  /\ hist \in [posts : [Messages -> [Sinks -> Nat]], rounds : [Messages -> [Sinks -> Nat]],
               accepted : SUBSET (Messages \X Sinks), seen : SUBSET Messages, erased : SUBSET Ids]

\* max_attempts bounds the requests sent for a message, over crashes, lost answers and
\* database errors, until a client asks for a retry.
AttemptsBounded == \A m \in Messages, s \in Sinks : hist.posts[m][s] <= MaxAttempts

\* A delivery is recorded as delivered only when the destination accepted its message.
DeliveredTruthful ==
  \A i \in Ids, s \in Sinks :
    Is(i, s, {"delivered"}) => <<table[i].msg, s>> \in hist.accepted

\* Every unfinished job is one of the destination as the table has it now and of a message
\* that arrived after its activation: changing or disabling a destination leaves none.
OpenJobsBelong ==
  \A i \in Ids, s \in Sinks :
    Is(i, s, Open) => /\ start[s] # None /\ start[s].target = jobs[i][s].target
                      /\ table[i] # None /\ table[i].msg \notin start[s].backlog

\* While the worker posts, nobody else can take or requeue its job: it is in flight under the
\* worker's token, or cancelled, or its message is deleted.
ClaimIsExclusive ==
  worker.at \in {"post", "complete"} =>
    LET i == worker.id  s == worker.sink
    IN  table[i] # None /\ table[i].msg = worker.token.msg => Held \/ Is(i, s, {"cancelled"})

\* A delivery that is done, delivered or cancelled, stays so while its message exists.
DoneIsFinal ==
  [][\A i \in Ids, s \in Sinks :
       Is(i, s, {"delivered", "cancelled"}) => jobs'[i][s] \in {jobs[i][s], None}]_vars

\* A round of the worker misses no complete message that arrived after the activation of a
\* destination, whatever crashed in between, except for an id used before.
NewMessagesQueued ==
  [][worker.at = "enqueue" /\ worker'.at = "claim" =>
       \A i \in Ids \ hist.erased, s \in Sinks :
         /\ Enabled(s) /\ table[i] # None /\ table[i].ready
         /\ start'[s] # None /\ table[i].msg \notin start'[s].backlog
         => jobs'[i][s] # None]_vars

\* Every job comes to an end, over crashes too.
JobsSettle ==
  \A i \in Ids, s \in Sinks : Is(i, s, {"pending", "inflight"}) ~> ~Is(i, s, {"pending", "inflight"})
=============================================================================
