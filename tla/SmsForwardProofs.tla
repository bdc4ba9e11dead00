------------------------- MODULE SmsForwardProofs -------------------------
(***************************************************************************)
(* Proofs about SmsForward, for any number of messages, destinations,      *)
(* configurations, administrators, retries and crashes.                    *)
(*                                                                         *)
(* The inductive invariant relates the outbox to the rows and their ids    *)
(* (RowsInv) and the worker's claim to its job (WorkerInv).                *)
(***************************************************************************)
EXTENDS SmsForward, TLAPS

Stored(i, m) == table[i] # None /\ table[i].msg = m

\* A message is stored once in its life, under one id.
StoredOnce ==
  /\ \A i \in Ids : table[i] # None => table[i].msg \in hist.seen
  /\ \A i, k \in Ids : table[i] # None /\ table[k] # None /\ table[i].msg = table[k].msg => i = k
  /\ \A i \in Ids, s \in Sinks : jobs[i][s] # None => table[i] # None

\* minimum_id separates the backlog from what came after, except for ids used again.
Boundary ==
  \A s \in Sinks : start[s] # None =>
    /\ start[s].backlog \subseteq hist.seen
    /\ \A i \in Ids : table[i] # None /\ table[i].msg \in start[s].backlog => i \in start[s].upto
    /\ \A i \in start[s].upto \ hist.erased : table[i] # None /\ table[i].msg \in start[s].backlog

\* Only deleted rows leave gaps between the ids.
Dense ==
  \A i, k \in Ids : i < k /\ table[k] # None /\ i \notin hist.erased => table[i] # None

TokenFits ==
  \A i \in Ids, s \in Sinks : jobs[i][s] # None =>
    IF jobs[i][s].state = "inflight"
    THEN /\ jobs[i][s].token \in Token /\ jobs[i][s].token.n = jobs[i][s].attempts
         /\ jobs[i][s].token.msg = table[i].msg
    ELSE jobs[i][s].token = None

\* Every post was counted as an attempt before.
PostsCounted ==
  /\ \A i \in Ids, s \in Sinks : table[i] # None =>
       IF jobs[i][s] = None THEN hist.posts[table[i].msg][s] = 0
       ELSE hist.posts[table[i].msg][s] <= jobs[i][s].attempts
  /\ \A m \in Messages \ hist.seen, s \in Sinks : hist.posts[m][s] = 0

RowsInv ==
  /\ StoredOnce /\ Boundary /\ Dense /\ OpenJobsBelong /\ TokenFits
  /\ DeliveredTruthful /\ PostsCounted /\ AttemptsBounded

\* The claim of the worker, and what is left of it in the table.
WorkerInv ==
  /\ worker.at \in {"enqueue", "claim", "post", "complete"} => worker.cfg # NoModem
  /\ worker.at \in {"post", "complete"} =>
       /\ worker.id \in Ids /\ worker.sink \in Sinks /\ worker.token \in Token
       /\ worker.token.msg \in hist.seen /\ worker.token.n <= MaxAttempts
       /\ \A k \in Ids : Stored(k, worker.token.msg) => k = worker.id
       /\ Stored(worker.id, worker.token.msg) =>
            /\ jobs[worker.id][worker.sink] # None
            /\ jobs[worker.id][worker.sink].attempts = worker.token.n
            /\ Held \/ Is(worker.id, worker.sink, {"cancelled"})
       /\ worker.at = "post" => hist.posts[worker.token.msg][worker.sink] < worker.token.n
       /\ worker.at = "complete" /\ worker.ok => <<worker.token.msg, worker.sink>> \in hist.accepted

ForwardInv == TypeOK /\ RowsInv /\ WorkerInv
-----------------------------------------------------------------------------
(* What each operation does to a job.                                        *)

\* The fields of k that are those of j.
SameTarget(j, k) == k.target = j.target
SameCount(j, k) == k.attempts = j.attempts /\ k.target = j.target

LEMMA CancelledJob ==
  ASSUME NEW j \in Job
  PROVE  /\ Cancelled(j) \in Job /\ SameCount(j, Cancelled(j))
         /\ Cancelled(j).state = "cancelled" /\ Cancelled(j).token = None
  BY DEF Job, Cancelled, SameCount

LEMMA ReturnedJob ==
  ASSUME NEW j \in Job
  PROVE  /\ Returned(j) \in Job /\ SameCount(j, Returned(j))
         /\ Returned(j).state = "pending" /\ Returned(j).token = None
  BY DEF Job, Open, Returned, SameCount

LEMMA FailedJob ==
  ASSUME NEW j \in Job
  PROVE  /\ Failed(j) \in Job /\ SameCount(j, Failed(j))
         /\ Failed(j).state = "failed" /\ Failed(j).token = j.token
  BY DEF Job, Open, Failed, SameCount

LEMMA LeasedJob ==
  ASSUME NEW j \in Job, NEW token \in Token, j.attempts < MaxAttempts
  PROVE  /\ Leased(j, token) \in Job /\ SameTarget(j, Leased(j, token))
         /\ Leased(j, token).attempts = j.attempts + 1
         /\ Leased(j, token).state = "inflight" /\ Leased(j, token).token = token
<1>1. j.attempts + 1 \in 0..MaxAttempts  BY ForwardAssumption DEF Job
<1>. QED  BY <1>1 DEF Job, Open, Leased, SameTarget

LEMMA RecordedJob ==
  ASSUME NEW j \in Job, NEW state \in {"delivered", "failed", "pending"}
  PROVE  /\ Recorded(j, state) \in Job /\ SameCount(j, Recorded(j, state))
         /\ Recorded(j, state).state = state /\ Recorded(j, state).token = None
  BY DEF Job, Open, Recorded, SameCount

LEMMA RetriedJob ==
  ASSUME NEW j \in Job
  PROVE  /\ Retried(j) \in Job /\ SameTarget(j, Retried(j)) /\ Retried(j).attempts = 0
         /\ Retried(j).state = "pending" /\ Retried(j).token = j.token
<1>1. 0 \in 0..MaxAttempts  BY ForwardAssumption
<1>. QED  BY <1>1 DEF Job, Open, Retried, SameTarget

LEMMA RipeJob ==
  ASSUME NEW j \in Job
  PROVE  /\ Ripe(j) \in Job /\ SameCount(j, Ripe(j))
         /\ Ripe(j).state = j.state /\ Ripe(j).token = j.token
  BY DEF Job, Ripe, SameCount

LEMMA FreshJob ==
  ASSUME NEW t \in Targets
  PROVE  /\ NewJob(t) \in Job /\ NewJob(t).attempts = 0 /\ NewJob(t).target = t
         /\ NewJob(t).state = "pending" /\ NewJob(t).token = None
<1>1. 0 \in 0..MaxAttempts  BY ForwardAssumption
<1>. QED  BY <1>1 DEF Job, Open, NewJob

LEMMA NoneIsNot == None \notin Job /\ None \notin Token /\ None \notin StoredRow /\ None \notin Start
  BY NoneAssumption

LEMMA JobTypes ==
  ASSUME TypeOK, NEW i \in Ids, NEW s \in Sinks, jobs[i][s] # None
  PROVE  /\ jobs[i][s] \in Job /\ jobs[i][s].state \in Open \cup {"delivered", "cancelled"}
         /\ jobs[i][s].attempts \in 0..MaxAttempts /\ jobs[i][s].due \in BOOLEAN
         /\ jobs[i][s].token \in Token \cup {None} /\ jobs[i][s].target \in Targets
<1>1. jobs[i][s] \in Job  BY DEF TypeOK
<1>. QED  BY <1>1 DEF Job

LEMMA MaskedType ==
  ASSUME NEW cfg \in Configs, cfg # NoModem
  PROVE  Masked(cfg) \in SinkMap /\ cfg.sink \in SinkMap
<1>1. cfg \in Config  BY ForwardAssumption
<1>. QED  BY <1>1 DEF Config, Masked, SinkMap

-----------------------------------------------------------------------------
(* Enqueue, in the worker, the handlers and at start-up.                     *)

\* What Enqueue does to one sink and one job.
LEMMA StartAfter ==
  ASSUME TypeOK, NEW sinks \in SinkMap, start' = NewStart(sinks), NEW s \in Sinks
  PROVE  /\ ~Changed(s, sinks) => start'[s] = start[s]
         /\ Changed(s, sinks) /\ sinks[s] = Off => start'[s] = None
         /\ Changed(s, sinks) /\ sinks[s] # Off =>
              /\ start'[s] \in Start /\ start'[s].target = sinks[s]
              /\ start'[s].upto = {i \in Ids : \E k \in Ids : k >= i /\ table[k] # None}
              /\ start'[s].backlog = {table[i].msg : i \in {k \in Ids : table[k] # None}}
         /\ start'[s] \in Start \cup {None}
<1> DEFINE upto == {i \in Ids : \E k \in Ids : k >= i /\ table[k] # None}
           backlog == {table[i].msg : i \in {k \in Ids : table[k] # None}}
<1>1. start'[s] = IF ~Changed(s, sinks) THEN start[s]
                  ELSE IF sinks[s] = Off THEN None
                  ELSE [target |-> sinks[s], upto |-> upto, backlog |-> backlog]
  BY DEF NewStart
<1>2. upto \in SUBSET Ids  OBVIOUS
<1>3. backlog \in SUBSET Messages
  <2>1. ASSUME NEW i \in Ids, table[i] # None  PROVE table[i].msg \in Messages
    BY <2>1 DEF TypeOK, StoredRow
  <2>. QED  BY <2>1
<1>4. sinks[s] # Off => sinks[s] \in Targets  BY DEF SinkMap
<1>5. start[s] \in Start \cup {None}  BY DEF TypeOK
<1> HIDE DEF upto, backlog
<1>6. sinks[s] # Off => [target |-> sinks[s], upto |-> upto, backlog |-> backlog] \in Start
  BY <1>2, <1>3, <1>4 DEF Start
<1>7. CASE ~Changed(s, sinks)  BY <1>1, <1>5, <1>7
<1>8. CASE Changed(s, sinks) /\ sinks[s] = Off  BY <1>1, <1>8
<1>9. CASE Changed(s, sinks) /\ sinks[s] # Off  BY <1>1, <1>6, <1>9 DEF upto, backlog
<1>. QED  BY <1>7, <1>8, <1>9

LEMMA JobAfter ==
  ASSUME TypeOK, NEW sinks \in SinkMap, Enqueue(sinks), NEW i \in Ids, NEW s \in Sinks
  PROVE  /\ jobs'[i][s] = IF Changed(s, sinks) /\ Is(i, s, Open) THEN Cancelled(jobs[i][s])
                          ELSE IF Wanted(i, s, sinks) THEN NewJob(sinks[s]) ELSE jobs[i][s]
         /\ jobs'[i][s] \in Job \cup {None}
<1>1. jobs'[i][s] = IF Changed(s, sinks) /\ Is(i, s, Open) THEN Cancelled(jobs[i][s])
                    ELSE IF Wanted(i, s, sinks) THEN NewJob(sinks[s]) ELSE jobs[i][s]
  BY DEF Enqueue, NewJobs
<1>2. Is(i, s, Open) => Cancelled(jobs[i][s]) \in Job  BY JobTypes, CancelledJob DEF Is
<1>3. Wanted(i, s, sinks) => NewJob(sinks[s]) \in Job  BY FreshJob DEF Wanted, SinkMap
<1>4. jobs[i][s] \in Job \cup {None}  BY DEF TypeOK
<1>. QED  BY <1>1, <1>2, <1>3, <1>4

LEMMA EnqueueType ==
  ASSUME TypeOK, NEW sinks \in SinkMap, Enqueue(sinks)
  PROVE  /\ jobs' \in [Ids -> [Sinks -> Job \cup {None}]]
         /\ start' \in [Sinks -> Start \cup {None}]
<1>1. \A s \in Sinks : start'[s] \in Start \cup {None}  BY StartAfter DEF Enqueue
<1>2. \A i \in Ids, s \in Sinks : jobs'[i][s] \in Job \cup {None}  BY JobAfter
<1>3. DOMAIN start' = Sinks /\ start' = [s \in Sinks |-> start'[s]]  BY DEF Enqueue, NewStart
<1>4. jobs' = [i \in Ids |-> [s \in Sinks |-> jobs'[i][s]]]  BY DEF Enqueue, NewJobs
<1>. QED  BY <1>1, <1>2, <1>3, <1>4

-----------------------------------------------------------------------------
(* Type correctness.                                                         *)

\* The job an action gives another value.
LEMMA PutJob ==
  ASSUME TypeOK, NEW i \in Ids, NEW s \in Sinks, NEW j \in Job \cup {None},
         jobs' = [jobs EXCEPT ![i][s] = j]
  PROVE  /\ jobs' \in [Ids -> [Sinks -> Job \cup {None}]]
         /\ jobs'[i][s] = j
         /\ \A k \in Ids, r \in Sinks : <<k, r>> # <<i, s>> => jobs'[k][r] = jobs[k][r]
  BY DEF TypeOK

\* claim: the jobs after the leases that ran out and the sinks that were swept.
LEMMA SweptType ==
  ASSUME TypeOK, NEW last, worker.cfg # NoModem
  PROVE  /\ Expired \in [Ids -> [Sinks -> Job \cup {None}]]
         /\ Swept(last) \in [Ids -> [Sinks -> Job \cup {None}]]
<1>1. ASSUME NEW i \in Ids, NEW s \in Sinks
      PROVE  Expired[i][s] \in Job \cup {None}
  <2>1. Is(i, s, {"inflight"}) => Returned(jobs[i][s]) \in Job  BY JobTypes, ReturnedJob DEF Is
  <2>. QED  BY <2>1 DEF Expired, TypeOK
<1>2. ASSUME NEW i \in Ids, NEW s \in Sinks
      PROVE  Swept(last)[i][s] \in Job \cup {None}
  <2>1. Spent(i, s) => Failed(Expired[i][s]) \in Job  BY <1>1, FailedJob DEF Spent, Pending
  <2>. QED  BY <1>1, <2>1 DEF Swept
<1>3. Expired = [i \in Ids |-> [s \in Sinks |-> Expired[i][s]]]  BY DEF Expired
<1>4. Swept(last) = [i \in Ids |-> [s \in Sinks |-> Swept(last)[i][s]]]  BY DEF Swept
<1>. QED  BY <1>1, <1>2, <1>3, <1>4

\* The job that a claim takes, and the others.
LEMMA ClaimJobs ==
  ASSUME TypeOK, WorkerInv, StoredOnce, NEW i \in Ids, NEW s \in Sinks, Claim(i, s)
  PROVE  /\ jobs' \in [Ids -> [Sinks -> Job \cup {None}]]
         /\ worker.cfg # NoModem /\ jobs[i][s] # None /\ table[i] # None
         /\ jobs[i][s].state \in {"pending", "inflight"} /\ jobs[i][s].attempts < MaxAttempts
         /\ worker'.token \in Token /\ worker'.id = i /\ worker'.sink = s /\ worker'.at = "post"
         /\ worker'.cfg = worker.cfg /\ worker'.ok = worker.ok
         /\ worker'.token.msg = table[i].msg /\ worker'.token.n = jobs[i][s].attempts + 1
         /\ jobs'[i][s] \in Job /\ SameTarget(jobs[i][s], jobs'[i][s])
         /\ jobs'[i][s].attempts = jobs[i][s].attempts + 1
         /\ jobs'[i][s].state = "inflight" /\ jobs'[i][s].token = worker'.token
         /\ \A k \in Ids, r \in Sinks : <<k, r>> # <<i, s>> => jobs'[k][r] = Swept(s)[k][r]
<1> DEFINE token == [msg |-> table[i].msg, round |-> hist.rounds[table[i].msg][s], n |-> jobs[i][s].attempts + 1]
<1>1. worker.cfg # NoModem  BY DEF WorkerInv, Claim, At
<1>2. /\ Expired \in [Ids -> [Sinks -> Job \cup {None}]]
      /\ Swept(s) \in [Ids -> [Sinks -> Job \cup {None}]]
  BY <1>1, SweptType
<1>3. Expired[i][s] # None /\ Expired[i][s].state = "pending" /\ Expired[i][s].attempts < MaxAttempts
  BY DEF Claim, Claimable, Pending
<1>4. Expired[i][s] = IF Is(i, s, {"inflight"}) /\ jobs[i][s].due THEN Returned(jobs[i][s]) ELSE jobs[i][s]
  BY DEF Expired
<1>5. /\ jobs[i][s] # None /\ jobs[i][s] \in Job /\ SameCount(jobs[i][s], Expired[i][s])
      /\ jobs[i][s].state \in {"pending", "inflight"}
  <2>1. jobs[i][s] # None  BY <1>3, <1>4 DEF Is
  <2>2. jobs[i][s] \in Job  BY <2>1, JobTypes
  <2>3. SameCount(jobs[i][s], Returned(jobs[i][s]))  BY <2>2, ReturnedJob
  <2>. QED  BY <1>3, <1>4, <2>1, <2>2, <2>3 DEF Is, SameCount
<1>6. table[i] # None  BY <1>5 DEF StoredOnce
<1>7. token \in Token
  <2>1. table[i].msg \in Messages  BY <1>6 DEF TypeOK, StoredRow
  <2>2. hist.rounds[table[i].msg][s] \in Nat  BY <2>1 DEF TypeOK
  <2>3. jobs[i][s].attempts + 1 \in Nat  BY <1>5, ForwardAssumption DEF Job
  <2>. QED  BY <2>1, <2>2, <2>3 DEF Token
<1>8. token.msg = table[i].msg /\ token.n = jobs[i][s].attempts + 1  OBVIOUS
<1>9. /\ jobs' = [Swept(s) EXCEPT ![i][s] = Leased(@, token)]
      /\ worker' = [worker EXCEPT !.at = "post", !.id = i, !.sink = s, !.token = token]
  BY DEF Claim
<1> HIDE DEF token
<1>10. /\ worker'.token = token /\ worker'.id = i /\ worker'.sink = s /\ worker'.at = "post"
       /\ worker'.cfg = worker.cfg /\ worker'.ok = worker.ok
  BY <1>9 DEF TypeOK
<1>11. Swept(s)[i][s] = Expired[i][s]
  BY <1>3, ForwardAssumption, JobTypes, <1>5 DEF Swept, Spent, SameCount
<1>12. /\ Leased(Swept(s)[i][s], token) \in Job
       /\ SameTarget(Swept(s)[i][s], Leased(Swept(s)[i][s], token))
       /\ Leased(Swept(s)[i][s], token).attempts = Swept(s)[i][s].attempts + 1
       /\ Leased(Swept(s)[i][s], token).state = "inflight" /\ Leased(Swept(s)[i][s], token).token = token
  BY <1>2, <1>3, <1>7, <1>11, LeasedJob
<1>13. /\ jobs'[i][s] = Leased(Swept(s)[i][s], token)
       /\ jobs' \in [Ids -> [Sinks -> Job \cup {None}]]
       /\ \A k \in Ids, r \in Sinks : <<k, r>> # <<i, s>> => jobs'[k][r] = Swept(s)[k][r]
  BY <1>2, <1>9, <1>12
<1>. QED  BY <1>1, <1>3, <1>5, <1>6, <1>7, <1>8, <1>10, <1>11, <1>12, <1>13 DEF SameCount, SameTarget

WorkerSet == [at : {"idle", "enqueue", "claim", "post", "complete"}, cfg : Configs,
              id : Ids \cup {0}, sink : Sinks \cup {0}, token : Token \cup {None}, ok : BOOLEAN]
AdminSet == [at : Busy \cup {"idle", "done", "error", "left"}, cfg : Configs]
HistSet == [posts : [Messages -> [Sinks -> Nat]], rounds : [Messages -> [Sinks -> Nat]],
            accepted : SUBSET (Messages \X Sinks), seen : SUBSET Messages, erased : SUBSET Ids]

LEMMA TypeInit ==
  ASSUME Init  PROVE TypeOK
<1>1. table \in [Ids -> StoredRow \cup {None}]  BY DEF Init
<1>2. jobs \in [Ids -> [Sinks -> Job \cup {None}]]  BY DEF Init
<1>3. start \in [Sinks -> Start \cup {None}]  BY DEF Init
<1>4. live \in Configs /\ disk \in Configs  BY DEF Init
<1>5. worker \in WorkerSet  BY <1>4 DEF Init, Idle, WorkerSet
<1>6. admin \in [Admins -> AdminSet]  BY <1>4 DEF Init, AdminSet
<1>7. daemon \in [up : BOOLEAN, crashes : Nat]  BY DEF Init
<1>8. hist \in HistSet  BY DEF Init, HistSet
<1>. QED  BY <1>1, <1>2, <1>3, <1>4, <1>5, <1>6, <1>7, <1>8 DEF TypeOK, WorkerSet, AdminSet, HistSet

\* The worker's actions change jobs, start, worker and the history of posts.
LEMMA WorkerType ==
  ASSUME TypeOK, RowsInv, WorkerInv, Worker
  PROVE  TypeOK'
<1> SUFFICES /\ jobs' \in [Ids -> [Sinks -> Job \cup {None}]] /\ start' \in [Sinks -> Start \cup {None}]
             /\ worker' \in WorkerSet /\ hist' \in HistSet /\ UNCHANGED <<table, live, disk, admin, daemon>>
  BY DEF TypeOK, WorkerSet, HistSet
<1>0. /\ jobs \in [Ids -> [Sinks -> Job \cup {None}]] /\ start \in [Sinks -> Start \cup {None}]
      /\ worker \in WorkerSet /\ hist \in HistSet /\ live \in Configs
  BY DEF TypeOK, WorkerSet, HistSet
<1>a. ASSUME NEW cfg \in Configs  PROVE Idle(cfg) \in WorkerSet  BY DEF Idle, WorkerSet
<1>b. worker.cfg \in Configs  BY <1>0 DEF WorkerSet
<1>1. CASE Look
  <2>1. worker' = [Idle(live) EXCEPT !.at = "enqueue"]  BY <1>1 DEF Look
  <2>2. worker' \in WorkerSet  BY <1>0, <1>a, <2>1 DEF WorkerSet
  <2>. QED  BY <1>0, <1>1, <2>2 DEF Look, rowVars
<1>2. CASE WorkerEnqueue
  <2>1. Masked(worker.cfg) \in SinkMap  BY <1>2, <1>b, MaskedType DEF WorkerEnqueue, At, WorkerInv
  <2>2. worker' \in WorkerSet  BY <1>0, <1>2 DEF WorkerEnqueue, Goto, WorkerSet
  <2>. QED  BY <1>0, <1>2, <2>1, <2>2, EnqueueType DEF WorkerEnqueue
<1>3. CASE ClaimNothing
  <2>1. worker' \in WorkerSet  BY <1>0, <1>3 DEF ClaimNothing, Goto, WorkerSet
  <2>2. worker.cfg # NoModem  BY <1>3 DEF ClaimNothing, At, WorkerInv
  <2>. QED  BY <1>0, <1>3, <2>1, <2>2, SweptType DEF ClaimNothing
<1>4. CASE Complete
  <2>1. worker' \in WorkerSet  BY <1>4, <1>a, <1>b DEF Complete
  <2>2. CASE Held
    <3>1. worker.id \in Ids /\ worker.sink \in Sinks  BY <1>4 DEF Complete, At, WorkerInv
    <3>2. jobs[worker.id][worker.sink] \in Job  BY <2>2, <3>1, JobTypes DEF Held, Is
    <3>3. Recorded(jobs[worker.id][worker.sink], Settled) \in Job  BY <3>2, RecordedJob DEF Settled
    <3>4. jobs' = [jobs EXCEPT ![worker.id][worker.sink] = Recorded(jobs[worker.id][worker.sink], Settled)]
      BY <1>4, <2>2 DEF Complete, Record
    <3>. QED  BY <1>0, <1>4, <2>1, <3>1, <3>3, <3>4, PutJob DEF Complete
  <2>3. CASE ~Held  BY <1>0, <1>4, <2>1, <2>3 DEF Complete
  <2>. QED  BY <2>2, <2>3
<1>5. CASE WorkerError
  BY <1>0, <1>5, <1>a, <1>b DEF WorkerError, rowVars
<1>6. ASSUME NEW i \in Ids, NEW s \in Sinks, Claim(i, s)
      PROVE  /\ jobs' \in [Ids -> [Sinks -> Job \cup {None}]] /\ start' \in [Sinks -> Start \cup {None}]
             /\ worker' \in WorkerSet /\ hist' \in HistSet /\ UNCHANGED <<table, live, disk, admin, daemon>>
  <2>1. jobs' \in [Ids -> [Sinks -> Job \cup {None}]] /\ worker'.token \in Token
    BY <1>6, ClaimJobs DEF RowsInv
  <2>2. worker' = [worker EXCEPT !.at = "post", !.id = i, !.sink = s, !.token = worker'.token]
    BY <1>0, <1>6 DEF Claim, WorkerSet
  <2>3. worker' \in WorkerSet  BY <1>0, <2>1, <2>2 DEF WorkerSet
  <2>. QED  BY <1>0, <1>6, <2>1, <2>3 DEF Claim
<1>7. ASSUME NEW accepts \in BOOLEAN, NEW answered \in BOOLEAN, Post(accepts, answered)
      PROVE  /\ jobs' \in [Ids -> [Sinks -> Job \cup {None}]] /\ start' \in [Sinks -> Start \cup {None}]
             /\ worker' \in WorkerSet /\ hist' \in HistSet /\ UNCHANGED <<table, live, disk, admin, daemon>>
  <2>1. worker.token.msg \in Messages /\ worker.sink \in Sinks
    BY <1>7 DEF Post, At, WorkerInv, Token
  <2>2. worker' \in WorkerSet
    <3>1. (accepts /\ answered) \in BOOLEAN  OBVIOUS
    <3>. QED  BY <1>0, <1>7, <3>1 DEF Post, WorkerSet
  <2>3. hist' \in HistSet
    <3>1. hist.posts[worker.token.msg][worker.sink] + 1 \in Nat  BY <1>0, <2>1 DEF HistSet
    <3>2. hist.accepted \cup {<<worker.token.msg, worker.sink>>} \in SUBSET (Messages \X Sinks)
      BY <1>0, <2>1 DEF HistSet
    <3>. QED  BY <1>0, <1>7, <2>1, <3>1, <3>2 DEF Post, HistSet
  <2>. QED  BY <1>0, <1>7, <2>2, <2>3 DEF Post, rowVars
<1>. QED  BY <1>1, <1>2, <1>3, <1>4, <1>5, <1>6, <1>7 DEF Worker

LEMMA AdminType ==
  ASSUME TypeOK, NEW a \in Admins, Admin(a)
  PROVE  TypeOK' /\ UNCHANGED <<table, worker, daemon, hist>>
<1> SUFFICES /\ jobs' \in [Ids -> [Sinks -> Job \cup {None}]] /\ start' \in [Sinks -> Start \cup {None}]
             /\ admin' \in [Admins -> AdminSet] /\ live' \in Configs /\ disk' \in Configs
             /\ UNCHANGED <<table, worker, daemon, hist>>
  BY DEF TypeOK, AdminSet
<1>0. /\ jobs \in [Ids -> [Sinks -> Job \cup {None}]] /\ start \in [Sinks -> Start \cup {None}]
      /\ admin \in [Admins -> AdminSet] /\ live \in Configs /\ disk \in Configs /\ admin[a].cfg \in Configs
  BY DEF TypeOK, AdminSet
<1>a. ASSUME NEW there \in Busy \cup {"done", "error", "left"}, To(a, there)
      PROVE  admin' \in [Admins -> AdminSet]
  BY <1>0, <1>a DEF To, AdminSet
<1>b. ASSUME NEW cfg \in Configs, admin' = [admin EXCEPT ![a] = [at |-> "persist", cfg |-> cfg]]
      PROVE  admin' \in [Admins -> AdminSet]
  BY <1>0, <1>b DEF AdminSet, Busy
<1>1. ASSUME NEW cfg \in Configs, Configure(a, cfg)
      PROVE  /\ jobs' \in [Ids -> [Sinks -> Job \cup {None}]] /\ start' \in [Sinks -> Start \cup {None}]
             /\ admin' \in [Admins -> AdminSet] /\ live' \in Configs /\ disk' \in Configs
             /\ UNCHANGED <<table, worker, daemon, hist>>
  BY <1>0, <1>1, <1>b, EnqueueType, MaskedType DEF Configure
<1>2. ASSUME NEW cfg \in Configs, SaveModem(a, cfg)
      PROVE  /\ jobs' \in [Ids -> [Sinks -> Job \cup {None}]] /\ start' \in [Sinks -> Start \cup {None}]
             /\ admin' \in [Admins -> AdminSet] /\ live' \in Configs /\ disk' \in Configs
             /\ UNCHANGED <<table, worker, daemon, hist>>
  BY <1>0, <1>2, <1>b DEF SaveModem, rowVars
<1>3. CASE WriteDisk(a)  BY <1>0, <1>3, <1>a DEF WriteDisk, rowVars, Busy
<1>4. CASE PersistEnqueue(a) \/ LateEnqueue(a)
  <2>1. admin' \in [Admins -> AdminSet]  BY <1>4, <1>a DEF PersistEnqueue, LateEnqueue, Busy
  <2>2. CASE admin[a].cfg = NoModem  BY <1>0, <1>4, <2>1, <2>2 DEF PersistEnqueue, LateEnqueue, Apply
  <2>3. CASE admin[a].cfg # NoModem
    BY <1>0, <1>4, <2>1, <2>3, EnqueueType, MaskedType DEF PersistEnqueue, LateEnqueue, Apply
  <2>. QED  BY <2>2, <2>3
<1>5. CASE Swap(a)  BY <1>0, <1>5, <1>a DEF Swap, rowVars
<1>6. CASE AdminError(a)  BY <1>0, <1>6, <1>a DEF AdminError, rowVars
<1>7. CASE Leave(a)  BY <1>0, <1>7, <1>a DEF Leave, rowVars, Busy, Late
<1>8. CASE LateWrite(a)  BY <1>0, <1>8, <1>a DEF LateWrite, rowVars
<1>. QED  BY <1>1, <1>2, <1>3, <1>4, <1>5, <1>6, <1>7, <1>8 DEF Admin

LEMMA ClientType ==
  ASSUME TypeOK, RowsInv, Client
  PROVE  TypeOK' /\ UNCHANGED <<start, live, disk, worker, admin, daemon>>
<1> SUFFICES /\ jobs' \in [Ids -> [Sinks -> Job \cup {None}]] /\ table' \in [Ids -> StoredRow \cup {None}]
             /\ hist' \in HistSet /\ UNCHANGED <<start, live, disk, worker, admin, daemon>>
  BY DEF TypeOK, HistSet
<1>0. /\ jobs \in [Ids -> [Sinks -> Job \cup {None}]] /\ table \in [Ids -> StoredRow \cup {None}]
      /\ hist \in HistSet
  BY DEF TypeOK, HistSet
<1>1. ASSUME NEW m \in Messages, NEW i \in Ids, NEW whole \in BOOLEAN, Arrive(m, i, whole)
      PROVE  /\ jobs' \in [Ids -> [Sinks -> Job \cup {None}]] /\ table' \in [Ids -> StoredRow \cup {None}]
             /\ hist' \in HistSet /\ UNCHANGED <<start, live, disk, worker, admin, daemon>>
  <2>1. [msg |-> m, ready |-> whole] \in StoredRow  BY DEF StoredRow
  <2>2. hist' \in HistSet  BY <1>0, <1>1 DEF Arrive, HistSet
  <2>. QED  BY <1>0, <1>1, <2>1, <2>2 DEF Arrive
<1>2. ASSUME NEW i \in Ids, LastPart(i)
      PROVE  /\ jobs' \in [Ids -> [Sinks -> Job \cup {None}]] /\ table' \in [Ids -> StoredRow \cup {None}]
             /\ hist' \in HistSet /\ UNCHANGED <<start, live, disk, worker, admin, daemon>>
  <2>1. [table[i] EXCEPT !.ready = TRUE] \in StoredRow  BY <1>0, <1>2 DEF LastPart, StoredRow
  <2>. QED  BY <1>0, <1>2, <2>1 DEF LastPart
<1>3. ASSUME NEW i \in Ids, DeleteMessage(i)
      PROVE  /\ jobs' \in [Ids -> [Sinks -> Job \cup {None}]] /\ table' \in [Ids -> StoredRow \cup {None}]
             /\ hist' \in HistSet /\ UNCHANGED <<start, live, disk, worker, admin, daemon>>
  <2>1. [s \in Sinks |-> None] \in [Sinks -> Job \cup {None}]  OBVIOUS
  <2>2. hist' \in HistSet  BY <1>0, <1>3 DEF DeleteMessage, HistSet
  <2>. QED  BY <1>0, <1>3, <2>1, <2>2 DEF DeleteMessage
<1>4. ASSUME NEW i \in Ids, NEW s \in Sinks, RetryDelivery(i, s)
      PROVE  /\ jobs' \in [Ids -> [Sinks -> Job \cup {None}]] /\ table' \in [Ids -> StoredRow \cup {None}]
             /\ hist' \in HistSet /\ UNCHANGED <<start, live, disk, worker, admin, daemon>>
  <2>1. jobs[i][s] \in Job  BY <1>4, JobTypes DEF RetryDelivery, Is
  <2>2. Retried(jobs[i][s]) \in Job /\ jobs' = [jobs EXCEPT ![i][s] = Retried(jobs[i][s])]
    BY <1>4, <2>1, RetriedJob DEF RetryDelivery, Requeued
  <2>3. jobs' \in [Ids -> [Sinks -> Job \cup {None}]]  BY <2>2, PutJob
  <2>4. table[i].msg \in Messages
    BY <1>0, <2>1, NoneIsNot DEF RowsInv, StoredOnce, StoredRow
  <2>5. hist.rounds[table[i].msg][s] + 1 \in Nat  BY <1>0, <2>4 DEF HistSet
  <2>6. hist' \in HistSet  BY <1>0, <1>4, <2>4, <2>5 DEF RetryDelivery, Requeued, HistSet
  <2>. QED  BY <1>0, <1>4, <2>3, <2>6 DEF RetryDelivery
<1>. QED  BY <1>1, <1>2, <1>3, <1>4 DEF Client

LEMMA RipenType ==
  ASSUME TypeOK, NEW i \in Ids, NEW s \in Sinks, Ripen(i, s)
  PROVE  TypeOK' /\ UNCHANGED <<table, start, live, disk, worker, admin, daemon, hist>>
<1>1. jobs[i][s] \in Job  BY JobTypes DEF Ripen, Is
<1>2. Ripe(jobs[i][s]) \in Job /\ jobs' = [jobs EXCEPT ![i][s] = Ripe(jobs[i][s])]
  BY <1>1, RipeJob DEF Ripen
<1>3. jobs' \in [Ids -> [Sinks -> Job \cup {None}]]  BY <1>2, PutJob
<1>. QED  BY <1>3 DEF Ripen, TypeOK

LEMMA RestartType ==
  ASSUME TypeOK, Crash \/ Restart
  PROVE  TypeOK' /\ UNCHANGED <<table, hist>>
<1>1. CASE Crash
  <2>1. worker' \in WorkerSet  BY <1>1 DEF Crash, Idle, WorkerSet, TypeOK
  <2>2. admin' \in [Admins -> AdminSet]  BY <1>1 DEF Crash, AdminSet, TypeOK
  <2>3. daemon' \in [up : BOOLEAN, crashes : Nat]  BY <1>1 DEF Crash, TypeOK
  <2>. QED  BY <1>1, <2>1, <2>2, <2>3 DEF Crash, TypeOK, rowVars, WorkerSet, AdminSet
<1>2. CASE Restart
  <2>1. daemon' \in [up : BOOLEAN, crashes : Nat]  BY <1>2 DEF Restart, TypeOK
  <2>2. /\ jobs' \in [Ids -> [Sinks -> Job \cup {None}]]
        /\ start' \in [Sinks -> Start \cup {None}]
    <3>1. CASE disk = NoModem  BY <1>2, <3>1 DEF Restart, TypeOK
    <3>2. CASE disk # NoModem
      <4>1. disk.sink \in SinkMap  BY <3>2, MaskedType DEF TypeOK
      <4>. QED  BY <1>2, <3>2, <4>1, EnqueueType DEF Restart
    <3>. QED  BY <3>1, <3>2
  <2>. QED  BY <1>2, <2>1, <2>2 DEF Restart, TypeOK
<1>. QED  BY <1>1, <1>2

-----------------------------------------------------------------------------
(* The rows.                                                                 *)

\* An enqueue makes jobs only for messages above the boundary it leaves in place.
LEMMA EnqueueRows ==
  ASSUME TypeOK, RowsInv, NEW sinks \in SinkMap, Enqueue(sinks), UNCHANGED <<table, hist>>
  PROVE  RowsInv'
<1> USE DEF RowsInv
<1>a. ASSUME NEW s \in Sinks, start'[s] # None
      PROVE  \/ ~Changed(s, sinks) /\ start'[s] = start[s]
             \/ /\ Changed(s, sinks) /\ start'[s].target = sinks[s]
                /\ start'[s].upto = {i \in Ids : \E k \in Ids : k >= i /\ table[k] # None}
                /\ start'[s].backlog = {table[i].msg : i \in {k \in Ids : table[k] # None}}
  BY <1>a, StartAfter DEF Enqueue
<1>b. ASSUME NEW i \in Ids, NEW s \in Sinks, jobs'[i][s] # None
      PROVE  \/ /\ jobs[i][s] # None /\ jobs'[i][s].state = "cancelled" /\ jobs'[i][s].token = None
                /\ SameCount(jobs[i][s], jobs'[i][s])
             \/ jobs'[i][s] = jobs[i][s] /\ ~(Changed(s, sinks) /\ Is(i, s, Open))
             \/ /\ Wanted(i, s, sinks) /\ jobs'[i][s].attempts = 0 /\ jobs'[i][s].target = sinks[s]
                /\ jobs'[i][s].state = "pending" /\ jobs'[i][s].token = None
  <2>1. CASE Changed(s, sinks) /\ Is(i, s, Open)
    BY <2>1, JobAfter, JobTypes, CancelledJob DEF Is
  <2>2. CASE ~(Changed(s, sinks) /\ Is(i, s, Open)) /\ Wanted(i, s, sinks)
    BY <2>2, JobAfter, FreshJob DEF Wanted, SinkMap
  <2>3. CASE ~(Changed(s, sinks) /\ Is(i, s, Open)) /\ ~Wanted(i, s, sinks)
    BY <2>3, JobAfter
  <2>. QED  BY <2>1, <2>2, <2>3
<1>c. ASSUME NEW i \in Ids, NEW s \in Sinks, Wanted(i, s, sinks)
      PROVE  /\ table[i] # None /\ jobs[i][s] = None /\ ~Changed(s, sinks)
             /\ start[s] # None /\ start[s].target = sinks[s] /\ table[i].msg \notin start[s].backlog
  <2>1. table[i] # None /\ jobs[i][s] = None /\ sinks[s] # Off /\ i \notin NewStart(sinks)[s].upto
    BY <1>c DEF Wanted
  <2>2. ~Changed(s, sinks)
    <3>1. SUFFICES ASSUME Changed(s, sinks)  PROVE FALSE  OBVIOUS
    <3>2. NewStart(sinks)[s].upto = {h \in Ids : \E k \in Ids : k >= h /\ table[k] # None}
      BY <2>1, <3>1, StartAfter DEF Enqueue
    <3>. QED  BY <2>1, <3>2 DEF Ids
  <2>3. start[s] # None /\ start[s].target = sinks[s]  BY <2>1, <2>2 DEF Changed
  <2>4. NewStart(sinks)[s] = start[s]  BY <2>2 DEF NewStart
  <2>. QED  BY <2>1, <2>2, <2>3, <2>4 DEF Boundary
<1>1. StoredOnce'
  <2>1. ASSUME NEW i \in Ids, NEW s \in Sinks, jobs'[i][s] # None  PROVE table[i] # None
    BY <2>1, <1>b, <1>c DEF StoredOnce
  <2>. QED  BY <2>1 DEF StoredOnce
<1>2. Boundary'
  <2> SUFFICES ASSUME NEW s \in Sinks, start'[s] # None
               PROVE  /\ start'[s].backlog \subseteq hist.seen
                      /\ \A i \in Ids : table[i] # None /\ table[i].msg \in start'[s].backlog => i \in start'[s].upto
                      /\ \A i \in start'[s].upto \ hist.erased : table[i] # None /\ table[i].msg \in start'[s].backlog
    BY DEF Boundary
  <2>1. CASE start'[s] = start[s]  BY <2>1 DEF Boundary
  <2>2. CASE /\ start'[s].upto = {i \in Ids : \E k \in Ids : k >= i /\ table[k] # None}
             /\ start'[s].backlog = {table[i].msg : i \in {k \in Ids : table[k] # None}}
    <3>1. start'[s].backlog \subseteq hist.seen  BY <2>2 DEF StoredOnce
    <3>2. ASSUME NEW i \in Ids, table[i] # None  PROVE i \in start'[s].upto /\ table[i].msg \in start'[s].backlog
      BY <2>2, <3>2 DEF Ids
    <3>3. ASSUME NEW i \in start'[s].upto \ hist.erased  PROVE table[i] # None
      <4>1. i \in Ids  BY <2>2, <3>3
      <4>2. PICK k \in Ids : k >= i /\ table[k] # None  BY <2>2, <3>3
      <4>3. i < k \/ i = k  BY <4>1, <4>2 DEF Ids
      <4>. QED  BY <4>1, <4>2, <4>3, <3>3 DEF Dense
    <3>4. start'[s].upto \subseteq Ids  BY <2>2
    <3>. QED  BY <3>1, <3>2, <3>3, <3>4
  <2>. QED  BY <1>a, <2>1, <2>2
<1>3. Dense'  BY DEF Dense
<1>4. OpenJobsBelong'
  <2> SUFFICES ASSUME NEW i \in Ids, NEW s \in Sinks, jobs'[i][s] # None, jobs'[i][s].state \in Open
               PROVE  /\ start'[s] # None /\ start'[s].target = jobs'[i][s].target
                      /\ table[i] # None /\ table[i].msg \notin start'[s].backlog
    BY DEF OpenJobsBelong, Is
  <2>1. ~Changed(s, sinks) => start'[s] = start[s]  BY StartAfter DEF Enqueue
  <2>2. CASE jobs'[i][s].state = "cancelled"  BY <2>2 DEF Open
  <2>3. CASE jobs'[i][s] = jobs[i][s] /\ ~(Changed(s, sinks) /\ Is(i, s, Open))
    BY <2>1, <2>3 DEF OpenJobsBelong, Is
  <2>4. CASE Wanted(i, s, sinks) /\ jobs'[i][s].target = sinks[s]
    BY <2>1, <2>4, <1>c
  <2>. QED  BY <1>b, <2>2, <2>3, <2>4
<1>5. TokenFits'
  <2> SUFFICES ASSUME NEW i \in Ids, NEW s \in Sinks, jobs'[i][s] # None
               PROVE  IF jobs'[i][s].state = "inflight"
                      THEN /\ jobs'[i][s].token \in Token /\ jobs'[i][s].token.n = jobs'[i][s].attempts
                           /\ jobs'[i][s].token.msg = table[i].msg
                      ELSE jobs'[i][s].token = None
    BY DEF TokenFits
  <2>. QED  BY <1>b DEF TokenFits
<1>6. DeliveredTruthful'
  BY <1>b DEF DeliveredTruthful, Is
<1>7. PostsCounted'
  <2>1. ASSUME NEW i \in Ids, NEW s \in Sinks, table[i] # None
        PROVE  IF jobs'[i][s] = None THEN hist.posts[table[i].msg][s] = 0
               ELSE hist.posts[table[i].msg][s] <= jobs'[i][s].attempts
    <3>1. jobs[i][s] # None => jobs'[i][s] # None
      <4>1. Is(i, s, Open) => Cancelled(jobs[i][s]) # None  BY JobTypes, CancelledJob, NoneIsNot DEF Is
      <4>. QED  BY <4>1, JobAfter DEF Wanted
    <3>. QED  BY <1>b, <1>c, <2>1, <3>1 DEF PostsCounted, SameCount
  <2>. QED  BY <2>1 DEF PostsCounted
<1>8. AttemptsBounded'  BY DEF AttemptsBounded
<1>. QED  BY <1>1, <1>2, <1>3, <1>4, <1>5, <1>6, <1>7, <1>8

\* A job that moves on without a change to the rows, the boundaries or the history.
LEMMA JobsChange ==
  ASSUME TypeOK, TypeOK', RowsInv, UNCHANGED <<table, start, hist>>,
         \A i \in Ids, s \in Sinks : jobs'[i][s] = None <=> jobs[i][s] = None,
         \A i \in Ids, s \in Sinks : jobs[i][s] # None =>
           /\ SameTarget(jobs[i][s], jobs'[i][s]) /\ jobs'[i][s].attempts >= jobs[i][s].attempts
           /\ jobs'[i][s].state \in Open => jobs[i][s].state \in Open
           /\ jobs'[i][s].state = "delivered" =>
                jobs[i][s].state = "delivered" \/ <<table[i].msg, s>> \in hist.accepted
           /\ IF jobs'[i][s].state = "inflight"
              THEN /\ jobs'[i][s].token \in Token /\ jobs'[i][s].token.n = jobs'[i][s].attempts
                   /\ jobs'[i][s].token.msg = table[i].msg
              ELSE jobs'[i][s].token = None
  PROVE  RowsInv'
<1> USE DEF RowsInv
<1>1. StoredOnce' /\ Boundary' /\ Dense' /\ AttemptsBounded'
  BY DEF StoredOnce, Boundary, Dense, AttemptsBounded
<1>2. OpenJobsBelong'
  <2> SUFFICES ASSUME NEW i \in Ids, NEW s \in Sinks, jobs'[i][s] # None, jobs'[i][s].state \in Open
               PROVE  /\ start[s] # None /\ start[s].target = jobs'[i][s].target
                      /\ table[i] # None /\ table[i].msg \notin start[s].backlog
    BY DEF OpenJobsBelong, Is
  <2>1. jobs[i][s] # None /\ jobs[i][s].state \in Open /\ jobs'[i][s].target = jobs[i][s].target
    BY DEF SameTarget
  <2>. QED  BY <2>1 DEF OpenJobsBelong, Is
<1>3. TokenFits'  BY DEF TokenFits
<1>4. DeliveredTruthful'  BY DEF DeliveredTruthful, Is
<1>5. PostsCounted'
  <2>1. ASSUME NEW i \in Ids, NEW s \in Sinks, table[i] # None, jobs[i][s] # None
        PROVE  hist.posts[table[i].msg][s] <= jobs'[i][s].attempts
    <3>1. jobs[i][s].attempts \in Int /\ jobs'[i][s].attempts \in Int
      BY <2>1, ForwardAssumption DEF TypeOK, Job
    <3>2. hist.posts[table[i].msg][s] \in Nat  BY <2>1 DEF TypeOK, StoredRow
    <3>3. hist.posts[table[i].msg][s] <= jobs[i][s].attempts  BY <2>1 DEF PostsCounted
    <3>4. jobs'[i][s].attempts >= jobs[i][s].attempts  BY <2>1
    <3>. QED  BY <3>1, <3>2, <3>3, <3>4
  <2>. QED  BY <2>1 DEF PostsCounted
<1>. QED  BY <1>1, <1>2, <1>3, <1>4, <1>5

\* The sweep of claim returns or fails jobs, and counts nothing.
LEMMA SweptJob ==
  ASSUME TypeOK, TokenFits, NEW last, NEW i \in Ids, NEW s \in Sinks
  PROVE  /\ Swept(last)[i][s] = None <=> jobs[i][s] = None
         /\ jobs[i][s] # None =>
              /\ SameCount(jobs[i][s], Swept(last)[i][s])
              /\ \/ Swept(last)[i][s] = jobs[i][s]
                 \/ /\ jobs[i][s].state \in {"pending", "inflight"}
                    /\ Swept(last)[i][s].state \in {"pending", "failed"} /\ Swept(last)[i][s].token = None
<1>1. Expired[i][s] = IF Is(i, s, {"inflight"}) /\ jobs[i][s].due THEN Returned(jobs[i][s]) ELSE jobs[i][s]
  BY DEF Expired
<1>2. /\ Expired[i][s] = None <=> jobs[i][s] = None
      /\ jobs[i][s] # None =>
           /\ Expired[i][s] \in Job /\ SameCount(jobs[i][s], Expired[i][s])
           /\ \/ Expired[i][s] = jobs[i][s]
              \/ jobs[i][s].state = "inflight" /\ Expired[i][s].state = "pending" /\ Expired[i][s].token = None
  <2>1. CASE Is(i, s, {"inflight"}) /\ jobs[i][s].due
    BY <1>1, <2>1, JobTypes, ReturnedJob, NoneIsNot DEF Is
  <2>2. CASE ~(Is(i, s, {"inflight"}) /\ jobs[i][s].due)
    BY <1>1, <2>2, JobTypes DEF SameCount
  <2>. QED  BY <2>1, <2>2
<1>3. CASE Spent(i, s) /\ Swept(last)[i][s] = Failed(Expired[i][s])
  <2>1. jobs[i][s] # None /\ Expired[i][s] \in Job /\ Expired[i][s].state = "pending"
    BY <1>2, <1>3 DEF Spent, Pending
  <2>2. Expired[i][s].token = None /\ jobs[i][s].state \in {"pending", "inflight"}
    BY <1>2, <2>1 DEF TokenFits
  <2>3. /\ Failed(Expired[i][s]) \in Job /\ SameCount(Expired[i][s], Failed(Expired[i][s]))
        /\ Failed(Expired[i][s]).state = "failed" /\ Failed(Expired[i][s]).token = None
    BY <2>1, <2>2, FailedJob
  <2>. QED  BY <1>2, <1>3, <2>1, <2>2, <2>3, NoneIsNot DEF SameCount
<1>4. CASE Swept(last)[i][s] = Expired[i][s]  BY <1>2, <1>4
<1>. QED  BY <1>3, <1>4 DEF Swept

LEMMA SweptRows ==
  ASSUME TypeOK, TypeOK', RowsInv, NEW last, jobs' = Swept(last), UNCHANGED <<table, start, hist>>
  PROVE  RowsInv'
<1>1. ASSUME NEW i \in Ids, NEW s \in Sinks, jobs[i][s] # None
      PROVE  /\ SameTarget(jobs[i][s], jobs'[i][s]) /\ jobs'[i][s].attempts >= jobs[i][s].attempts
             /\ jobs'[i][s].state \in Open => jobs[i][s].state \in Open
             /\ jobs'[i][s].state = "delivered" => jobs[i][s].state = "delivered"
             /\ IF jobs'[i][s].state = "inflight"
                THEN /\ jobs'[i][s].token \in Token /\ jobs'[i][s].token.n = jobs'[i][s].attempts
                     /\ jobs'[i][s].token.msg = table[i].msg
                ELSE jobs'[i][s].token = None
  <2>1. TokenFits  BY DEF RowsInv
  <2>2. jobs[i][s].attempts \in Int  BY <1>1, JobTypes
  <2>. QED  BY <1>1, <2>1, <2>2, SweptJob DEF SameCount, SameTarget, Open, TokenFits
<1>2. \A i \in Ids, s \in Sinks : jobs'[i][s] = None <=> jobs[i][s] = None  BY SweptJob DEF RowsInv
<1>. QED  BY <1>1, <1>2, JobsChange

LEMMA ClaimRows ==
  ASSUME TypeOK, TypeOK', RowsInv, WorkerInv, NEW i \in Ids, NEW s \in Sinks, Claim(i, s)
  PROVE  RowsInv'
<1>0. TokenFits /\ StoredOnce  BY DEF RowsInv
<1>1. /\ jobs[i][s] # None /\ jobs[i][s].state \in Open
      /\ worker'.token \in Token /\ worker'.token.msg = table[i].msg
      /\ worker'.token.n = jobs[i][s].attempts + 1
      /\ jobs'[i][s] \in Job /\ SameTarget(jobs[i][s], jobs'[i][s])
      /\ jobs'[i][s].attempts = jobs[i][s].attempts + 1
      /\ jobs'[i][s].state = "inflight" /\ jobs'[i][s].token = worker'.token
      /\ \A k \in Ids, r \in Sinks : <<k, r>> # <<i, s>> => jobs'[k][r] = Swept(s)[k][r]
  BY <1>0, ClaimJobs DEF Open
<1>2. ASSUME NEW k \in Ids, NEW r \in Sinks, jobs[k][r] # None
      PROVE  /\ SameTarget(jobs[k][r], jobs'[k][r]) /\ jobs'[k][r].attempts >= jobs[k][r].attempts
             /\ jobs'[k][r].state \in Open => jobs[k][r].state \in Open
             /\ jobs'[k][r].state = "delivered" => jobs[k][r].state = "delivered"
             /\ IF jobs'[k][r].state = "inflight"
                THEN /\ jobs'[k][r].token \in Token /\ jobs'[k][r].token.n = jobs'[k][r].attempts
                     /\ jobs'[k][r].token.msg = table[k].msg
                ELSE jobs'[k][r].token = None
  <2>1. jobs[k][r].attempts \in Int  BY <1>2, JobTypes
  <2>2. CASE k = i /\ r = s  BY <1>1, <2>1, <2>2
  <2>3. CASE <<k, r>> # <<i, s>>
    <3>1. jobs'[k][r] = Swept(s)[k][r]  BY <1>1, <2>3
    <3>. QED  BY <1>0, <1>2, <2>1, <3>1, SweptJob DEF SameCount, SameTarget, Open, TokenFits
  <2>. QED  BY <2>2, <2>3
<1>3. ASSUME NEW k \in Ids, NEW r \in Sinks  PROVE jobs'[k][r] = None <=> jobs[k][r] = None
  <2>1. CASE k = i /\ r = s  BY <1>1, <2>1, NoneIsNot
  <2>2. CASE <<k, r>> # <<i, s>>  BY <1>0, <1>1, <2>2, SweptJob
  <2>. QED  BY <2>1, <2>2
<1>4. UNCHANGED <<table, start, hist>>  BY DEF Claim
<1>. QED  BY <1>2, <1>3, <1>4, JobsChange

LEMMA CompleteRows ==
  ASSUME TypeOK, TypeOK', RowsInv, WorkerInv, Complete
  PROVE  RowsInv'
<1>1. CASE ~Held
  <2>1. UNCHANGED <<table, start, jobs, hist>>  BY <1>1 DEF Complete
  <2>. QED  BY <2>1 DEF RowsInv, StoredOnce, Boundary, Dense, OpenJobsBelong, Is, TokenFits,
         DeliveredTruthful, PostsCounted, AttemptsBounded
<1>2. CASE Held
  <2>0. PICK i \in Ids, s \in Sinks : i = worker.id /\ s = worker.sink
    BY DEF WorkerInv, Complete, At
  <2>1. worker.ok => <<worker.token.msg, s>> \in hist.accepted
    BY <2>0 DEF WorkerInv, Complete, At
  <2>3. jobs[i][s] # None /\ jobs[i][s].state = "inflight" /\ jobs[i][s].token = worker.token
    BY <1>2, <2>0 DEF Held, Is
  <2>4. jobs[i][s].token.msg = table[i].msg  BY <2>3 DEF RowsInv, TokenFits
  <2>5. jobs' = [jobs EXCEPT ![i][s] = Recorded(jobs[i][s], Settled)]  BY <1>2, <2>0 DEF Complete, Record
  <2>6. jobs[i][s] \in Job  BY <2>3, JobTypes
  <2>7. /\ Recorded(jobs[i][s], Settled) \in Job /\ SameCount(jobs[i][s], Recorded(jobs[i][s], Settled))
        /\ Recorded(jobs[i][s], Settled).state = Settled /\ Recorded(jobs[i][s], Settled).token = None
    BY <2>6, RecordedJob DEF Settled
  <2>8. Settled = "delivered" => <<table[i].msg, s>> \in hist.accepted
    BY <2>1, <2>3, <2>4 DEF Settled
  <2>9. Settled # "inflight"  BY DEF Settled
  <2>10. /\ jobs'[i][s] = Recorded(jobs[i][s], Settled)
         /\ \A k \in Ids, r \in Sinks : <<k, r>> # <<i, s>> => jobs'[k][r] = jobs[k][r]
    <3>1. PICK j \in Job \cup {None} : j = Recorded(jobs[i][s], Settled)  BY <2>7
    <3>2. jobs' = [jobs EXCEPT ![i][s] = j]  BY <2>5, <3>1
    <3>3. jobs \in [Ids -> [Sinks -> Job \cup {None}]]  BY DEF TypeOK
    <3>4. jobs'[i][s] = j  BY <3>2, <3>3
    <3>5. \A k \in Ids, r \in Sinks : <<k, r>> # <<i, s>> => jobs'[k][r] = jobs[k][r]  BY <3>2, <3>3
    <3>. QED  BY <3>1, <3>4, <3>5
  <2>11. ASSUME NEW k \in Ids, NEW r \in Sinks, jobs[k][r] # None
         PROVE  /\ SameTarget(jobs[k][r], jobs'[k][r]) /\ jobs'[k][r].attempts >= jobs[k][r].attempts
                /\ jobs'[k][r].state \in Open => jobs[k][r].state \in Open
                /\ jobs'[k][r].state = "delivered" =>
                     jobs[k][r].state = "delivered" \/ <<table[k].msg, r>> \in hist.accepted
                /\ IF jobs'[k][r].state = "inflight"
                   THEN /\ jobs'[k][r].token \in Token /\ jobs'[k][r].token.n = jobs'[k][r].attempts
                        /\ jobs'[k][r].token.msg = table[k].msg
                   ELSE jobs'[k][r].token = None
    <3>1. jobs[k][r].attempts \in Int  BY <2>11, JobTypes
    <3>2. CASE k = i /\ r = s
      BY <2>3, <2>7, <2>8, <2>9, <2>10, <3>1, <3>2 DEF SameCount, SameTarget, Open
    <3>3. CASE <<k, r>> # <<i, s>>
      BY <2>10, <2>11, <3>1, <3>3 DEF RowsInv, TokenFits, SameTarget
    <3>. QED  BY <3>2, <3>3
  <2>12. ASSUME NEW k \in Ids, NEW r \in Sinks  PROVE jobs'[k][r] = None <=> jobs[k][r] = None
    <3>1. CASE k = i /\ r = s  BY <2>3, <2>7, <2>10, <3>1, NoneIsNot
    <3>2. CASE <<k, r>> # <<i, s>>  BY <2>10, <3>2
    <3>. QED  BY <3>1, <3>2
  <2>13. UNCHANGED <<table, start, hist>>  BY DEF Complete
  <2>. QED  BY <2>11, <2>12, <2>13, JobsChange
<1>. QED  BY <1>1, <1>2

LEMMA RipenRows ==
  ASSUME TypeOK, TypeOK', RowsInv, NEW i \in Ids, NEW s \in Sinks, Ripen(i, s)
  PROVE  RowsInv'
<1>1. jobs[i][s] # None /\ jobs[i][s] \in Job  BY JobTypes DEF Ripen, Is
<1>2. /\ Ripe(jobs[i][s]) \in Job /\ SameCount(jobs[i][s], Ripe(jobs[i][s]))
      /\ Ripe(jobs[i][s]).state = jobs[i][s].state /\ Ripe(jobs[i][s]).token = jobs[i][s].token
  BY <1>1, RipeJob
<1>3. jobs' = [jobs EXCEPT ![i][s] = Ripe(jobs[i][s])]  BY DEF Ripen
<1>4. /\ jobs'[i][s] = Ripe(jobs[i][s])
      /\ \A k \in Ids, r \in Sinks : <<k, r>> # <<i, s>> => jobs'[k][r] = jobs[k][r]
  <2>1. jobs \in [Ids -> [Sinks -> Job \cup {None}]]  BY DEF TypeOK
  <2>2. jobs'[i][s] = Ripe(jobs[i][s])  BY <1>3, <2>1
  <2>3. \A k \in Ids, r \in Sinks : <<k, r>> # <<i, s>> => jobs'[k][r] = jobs[k][r]  BY <1>3, <2>1
  <2>. QED  BY <2>2, <2>3
<1>5. ASSUME NEW k \in Ids, NEW r \in Sinks, jobs[k][r] # None
      PROVE  /\ jobs'[k][r] # None /\ SameCount(jobs[k][r], jobs'[k][r])
             /\ jobs'[k][r].state = jobs[k][r].state /\ jobs'[k][r].token = jobs[k][r].token
             /\ jobs[k][r].attempts \in Int
  <2>1. jobs[k][r].attempts \in Int  BY <1>5, JobTypes
  <2>2. CASE k = i /\ r = s  BY <1>2, <1>4, <2>1, <2>2, NoneIsNot
  <2>3. CASE <<k, r>> # <<i, s>>  BY <1>4, <1>5, <2>1, <2>3 DEF SameCount
  <2>. QED  BY <2>2, <2>3
<1>6. \A k \in Ids, r \in Sinks : jobs'[k][r] = None <=> jobs[k][r] = None
  BY <1>1, <1>4, <1>5
<1>7. UNCHANGED <<table, start, hist>>  BY DEF Ripen
<1>8. TokenFits  BY DEF RowsInv
<1>. QED  BY <1>5, <1>6, <1>7, <1>8, JobsChange DEF SameCount, SameTarget, TokenFits

\* A post was counted by the claim before it.
LEMMA PostRows ==
  ASSUME TypeOK, RowsInv, WorkerInv, NEW accepts \in BOOLEAN, NEW answered \in BOOLEAN,
         Post(accepts, answered)
  PROVE  RowsInv'
<1> USE DEF RowsInv
<1>1. PICK m \in Messages, i \in Ids, s \in Sinks, n \in Nat :
        m = worker.token.msg /\ i = worker.id /\ s = worker.sink /\ n = worker.token.n
  BY DEF WorkerInv, Post, At, Token
<1>2. /\ m \in hist.seen /\ n <= MaxAttempts /\ hist.posts[m][s] < n
      /\ \A k \in Ids : Stored(k, m) => k = i
      /\ Stored(i, m) => jobs[i][s] # None /\ jobs[i][s].attempts = n
  BY <1>1 DEF WorkerInv, Post, At
<1>3. UNCHANGED <<table, jobs, start>>  BY DEF Post, rowVars
<1>4. /\ hist'.seen = hist.seen /\ hist'.erased = hist.erased /\ hist.accepted \subseteq hist'.accepted
      /\ hist'.posts = [hist.posts EXCEPT ![m][s] = @ + 1]
  BY <1>1 DEF Post, TypeOK
<1>5. hist.posts \in [Messages -> [Sinks -> Nat]] /\ MaxAttempts \in Nat
  BY ForwardAssumption DEF TypeOK
<1>6. hist'.posts[m][s] = hist.posts[m][s] + 1 /\ hist'.posts[m][s] <= n /\ hist'.posts[m][s] <= MaxAttempts
  BY <1>2, <1>4, <1>5
<1>7. \A q \in Messages, r \in Sinks : <<q, r>> # <<m, s>> => hist'.posts[q][r] = hist.posts[q][r]
  BY <1>4, <1>5
<1>8. StoredOnce' /\ Boundary' /\ Dense' /\ OpenJobsBelong' /\ TokenFits'
  BY <1>3, <1>4 DEF StoredOnce, Boundary, Dense, OpenJobsBelong, Is, TokenFits
<1>9. DeliveredTruthful'  BY <1>3, <1>4 DEF DeliveredTruthful, Is
<1>10. PostsCounted'
  <2>1. ASSUME NEW k \in Ids, NEW r \in Sinks, table[k] # None
        PROVE  IF jobs[k][r] = None THEN hist'.posts[table[k].msg][r] = 0
               ELSE hist'.posts[table[k].msg][r] <= jobs[k][r].attempts
    <3>1. table[k].msg \in Messages  BY <2>1 DEF TypeOK, StoredRow
    <3>2. CASE table[k].msg = m /\ r = s
      <4>1. k = i /\ Stored(i, m)  BY <1>2, <2>1, <3>2 DEF Stored
      <4>. QED  BY <1>2, <1>6, <3>2, <4>1
    <3>3. CASE <<table[k].msg, r>> # <<m, s>>
      BY <1>7, <2>1, <3>1, <3>3 DEF PostsCounted
    <3>. QED  BY <3>2, <3>3
  <2>2. \A q \in Messages \ hist.seen, r \in Sinks : hist'.posts[q][r] = 0
    BY <1>2, <1>7 DEF PostsCounted
  <2>. QED  BY <1>3, <1>4, <2>1, <2>2 DEF PostsCounted
<1>11. AttemptsBounded'
  BY <1>6, <1>7 DEF AttemptsBounded
<1>. QED  BY <1>8, <1>9, <1>10, <1>11

\* A message arrives once, above every id in use.
LEMMA ArriveRows ==
  ASSUME TypeOK, RowsInv, NEW m \in Messages, NEW i \in Ids, NEW whole \in BOOLEAN, Arrive(m, i, whole)
  PROVE  RowsInv'
<1> USE DEF RowsInv
<1>1. PICK row \in StoredRow : row = [msg |-> m, ready |-> whole]  BY DEF StoredRow
<1>2. row.msg = m /\ row # None  BY <1>1, NoneIsNot
<1>3. table' = [table EXCEPT ![i] = row] /\ UNCHANGED <<jobs, start>>  BY <1>1 DEF Arrive
<1>4. table'[i] = row /\ \A k \in Ids : k # i => table'[k] = table[k]  BY <1>3 DEF TypeOK
<1>5. /\ hist'.seen = hist.seen \cup {m} /\ hist'.erased = hist.erased
      /\ hist'.accepted = hist.accepted /\ hist'.posts = hist.posts
  BY DEF Arrive, TypeOK
<1>6. /\ m \notin hist.seen /\ \A k \in Ids : k >= i => table[k] = None
      /\ \A k \in Ids : k = i - 1 => table[k] # None
  BY DEF Arrive, NextRowid
<1>7. table[i] = None /\ \A s \in Sinks : jobs[i][s] = None  BY <1>6 DEF StoredOnce, Ids
<1>8. StoredOnce'
  BY <1>2, <1>3, <1>4, <1>5, <1>6 DEF StoredOnce
<1>9. Boundary'
  <2> SUFFICES ASSUME NEW s \in Sinks, start[s] # None
               PROVE  /\ start[s].backlog \subseteq hist'.seen
                      /\ \A k \in Ids : table'[k] # None /\ table'[k].msg \in start[s].backlog => k \in start[s].upto
                      /\ \A k \in start[s].upto \ hist.erased : table'[k] # None /\ table'[k].msg \in start[s].backlog
    BY <1>3, <1>5 DEF Boundary
  <2>1. start[s].upto \subseteq Ids  BY DEF TypeOK, Start
  <2>2. start[s].backlog \subseteq hist.seen  BY DEF Boundary
  <2>3. m \notin start[s].backlog  BY <1>6, <2>2
  <2>4. i \notin start[s].upto \ hist.erased  BY <1>7 DEF Boundary
  <2>. QED  BY <1>2, <1>4, <1>5, <2>1, <2>2, <2>3, <2>4 DEF Boundary
<1>10. Dense'
  <2> SUFFICES ASSUME NEW h \in Ids, NEW k \in Ids, h < k, table'[k] # None, h \notin hist.erased
               PROVE  table'[h] # None
    BY <1>5 DEF Dense
  <2>1. CASE h = i  BY <1>2, <1>4, <2>1
  <2>2. CASE h # i /\ k # i  BY <1>4, <2>2 DEF Dense
  <2>3. CASE h # i /\ k = i
    <3>1. i - 1 \in Ids /\ (h < i - 1 \/ h = i - 1)  BY <2>3, ForwardAssumption DEF Ids
    <3>2. table[i - 1] # None  BY <1>6, <3>1
    <3>. QED  BY <1>4, <2>3, <3>1, <3>2 DEF Dense
  <2>. QED  BY <2>1, <2>2, <2>3
<1>11. OpenJobsBelong'
  BY <1>3, <1>4, <1>7 DEF OpenJobsBelong, Is
<1>12. TokenFits'
  BY <1>3, <1>4, <1>7 DEF TokenFits
<1>13. DeliveredTruthful'
  BY <1>3, <1>4, <1>5, <1>7 DEF DeliveredTruthful, Is
<1>14. PostsCounted'
  BY <1>2, <1>3, <1>4, <1>5, <1>6, <1>7 DEF PostsCounted
<1>15. AttemptsBounded'  BY <1>5 DEF AttemptsBounded
<1>. QED  BY <1>8, <1>9, <1>10, <1>11, <1>12, <1>13, <1>14, <1>15

LEMMA LastPartRows ==
  ASSUME TypeOK, RowsInv, NEW i \in Ids, LastPart(i)
  PROVE  RowsInv' /\ table'[i].msg = table[i].msg
<1> USE DEF RowsInv
<1>1. table[i] \in StoredRow  BY DEF LastPart, TypeOK
<1>2. PICK row \in StoredRow : row = [table[i] EXCEPT !.ready = TRUE]  BY <1>1 DEF StoredRow
<1>3. row.msg = table[i].msg /\ row # None /\ table[i] # None  BY <1>1, <1>2, NoneIsNot DEF StoredRow
<1>4. table' = [table EXCEPT ![i] = row] /\ UNCHANGED <<jobs, start, hist>>  BY <1>2 DEF LastPart
<1>5. table'[i] = row /\ \A k \in Ids : k # i => table'[k] = table[k]  BY <1>4 DEF TypeOK
<1>6. /\ \A k \in Ids : table'[k] = None <=> table[k] = None
      /\ \A k \in Ids : table[k] # None => table'[k].msg = table[k].msg
  BY <1>3, <1>5
<1>7. StoredOnce'  BY <1>4, <1>6 DEF StoredOnce
<1>8. Boundary'
  <2> SUFFICES ASSUME NEW s \in Sinks, start[s] # None
               PROVE  /\ start[s].backlog \subseteq hist.seen
                      /\ \A k \in Ids : table'[k] # None /\ table'[k].msg \in start[s].backlog => k \in start[s].upto
                      /\ \A k \in start[s].upto \ hist.erased : table'[k] # None /\ table'[k].msg \in start[s].backlog
    BY <1>4 DEF Boundary
  <2>1. start[s].upto \subseteq Ids  BY DEF TypeOK, Start
  <2>. QED  BY <1>6, <2>1 DEF Boundary
<1>9. Dense'  BY <1>4, <1>6 DEF Dense
<1>10. OpenJobsBelong'  BY <1>4, <1>6 DEF OpenJobsBelong, Is
<1>11. TokenFits'  BY <1>4, <1>6 DEF TokenFits, StoredOnce
<1>12. DeliveredTruthful'  BY <1>4, <1>6 DEF DeliveredTruthful, Is, StoredOnce
<1>13. PostsCounted'  BY <1>4, <1>6 DEF PostsCounted
<1>14. AttemptsBounded'  BY <1>4 DEF AttemptsBounded
<1>. QED  BY <1>3, <1>5, <1>7, <1>8, <1>9, <1>10, <1>11, <1>12, <1>13, <1>14

LEMMA DeleteRows ==
  ASSUME TypeOK, RowsInv, NEW i \in Ids, DeleteMessage(i)
  PROVE  RowsInv'
<1> USE DEF RowsInv
<1>1. /\ table' = [table EXCEPT ![i] = None] /\ UNCHANGED start
      /\ jobs' = [jobs EXCEPT ![i] = [s \in Sinks |-> None]]
  BY DEF DeleteMessage
<1>2. /\ table'[i] = None /\ \A s \in Sinks : jobs'[i][s] = None
      /\ \A k \in Ids : k # i => table'[k] = table[k] /\ jobs'[k] = jobs[k]
  BY <1>1 DEF TypeOK
<1>3. /\ hist'.seen = hist.seen /\ hist'.erased = hist.erased \cup {i}
      /\ hist'.accepted = hist.accepted /\ hist'.posts = hist.posts
  BY DEF DeleteMessage, TypeOK
<1>4. StoredOnce'  BY <1>2, <1>3 DEF StoredOnce
<1>5. Boundary'
  <2> SUFFICES ASSUME NEW s \in Sinks, start[s] # None
               PROVE  /\ start[s].backlog \subseteq hist.seen
                      /\ \A k \in Ids : table'[k] # None /\ table'[k].msg \in start[s].backlog => k \in start[s].upto
                      /\ \A k \in start[s].upto \ (hist.erased \cup {i}) : table'[k] # None /\ table'[k].msg \in start[s].backlog
    BY <1>1, <1>3 DEF Boundary
  <2>1. start[s].upto \subseteq Ids  BY DEF TypeOK, Start
  <2>. QED  BY <1>2, <2>1 DEF Boundary
<1>6. Dense'  BY <1>2, <1>3 DEF Dense
<1>7. OpenJobsBelong'  BY <1>1, <1>2 DEF OpenJobsBelong, Is
<1>8. TokenFits'  BY <1>2 DEF TokenFits
<1>9. DeliveredTruthful'  BY <1>2, <1>3 DEF DeliveredTruthful, Is
<1>10. PostsCounted'  BY <1>2, <1>3 DEF PostsCounted
<1>11. AttemptsBounded'  BY <1>3 DEF AttemptsBounded
<1>. QED  BY <1>4, <1>5, <1>6, <1>7, <1>8, <1>9, <1>10, <1>11

LEMMA RetryRows ==
  ASSUME TypeOK, RowsInv, NEW i \in Ids, NEW s \in Sinks, RetryDelivery(i, s)
  PROVE  /\ RowsInv'
         /\ jobs'[i][s] \in Job /\ jobs'[i][s].state = "pending"
         /\ \A k \in Ids, r \in Sinks : <<k, r>> # <<i, s>> => jobs'[k][r] = jobs[k][r]
<1> USE DEF RowsInv
<1>1. jobs[i][s] # None /\ jobs[i][s] \in Job /\ jobs[i][s].state = "failed"
  BY JobTypes DEF RetryDelivery, Is
<1>2. PICK j \in Job \cup {None} : j = Retried(jobs[i][s])  BY <1>1, RetriedJob
<1>3. /\ j \in Job /\ j.target = jobs[i][s].target /\ j.attempts = 0
      /\ j.state = "pending" /\ j.token = None
  BY <1>1, <1>2, RetriedJob DEF SameTarget, TokenFits
<1>4. jobs' = [jobs EXCEPT ![i][s] = j]  BY <1>2 DEF RetryDelivery, Requeued
<1>5. jobs'[i][s] = j /\ \A k \in Ids, r \in Sinks : <<k, r>> # <<i, s>> => jobs'[k][r] = jobs[k][r]
  <2>1. jobs \in [Ids -> [Sinks -> Job \cup {None}]]  BY DEF TypeOK
  <2>2. jobs'[i][s] = j  BY <1>4, <2>1
  <2>3. \A k \in Ids, r \in Sinks : <<k, r>> # <<i, s>> => jobs'[k][r] = jobs[k][r]  BY <1>4, <2>1
  <2>. QED  BY <2>2, <2>3
<1>6. UNCHANGED <<table, start>>  BY DEF RetryDelivery
<1>7. PICK m \in Messages : m = table[i].msg /\ table[i] # None
  BY <1>1 DEF StoredOnce, TypeOK, StoredRow
<1>8. /\ hist'.seen = hist.seen /\ hist'.erased = hist.erased /\ hist'.accepted = hist.accepted
      /\ hist'.posts = [hist.posts EXCEPT ![m][s] = 0]
  BY <1>7 DEF RetryDelivery, Requeued, TypeOK
<1>9. /\ hist'.posts[m][s] = 0
      /\ \A q \in Messages, r \in Sinks : <<q, r>> # <<m, s>> => hist'.posts[q][r] = hist.posts[q][r]
  BY <1>8 DEF TypeOK
<1>10. StoredOnce'  BY <1>1, <1>5, <1>6, <1>8 DEF StoredOnce
<1>11. Boundary' /\ Dense'  BY <1>6, <1>8 DEF Boundary, Dense
<1>12. OpenJobsBelong'
  <2> SUFFICES ASSUME NEW k \in Ids, NEW r \in Sinks, Is(k, r, Open)'
               PROVE  /\ start[r] # None /\ start[r].target = jobs'[k][r].target
                      /\ table[k] # None /\ table[k].msg \notin start[r].backlog
    BY <1>6 DEF OpenJobsBelong
  <2>1. CASE k = i /\ r = s  BY <1>1, <1>3, <1>5, <2>1 DEF OpenJobsBelong, Is, Open
  <2>2. CASE <<k, r>> # <<i, s>>  BY <1>5, <2>2 DEF OpenJobsBelong, Is
  <2>. QED  BY <2>1, <2>2
<1>13. TokenFits'
  <2> SUFFICES ASSUME NEW k \in Ids, NEW r \in Sinks, jobs'[k][r] # None
               PROVE  IF jobs'[k][r].state = "inflight"
                      THEN /\ jobs'[k][r].token \in Token /\ jobs'[k][r].token.n = jobs'[k][r].attempts
                           /\ jobs'[k][r].token.msg = table[k].msg
                      ELSE jobs'[k][r].token = None
    BY <1>6 DEF TokenFits
  <2>1. CASE k = i /\ r = s  BY <1>3, <1>5, <2>1
  <2>2. CASE <<k, r>> # <<i, s>>  BY <1>5, <2>2 DEF TokenFits
  <2>. QED  BY <2>1, <2>2
<1>14. DeliveredTruthful'
  <2> SUFFICES ASSUME NEW k \in Ids, NEW r \in Sinks, Is(k, r, {"delivered"})'
               PROVE  <<table[k].msg, r>> \in hist.accepted
    BY <1>6, <1>8 DEF DeliveredTruthful
  <2>1. <<k, r>> # <<i, s>>  BY <1>3, <1>5 DEF Is
  <2>. QED  BY <1>5, <2>1 DEF DeliveredTruthful, Is
<1>15. PostsCounted'
  <2>1. ASSUME NEW k \in Ids, NEW r \in Sinks, table[k] # None
        PROVE  IF jobs'[k][r] = None THEN hist'.posts[table[k].msg][r] = 0
               ELSE hist'.posts[table[k].msg][r] <= jobs'[k][r].attempts
    <3>1. table[k].msg \in Messages  BY <2>1 DEF TypeOK, StoredRow
    <3>2. CASE table[k].msg = m /\ r = s
      <4>1. k = i  BY <1>7, <2>1, <3>2 DEF StoredOnce
      <4>2. 0 <= 0  OBVIOUS
      <4>. QED  BY <1>3, <1>5, <1>9, <3>2, <4>1, <4>2, NoneIsNot
    <3>3. CASE <<table[k].msg, r>> # <<m, s>>
      <4>1. <<k, r>> # <<i, s>>  BY <1>7, <3>3
      <4>. QED  BY <1>5, <1>9, <2>1, <3>1, <3>3, <4>1 DEF PostsCounted
    <3>. QED  BY <3>2, <3>3
  <2>2. \A q \in Messages \ hist.seen, r \in Sinks : hist'.posts[q][r] = 0
    BY <1>9 DEF PostsCounted
  <2>. QED  BY <1>6, <1>8, <2>1, <2>2 DEF PostsCounted
<1>16. AttemptsBounded'
  BY <1>9, ForwardAssumption DEF AttemptsBounded
<1>. QED  BY <1>3, <1>5, <1>10, <1>11, <1>12, <1>13, <1>14, <1>15, <1>16

LEMMA RowsInit ==
  ASSUME Init
  PROVE  RowsInv /\ WorkerInv
<1>1. /\ \A i \in Ids : table[i] = None
      /\ \A i \in Ids, s \in Sinks : jobs[i][s] = None
      /\ \A s \in Sinks : start[s] = None
  BY DEF Init
<1>2. \A m \in Messages, s \in Sinks : hist.posts[m][s] = 0  BY DEF Init
<1>3. worker.at = "idle"  BY DEF Init, Idle
<1>4. StoredOnce /\ Boundary /\ OpenJobsBelong /\ TokenFits /\ DeliveredTruthful
  BY <1>1 DEF StoredOnce, Boundary, OpenJobsBelong, Is, TokenFits, DeliveredTruthful
<1>6. Dense  BY <1>1 DEF Dense
<1>5. PostsCounted /\ AttemptsBounded
  BY <1>1, <1>2, ForwardAssumption DEF PostsCounted, AttemptsBounded
<1>. QED  BY <1>3, <1>4, <1>5, <1>6 DEF RowsInv, WorkerInv

-----------------------------------------------------------------------------
(* The worker's claim.                                                       *)

\* What others may do to the worker's job: cancel it, or delete its message.
LEMMA Bystander ==
  ASSUME TypeOK, TypeOK', WorkerInv, worker' = worker,
         hist.seen \subseteq hist'.seen, hist.accepted \subseteq hist'.accepted,
         \A k \in Ids, m \in hist.seen : table'[k] # None /\ table'[k].msg = m => Stored(k, m),
         \A i \in Ids, s \in Sinks : table'[i] # None /\ Is(i, s, {"inflight", "cancelled"}) =>
           /\ jobs'[i][s] # None /\ jobs'[i][s].attempts = jobs[i][s].attempts
           /\ \/ jobs'[i][s].state = "cancelled"
              \/ jobs'[i][s].state = jobs[i][s].state /\ jobs'[i][s].token = jobs[i][s].token,
         \A m \in Messages, s \in Sinks : hist'.posts[m][s] <= hist.posts[m][s]
  PROVE  WorkerInv'
<1>1. CASE worker.at \notin {"post", "complete"}
  BY <1>1 DEF WorkerInv
<1>2. CASE worker.at \in {"post", "complete"}
  <2>1. PICK i \in Ids, s \in Sinks, m \in Messages, n \in Nat :
          i = worker.id /\ s = worker.sink /\ m = worker.token.msg /\ n = worker.token.n
    BY <1>2 DEF WorkerInv, Token
  <2>2. /\ worker.token \in Token /\ m \in hist.seen /\ n <= MaxAttempts /\ worker.cfg # NoModem
        /\ \A k \in Ids : Stored(k, m) => k = i
        /\ Stored(i, m) =>
             /\ jobs[i][s] # None /\ jobs[i][s].attempts = n
             /\ Is(i, s, {"inflight", "cancelled"})
             /\ jobs[i][s].state = "inflight" => jobs[i][s].token = worker.token
        /\ worker.at = "post" => hist.posts[m][s] < n
        /\ worker.at = "complete" /\ worker.ok => <<m, s>> \in hist.accepted
    BY <1>2, <2>1 DEF WorkerInv, Held, Is
  <2>3. \A k \in Ids : Stored(k, m)' => k = i  BY <2>2 DEF Stored
  <2>4. Stored(i, m)' => /\ jobs'[i][s] # None /\ jobs'[i][s].attempts = n
                         /\ Is(i, s, {"inflight", "cancelled"})'
                         /\ jobs'[i][s].state = "inflight" => jobs'[i][s].token = worker.token
    BY <2>2 DEF Stored, Is
  <2>5. worker.at = "post" => hist'.posts[m][s] < n
    <3>1. hist'.posts[m][s] \in Nat /\ hist.posts[m][s] \in Nat  BY DEF TypeOK
    <3>2. hist'.posts[m][s] <= hist.posts[m][s]  OBVIOUS
    <3>. QED  BY <2>2, <3>1, <3>2
  <2>6. worker'.id = i /\ worker'.sink = s /\ worker'.token.msg = m /\ worker'.token.n = n /\ worker'.token = worker.token
    BY <2>1
  <2>7. Stored(i, m)' => Held' \/ Is(i, s, {"cancelled"})'
    BY <2>4, <2>6 DEF Held, Is
  <2>8. worker.at = "complete" /\ worker.ok => <<m, s>> \in hist'.accepted  BY <2>2
  <2>9. m \in hist'.seen  BY <2>2
  <2>. QED  BY <2>2, <2>3, <2>4, <2>5, <2>6, <2>7, <2>8, <2>9 DEF WorkerInv
<1>. QED  BY <1>1, <1>2

\* Enqueue leaves a job in flight alone or cancels it.
LEMMA EnqueueHeld ==
  ASSUME TypeOK, TypeOK', RowsInv, WorkerInv, NEW sinks \in SinkMap, Enqueue(sinks),
         UNCHANGED <<table, worker, hist>>
  PROVE  WorkerInv'
<1>1. ASSUME NEW i \in Ids, NEW s \in Sinks, Is(i, s, {"inflight", "cancelled"})
      PROVE  /\ jobs'[i][s] # None /\ jobs'[i][s].attempts = jobs[i][s].attempts
             /\ \/ jobs'[i][s].state = "cancelled"
                \/ jobs'[i][s].state = jobs[i][s].state /\ jobs'[i][s].token = jobs[i][s].token
  <2>1. jobs[i][s] # None /\ jobs[i][s] \in Job  BY <1>1, JobTypes DEF Is
  <2>2. CASE Changed(s, sinks) /\ Is(i, s, Open)
    <3>1. jobs'[i][s] = Cancelled(jobs[i][s])  BY <2>2, JobAfter
    <3>. QED  BY <2>1, <3>1, CancelledJob, NoneIsNot DEF SameCount
  <2>3. CASE ~(Changed(s, sinks) /\ Is(i, s, Open))
    <3>1. jobs'[i][s] = jobs[i][s]  BY <2>1, <2>3, JobAfter DEF Wanted
    <3>. QED  BY <2>1, <3>1
  <2>. QED  BY <2>2, <2>3
<1>2. \A k \in Ids, m \in hist.seen : table'[k] # None /\ table'[k].msg = m => Stored(k, m)
  BY DEF Stored
<1>3. \A m \in Messages, s \in Sinks : hist'.posts[m][s] <= hist.posts[m][s]
  <2>1. ASSUME NEW m \in Messages, NEW s \in Sinks  PROVE hist.posts[m][s] \in Nat  BY DEF TypeOK
  <2>. QED  BY <2>1
<1>. QED  BY <1>1, <1>2, <1>3, Bystander

LEMMA WorkerHeld ==
  ASSUME TypeOK, TypeOK', RowsInv, WorkerInv, Worker
  PROVE  WorkerInv'
<1>1. CASE Look
  <2>1. worker'.at = "enqueue" /\ worker'.cfg = live /\ live # NoModem  BY <1>1 DEF Look, Idle
  <2>. QED  BY <2>1 DEF WorkerInv
<1>2. CASE WorkerEnqueue
  <2>1. worker'.at = "claim" /\ worker'.cfg = worker.cfg /\ worker.cfg # NoModem
    BY <1>2 DEF WorkerEnqueue, Goto, At, WorkerInv, TypeOK
  <2>. QED  BY <2>1 DEF WorkerInv
<1>3. CASE ClaimNothing \/ Complete \/ WorkerError
  <2>1. worker'.at = "idle"  BY <1>3 DEF ClaimNothing, Complete, WorkerError, Goto, Idle, TypeOK
  <2>. QED  BY <2>1 DEF WorkerInv
<1>4. ASSUME NEW i \in Ids, NEW s \in Sinks, Claim(i, s)  PROVE WorkerInv'
  <2>1. /\ worker.cfg # NoModem /\ jobs[i][s] # None /\ table[i] # None
        /\ jobs[i][s].attempts < MaxAttempts
        /\ worker'.token \in Token /\ worker'.id = i /\ worker'.sink = s /\ worker'.at = "post"
        /\ worker'.cfg = worker.cfg
        /\ worker'.token.msg = table[i].msg /\ worker'.token.n = jobs[i][s].attempts + 1
        /\ jobs'[i][s] \in Job /\ jobs'[i][s].attempts = jobs[i][s].attempts + 1
        /\ jobs'[i][s].state = "inflight" /\ jobs'[i][s].token = worker'.token
    BY <1>4, ClaimJobs DEF RowsInv
  <2>2. UNCHANGED <<table, hist>>  BY <1>4 DEF Claim
  <2>3. jobs[i][s].attempts \in Int  BY <2>1, JobTypes
  <2>4. worker'.token.n <= MaxAttempts  BY <2>1, <2>3, ForwardAssumption
  <2>5. hist.posts[table[i].msg][s] < worker'.token.n
    <3>1. hist.posts[table[i].msg][s] \in Nat  BY <2>1 DEF TypeOK, StoredRow
    <3>2. hist.posts[table[i].msg][s] <= jobs[i][s].attempts  BY <2>1 DEF RowsInv, PostsCounted
    <3>. QED  BY <2>1, <2>3, <3>1, <3>2
  <2>6. table[i].msg \in hist.seen  BY <2>1 DEF RowsInv, StoredOnce
  <2>7. \A k \in Ids : Stored(k, table[i].msg)' => k = i  BY <2>1, <2>2 DEF RowsInv, StoredOnce, Stored
  <2>8. Held' /\ jobs'[i][s] # None  BY <2>1, NoneIsNot DEF Held, Is
  <2>. QED  BY <2>1, <2>2, <2>4, <2>5, <2>6, <2>7, <2>8 DEF WorkerInv
<1>5. ASSUME NEW accepts \in BOOLEAN, NEW answered \in BOOLEAN, Post(accepts, answered)
      PROVE  WorkerInv'
  <2>1. /\ worker'.at = "complete" /\ worker'.ok = (accepts /\ answered)
        /\ worker'.cfg = worker.cfg /\ worker'.id = worker.id
        /\ worker'.sink = worker.sink /\ worker'.token = worker.token
    BY <1>5 DEF Post, TypeOK
  <2>2. UNCHANGED <<table, jobs>> /\ hist'.seen = hist.seen  BY <1>5 DEF Post, rowVars, TypeOK
  <2>3. worker.at = "post"  BY <1>5 DEF Post, At
  <2>4. worker'.ok => <<worker.token.msg, worker.sink>> \in hist'.accepted
    <3>1. worker'.ok => accepts  BY <2>1
    <3>2. accepts => hist'.accepted = hist.accepted \cup {<<worker.token.msg, worker.sink>>}
      BY <1>5 DEF Post, TypeOK
    <3>. QED  BY <3>1, <3>2
  <2>5. Held' = Held  BY <2>1, <2>2 DEF Held, Is
  <2>6. \A k \in Ids : Stored(k, worker.token.msg)' = Stored(k, worker.token.msg)
    BY <2>1, <2>2 DEF Stored
  <2>. QED  BY <2>1, <2>2, <2>3, <2>4, <2>5, <2>6 DEF WorkerInv, Is, Stored
<1>. QED  BY <1>1, <1>2, <1>3, <1>4, <1>5 DEF Worker

-----------------------------------------------------------------------------
(* The invariant.                                                            *)

LEMMA EnqueueKeeps ==
  ASSUME TypeOK, TypeOK', RowsInv, WorkerInv, NEW sinks \in SinkMap, Enqueue(sinks),
         UNCHANGED <<table, worker, hist>>
  PROVE  RowsInv' /\ WorkerInv'
<1>1. RowsInv'  BY EnqueueRows
<1>2. WorkerInv'  BY EnqueueHeld
<1>. QED  BY <1>1, <1>2

LEMMA Untouched ==
  ASSUME RowsInv, WorkerInv, UNCHANGED <<table, jobs, start, worker, hist>>
  PROVE  RowsInv' /\ WorkerInv'
<1>1. RowsInv'
  BY DEF RowsInv, StoredOnce, Boundary, Dense, OpenJobsBelong, Is, TokenFits,
         DeliveredTruthful, PostsCounted, AttemptsBounded
<1>2. WorkerInv'  BY DEF WorkerInv, Stored, Held, Is
<1>. QED  BY <1>1, <1>2

LEMMA WorkerRows ==
  ASSUME TypeOK, TypeOK', RowsInv, WorkerInv, Worker
  PROVE  RowsInv'
<1>1. CASE Look \/ WorkerError
  BY <1>1, Untouched DEF Look, WorkerError, rowVars, RowsInv, StoredOnce, Boundary, Dense, OpenJobsBelong,
     Is, TokenFits, DeliveredTruthful, PostsCounted, AttemptsBounded
<1>2. CASE WorkerEnqueue
  <2>1. Masked(worker.cfg) \in SinkMap
    BY <1>2, MaskedType DEF WorkerEnqueue, At, WorkerInv, TypeOK
  <2>. QED  BY <1>2, <2>1, EnqueueRows DEF WorkerEnqueue
<1>3. CASE ClaimNothing  BY <1>3, SweptRows DEF ClaimNothing
<1>4. CASE Complete  BY <1>4, CompleteRows
<1>5. ASSUME NEW i \in Ids, NEW s \in Sinks, Claim(i, s)  PROVE RowsInv'  BY <1>5, ClaimRows
<1>6. ASSUME NEW accepts \in BOOLEAN, NEW answered \in BOOLEAN, Post(accepts, answered)  PROVE RowsInv'
  BY <1>6, PostRows
<1>. QED  BY <1>1, <1>2, <1>3, <1>4, <1>5, <1>6 DEF Worker

LEMMA AdminKeeps ==
  ASSUME TypeOK, RowsInv, WorkerInv, NEW a \in Admins, Admin(a)
  PROVE  RowsInv' /\ WorkerInv'
<1>0. TypeOK' /\ UNCHANGED <<table, worker, hist>>  BY AdminType
<1>1. ASSUME NEW cfg \in Configs, Configure(a, cfg)  PROVE RowsInv' /\ WorkerInv'
  <2>1. cfg.sink \in SinkMap  BY <1>1, MaskedType DEF Configure
  <2>. QED  BY <1>0, <1>1, <2>1, EnqueueKeeps DEF Configure
<1>2. CASE (\E cfg \in Configs : SaveModem(a, cfg)) \/ WriteDisk(a) \/ Swap(a) \/ AdminError(a)
             \/ Leave(a) \/ LateWrite(a)
  <2>1. UNCHANGED <<jobs, start>>
    BY <1>2 DEF SaveModem, WriteDisk, Swap, AdminError, Leave, LateWrite, rowVars
  <2>. QED  BY <1>0, <2>1, Untouched
<1>3. CASE PersistEnqueue(a) \/ LateEnqueue(a)
  <2>1. CASE admin[a].cfg = NoModem  BY <1>0, <1>3, <2>1, Untouched DEF PersistEnqueue, LateEnqueue, Apply
  <2>2. CASE admin[a].cfg # NoModem
    <3>1. Masked(admin[a].cfg) \in SinkMap  BY <2>2, MaskedType DEF TypeOK
    <3>. QED  BY <1>0, <1>3, <2>2, <3>1, EnqueueKeeps DEF PersistEnqueue, LateEnqueue, Apply
  <2>. QED  BY <2>1, <2>2
<1>. QED  BY <1>1, <1>2, <1>3 DEF Admin

LEMMA ClientKeeps ==
  ASSUME TypeOK, RowsInv, WorkerInv, Client
  PROVE  RowsInv' /\ WorkerInv'
<1>0. TypeOK' /\ worker' = worker  BY ClientType
<1>a. \A m \in Messages, s \in Sinks : hist.posts[m][s] \in Nat /\ hist.posts[m][s] <= hist.posts[m][s]
  <2>1. ASSUME NEW m \in Messages, NEW s \in Sinks  PROVE hist.posts[m][s] \in Nat  BY DEF TypeOK
  <2>. QED  BY <2>1
<1>1. ASSUME NEW m \in Messages, NEW i \in Ids, NEW whole \in BOOLEAN, Arrive(m, i, whole)
      PROVE  RowsInv' /\ WorkerInv'
  <2>1. RowsInv'  BY <1>0, <1>1, ArriveRows
  <2>2. m \notin hist.seen /\ jobs' = jobs /\ hist'.seen = hist.seen \cup {m}
        /\ hist'.accepted = hist.accepted /\ hist'.posts = hist.posts
    BY <1>1 DEF Arrive, TypeOK
  <2>3. \A k \in Ids, q \in hist.seen : table'[k] # None /\ table'[k].msg = q => Stored(k, q)
    BY <1>1, <2>2 DEF Arrive, Stored, TypeOK
  <2>4. WorkerInv'  BY <1>0, <1>a, <2>2, <2>3, Bystander DEF Is
  <2>. QED  BY <2>1, <2>4
<1>2. ASSUME NEW i \in Ids, LastPart(i)  PROVE RowsInv' /\ WorkerInv'
  <2>1. RowsInv' /\ table'[i].msg = table[i].msg  BY <1>2, LastPartRows
  <2>2. UNCHANGED <<jobs, hist>>  BY <1>2 DEF LastPart
  <2>3. \A k \in Ids, q \in hist.seen : table'[k] # None /\ table'[k].msg = q => Stored(k, q)
    BY <1>2, <2>1 DEF LastPart, Stored, TypeOK
  <2>4. WorkerInv'  BY <1>0, <1>a, <2>2, <2>3, Bystander DEF Is
  <2>. QED  BY <2>1, <2>4
<1>3. ASSUME NEW i \in Ids, DeleteMessage(i)  PROVE RowsInv' /\ WorkerInv'
  <2>1. RowsInv'  BY <1>3, DeleteRows
  <2>2. hist'.seen = hist.seen /\ hist'.accepted = hist.accepted /\ hist'.posts = hist.posts
    BY <1>3 DEF DeleteMessage, TypeOK
  <2>3. table'[i] = None /\ \A k \in Ids : k # i => table'[k] = table[k] /\ jobs'[k] = jobs[k]
    BY <1>3 DEF DeleteMessage, TypeOK
  <2>4. \A k \in Ids, q \in hist.seen : table'[k] # None /\ table'[k].msg = q => Stored(k, q)
    BY <2>3 DEF Stored
  <2>5. \A k \in Ids, s \in Sinks : table'[k] # None /\ Is(k, s, {"inflight", "cancelled"}) =>
           jobs'[k][s] # None /\ jobs'[k][s] = jobs[k][s]
    BY <2>3 DEF Is
  <2>6. WorkerInv'  BY <1>0, <1>a, <2>2, <2>4, <2>5, Bystander
  <2>. QED  BY <2>1, <2>6
<1>4. ASSUME NEW i \in Ids, NEW s \in Sinks, RetryDelivery(i, s)  PROVE RowsInv' /\ WorkerInv'
  <2>1. RowsInv' /\ \A k \in Ids, r \in Sinks : <<k, r>> # <<i, s>> => jobs'[k][r] = jobs[k][r]
    BY <1>4, RetryRows
  <2>2. table' = table /\ hist'.seen = hist.seen /\ hist'.accepted = hist.accepted
    BY <1>4 DEF RetryDelivery, Requeued, TypeOK
  <2>3. \A k \in Ids, q \in hist.seen : table'[k] # None /\ table'[k].msg = q => Stored(k, q)
    BY <2>2 DEF Stored
  <2>4. \A k \in Ids, r \in Sinks : Is(k, r, {"inflight", "cancelled"}) =>
           jobs'[k][r] # None /\ jobs'[k][r] = jobs[k][r]
    <3>1. ~Is(i, s, {"inflight", "cancelled"})  BY <1>4 DEF RetryDelivery, Is
    <3>. QED  BY <2>1, <3>1 DEF Is
  <2>5. ASSUME NEW q \in Messages, NEW r \in Sinks  PROVE hist'.posts[q][r] <= hist.posts[q][r]
    <3>1. hist' = [hist EXCEPT !.posts[table[i].msg][s] = 0, !.rounds[table[i].msg][s] = @ + 1]
      BY <1>4 DEF RetryDelivery, Requeued
    <3>2. hist'.posts = [hist.posts EXCEPT ![table[i].msg][s] = 0]  BY <3>1 DEF TypeOK
    <3>3. hist'.posts[q][r] = hist.posts[q][r] \/ hist'.posts[q][r] = 0  BY <3>2 DEF TypeOK
    <3>4. hist.posts[q][r] \in Nat  BY <1>a
    <3>. QED  BY <3>3, <3>4
  <2>6. WorkerInv'  BY <1>0, <2>2, <2>3, <2>4, <2>5, Bystander
  <2>. QED  BY <2>1, <2>6
<1>. QED  BY <1>1, <1>2, <1>3, <1>4 DEF Client

LEMMA ForwardStep ==
  ASSUME ForwardInv, [Next]_vars
  PROVE  ForwardInv'
<1>0. TypeOK /\ RowsInv /\ WorkerInv  BY DEF ForwardInv
<1> SUFFICES TypeOK' /\ RowsInv' /\ WorkerInv'  BY DEF ForwardInv
<1>1. CASE Worker  BY <1>0, <1>1, WorkerType, WorkerRows, WorkerHeld
<1>2. CASE Client  BY <1>0, <1>2, ClientType, ClientKeeps
<1>3. CASE Crash
  <2>1. TypeOK'  BY <1>0, <1>3, RestartType
  <2>2. RowsInv'
    BY <1>0, <1>3 DEF Crash, rowVars, RowsInv, StoredOnce, Boundary, Dense, OpenJobsBelong,
       Is, TokenFits, DeliveredTruthful, PostsCounted, AttemptsBounded
  <2>3. worker'.at = "idle"  BY <1>3 DEF Crash, Idle
  <2>. QED  BY <2>1, <2>2, <2>3 DEF WorkerInv
<1>4. CASE Restart
  <2>1. TypeOK' /\ UNCHANGED <<table, worker, hist>>  BY <1>0, <1>4, RestartType DEF Restart
  <2>2. CASE disk = NoModem  BY <1>0, <1>4, <2>1, <2>2, Untouched DEF Restart
  <2>3. CASE disk # NoModem
    <3>1. disk.sink \in SinkMap  BY <1>0, <2>3, MaskedType DEF TypeOK
    <3>. QED  BY <1>0, <1>4, <2>1, <2>3, <3>1, EnqueueKeeps DEF Restart
  <2>. QED  BY <2>2, <2>3
<1>5. ASSUME NEW a \in Admins, Admin(a)  PROVE TypeOK' /\ RowsInv' /\ WorkerInv'
  BY <1>0, <1>5, AdminType, AdminKeeps
<1>6. ASSUME NEW i \in Ids, NEW s \in Sinks, Ripen(i, s)  PROVE TypeOK' /\ RowsInv' /\ WorkerInv'
  <2>1. TypeOK' /\ UNCHANGED <<table, worker, hist>>  BY <1>0, <1>6, RipenType
  <2>2. RowsInv'  BY <1>0, <1>6, <2>1, RipenRows
  <2>3. jobs[i][s] # None /\ jobs[i][s] \in Job  BY <1>0, <1>6, JobTypes DEF Ripen, Is
  <2>4. PICK j \in Job \cup {None} : j = Ripe(jobs[i][s])  BY <2>3, RipeJob
  <2>5. j \in Job /\ j.attempts = jobs[i][s].attempts /\ j.state = jobs[i][s].state /\ j.token = jobs[i][s].token
    BY <2>3, <2>4, RipeJob DEF SameCount
  <2>6. jobs' = [jobs EXCEPT ![i][s] = j]  BY <1>6, <2>4 DEF Ripen
  <2>7. jobs'[i][s] = j /\ \A k \in Ids, r \in Sinks : <<k, r>> # <<i, s>> => jobs'[k][r] = jobs[k][r]
    <3>1. jobs \in [Ids -> [Sinks -> Job \cup {None}]]  BY <1>0 DEF TypeOK
    <3>2. jobs'[i][s] = j  BY <2>6, <3>1
    <3>3. \A k \in Ids, r \in Sinks : <<k, r>> # <<i, s>> => jobs'[k][r] = jobs[k][r]  BY <2>6, <3>1
    <3>. QED  BY <3>2, <3>3
  <2>8. ASSUME NEW k \in Ids, NEW r \in Sinks, Is(k, r, {"inflight", "cancelled"})
        PROVE  /\ jobs'[k][r] # None /\ jobs'[k][r].attempts = jobs[k][r].attempts
               /\ jobs'[k][r].state = jobs[k][r].state /\ jobs'[k][r].token = jobs[k][r].token
    <3>1. CASE k = i /\ r = s  BY <2>5, <2>7, <3>1, NoneIsNot
    <3>2. CASE <<k, r>> # <<i, s>>  BY <2>7, <2>8, <3>2 DEF Is
    <3>. QED  BY <3>1, <3>2
  <2>9. ASSUME NEW m \in Messages, NEW r \in Sinks  PROVE hist.posts[m][r] \in Nat  BY <1>0 DEF TypeOK
  <2>10. \A m \in Messages, r \in Sinks : hist'.posts[m][r] <= hist.posts[m][r]  BY <2>1, <2>9
  <2>11. \A k \in Ids, m \in hist.seen : table'[k] # None /\ table'[k].msg = m => Stored(k, m)
    BY <2>1 DEF Stored
  <2>12. WorkerInv'  BY <1>0, <2>1, <2>8, <2>10, <2>11, Bystander
  <2>. QED  BY <2>1, <2>2, <2>12
<1>7. CASE UNCHANGED vars
  <2>1. TypeOK'  BY <1>0, <1>7 DEF vars, TypeOK
  <2>. QED  BY <1>0, <1>7, <2>1, Untouched DEF vars
<1>. QED  BY <1>1, <1>2, <1>3, <1>4, <1>5, <1>6, <1>7 DEF Next

LEMMA ForwardInvariant == Spec => []ForwardInv
<1>1. Init => ForwardInv  BY TypeInit, RowsInit DEF ForwardInv
<1>2. ForwardInv /\ [Next]_vars => ForwardInv'  BY ForwardStep
<1>. QED  BY <1>1, <1>2, PTL DEF Spec

\* Every variable keeps its type.
THEOREM TypeCorrect == Spec => []TypeOK
<1>1. ForwardInv => TypeOK  BY DEF ForwardInv
<1>. QED  BY <1>1, ForwardInvariant, PTL

\* A message is posted to a destination at most max_attempts times between two retries by
\* clients, whatever crashes, is lost, or fails in between (claim counts before deliver).
THEOREM AttemptsAreBounded == Spec => []AttemptsBounded
<1>1. ForwardInv => AttemptsBounded  BY DEF ForwardInv, RowsInv
<1>. QED  BY <1>1, ForwardInvariant, PTL

\* A job is recorded as delivered only if the destination accepted its message (complete).
THEOREM DeliveredIsTrue == Spec => []DeliveredTruthful
<1>1. ForwardInv => DeliveredTruthful  BY DEF ForwardInv, RowsInv
<1>. QED  BY <1>1, ForwardInvariant, PTL

\* Unfinished jobs are always those of the destinations that the table has on record, and of
\* messages that came after their activation (enqueue).
THEOREM OpenJobsAreCurrent == Spec => []OpenJobsBelong
<1>1. ForwardInv => OpenJobsBelong  BY DEF ForwardInv, RowsInv
<1>. QED  BY <1>1, ForwardInvariant, PTL

\* The job the worker posts is taken or requeued by nobody else (claim, retry_delivery).
THEOREM ClaimsAreExclusive == Spec => []ClaimIsExclusive
<1>1. ForwardInv => ClaimIsExclusive  BY DEF ForwardInv, WorkerInv, ClaimIsExclusive, Stored
<1>. QED  BY <1>1, ForwardInvariant, PTL

\* The jobs that Enqueue leaves: one that is done stays as it is.
LEMMA DoneEnqueue ==
  ASSUME TypeOK, NEW sinks \in SinkMap, Enqueue(sinks), NEW i \in Ids, NEW s \in Sinks,
         Is(i, s, {"delivered", "cancelled"})
  PROVE  jobs'[i][s] = jobs[i][s]
<1>1. ~Is(i, s, Open) /\ ~Wanted(i, s, sinks)  BY DEF Is, Open, Wanted
<1>. QED  BY <1>1, JobAfter

LEMMA DoneStep ==
  ASSUME ForwardInv, Next, NEW i \in Ids, NEW s \in Sinks, Is(i, s, {"delivered", "cancelled"})
  PROVE  jobs'[i][s] \in {jobs[i][s], None}
<1>0. TypeOK /\ RowsInv /\ WorkerInv /\ TokenFits /\ StoredOnce  BY DEF ForwardInv, RowsInv
<1>1. jobs[i][s] # None /\ jobs[i][s].state \in {"delivered", "cancelled"}  BY DEF Is
<1>2. ASSUME NEW last  PROVE Swept(last)[i][s] = jobs[i][s]  BY <1>0, <1>1, SweptJob
<1>3. CASE Worker
  <2>1. CASE Look \/ WorkerError  BY <2>1 DEF Look, WorkerError, rowVars
  <2>2. CASE WorkerEnqueue
    <3>1. Masked(worker.cfg) \in SinkMap
      BY <1>0, <2>2, MaskedType DEF WorkerEnqueue, At, WorkerInv, TypeOK
    <3>. QED  BY <1>0, <2>2, <3>1, DoneEnqueue DEF WorkerEnqueue
  <2>3. CASE ClaimNothing  BY <1>2, <2>3 DEF ClaimNothing
  <2>4. CASE Complete
    <3>1. CASE ~Held  BY <2>4, <3>1 DEF Complete
    <3>2. CASE Held
      <4>1. jobs[worker.id][worker.sink].state = "inflight"  BY <3>2 DEF Held, Is
      <4>2. ~(worker.id = i /\ worker.sink = s)  BY <1>1, <4>1
      <4>3. jobs' = [jobs EXCEPT ![worker.id][worker.sink] = Recorded(@, Settled)]
        BY <2>4, <3>2 DEF Complete, Record
      <4>. QED  BY <1>0, <4>2, <4>3 DEF TypeOK
    <3>. QED  BY <3>1, <3>2
  <2>5. ASSUME NEW k \in Ids, NEW r \in Sinks, Claim(k, r)  PROVE jobs'[i][s] = jobs[i][s]
    <3>1. /\ jobs[k][r].state \in {"pending", "inflight"}
          /\ \A h \in Ids, q \in Sinks : <<h, q>> # <<k, r>> => jobs'[h][q] = Swept(r)[h][q]
      BY <1>0, <2>5, ClaimJobs
    <3>2. <<i, s>> # <<k, r>>  BY <1>1, <3>1
    <3>. QED  BY <1>2, <3>1, <3>2
  <2>6. ASSUME NEW accepts \in BOOLEAN, NEW answered \in BOOLEAN, Post(accepts, answered)
        PROVE  jobs' = jobs
    BY <2>6 DEF Post, rowVars
  <2>. QED  BY <1>3, <2>1, <2>2, <2>3, <2>4, <2>5, <2>6 DEF Worker
<1>4. CASE Client
  <2>1. CASE \E m \in Messages, k \in Ids, whole \in BOOLEAN : Arrive(m, k, whole)  BY <2>1 DEF Arrive
  <2>2. CASE \E k \in Ids : LastPart(k)  BY <2>2 DEF LastPart
  <2>3. ASSUME NEW k \in Ids, DeleteMessage(k)  PROVE jobs'[i][s] \in {jobs[i][s], None}
    BY <1>0, <2>3 DEF DeleteMessage, TypeOK
  <2>4. ASSUME NEW k \in Ids, NEW r \in Sinks, RetryDelivery(k, r)  PROVE jobs'[i][s] = jobs[i][s]
    <3>1. <<i, s>> # <<k, r>>  BY <1>1, <2>4 DEF RetryDelivery, Is
    <3>. QED  BY <1>0, <2>4, <3>1, RetryRows
  <2>. QED  BY <1>4, <2>1, <2>2, <2>3, <2>4 DEF Client
<1>5. CASE Crash  BY <1>5 DEF Crash, rowVars
<1>6. CASE Restart
  <2>1. CASE disk = NoModem  BY <1>6, <2>1 DEF Restart
  <2>2. CASE disk # NoModem
    <3>1. disk.sink \in SinkMap  BY <1>0, <2>2, MaskedType DEF TypeOK
    <3>. QED  BY <1>0, <1>6, <2>2, <3>1, DoneEnqueue DEF Restart
  <2>. QED  BY <2>1, <2>2
<1>7. ASSUME NEW a \in Admins, Admin(a)  PROVE jobs'[i][s] = jobs[i][s]
  <2>1. ASSUME NEW cfg \in Configs, Configure(a, cfg)  PROVE jobs'[i][s] = jobs[i][s]
    <3>1. cfg.sink \in SinkMap  BY <2>1, MaskedType DEF Configure
    <3>. QED  BY <1>0, <2>1, <3>1, DoneEnqueue DEF Configure
  <2>2. CASE (\E cfg \in Configs : SaveModem(a, cfg)) \/ WriteDisk(a) \/ Swap(a) \/ AdminError(a)
               \/ Leave(a) \/ LateWrite(a)
    BY <2>2 DEF SaveModem, WriteDisk, Swap, AdminError, Leave, LateWrite, rowVars
  <2>3. CASE PersistEnqueue(a) \/ LateEnqueue(a)
    <3>1. CASE admin[a].cfg = NoModem  BY <2>3, <3>1 DEF PersistEnqueue, LateEnqueue, Apply
    <3>2. CASE admin[a].cfg # NoModem
      <4>1. Masked(admin[a].cfg) \in SinkMap  BY <1>0, <3>2, MaskedType DEF TypeOK
      <4>. QED  BY <1>0, <2>3, <3>2, <4>1, DoneEnqueue DEF PersistEnqueue, LateEnqueue, Apply
    <3>. QED  BY <3>1, <3>2
  <2>. QED  BY <1>7, <2>1, <2>2, <2>3 DEF Admin
<1>8. ASSUME NEW k \in Ids, NEW r \in Sinks, Ripen(k, r)  PROVE jobs'[i][s] = jobs[i][s]
  <2>1. jobs[k][r].state \in {"pending", "inflight"}  BY <1>8 DEF Ripen, Is
  <2>2. ~(k = i /\ r = s)  BY <1>1, <2>1
  <2>3. jobs' = [jobs EXCEPT ![k][r] = Ripe(@)]  BY <1>8 DEF Ripen
  <2>. QED  BY <1>0, <2>2, <2>3 DEF TypeOK
<1>. QED  BY <1>3, <1>4, <1>5, <1>6, <1>7, <1>8 DEF Next

\* A delivery that is done never changes while its message exists: neither a reconfiguration, nor
\* a retry, a late answer of the worker or a crash revives it (complete, retry_delivery, enqueue).
THEOREM DoneStays == Spec => DoneIsFinal
<1>1. ForwardInv /\ [Next]_vars =>
        [\A i \in Ids, s \in Sinks :
           Is(i, s, {"delivered", "cancelled"}) => jobs'[i][s] \in {jobs[i][s], None}]_vars
  BY DoneStep
<1>. QED  BY <1>1, ForwardInvariant, PTL DEF Spec, DoneIsFinal

LEMMA QueuedStep ==
  ASSUME ForwardInv, Next, worker.at = "enqueue", worker'.at = "claim",
         NEW i \in Ids \ hist.erased, NEW s \in Sinks,
         Enabled(s), table[i] # None, table[i].ready,
         start'[s] # None, table[i].msg \notin start'[s].backlog
  PROVE  jobs'[i][s] # None
<1>0. TypeOK /\ RowsInv /\ WorkerInv  BY DEF ForwardInv
<1>1. WorkerEnqueue
  <2>1. CASE Worker
    <3>1. ~Look  BY DEF Look, At
    <3>2. ~ClaimNothing /\ ~(\E k \in Ids, r \in Sinks : Claim(k, r))  BY DEF ClaimNothing, Claim, At
    <3>3. ~Complete /\ ~(\E accepts, answered \in BOOLEAN : Post(accepts, answered))
      BY DEF Complete, Post, At
    <3>4. ~WorkerError  BY DEF WorkerError, Idle
    <3>. QED  BY <2>1, <3>1, <3>2, <3>3, <3>4 DEF Worker
  <2>2. ~Client  BY <1>0, ClientType
  <2>3. ~Crash  BY DEF Crash, Idle
  <2>4. ~Restart  BY DEF Restart
  <2>5. ~ \E a \in Admins : Admin(a)  BY <1>0, AdminType
  <2>6. ~ \E k \in Ids, r \in Sinks : Ripen(k, r)  BY DEF Ripen
  <2>. QED  BY <2>1, <2>2, <2>3, <2>4, <2>5, <2>6 DEF Next
<1>2. PICK sinks \in SinkMap : sinks = Masked(worker.cfg)
  BY <1>0, <1>1, MaskedType DEF WorkerEnqueue, At, WorkerInv, TypeOK
<1>3. Enqueue(sinks) /\ sinks[s] # Off  BY <1>1, <1>2 DEF WorkerEnqueue, Enabled
<1>4. ~Changed(s, sinks)
  <2>1. SUFFICES ASSUME Changed(s, sinks)  PROVE FALSE  OBVIOUS
  <2>2. start'[s].backlog = {table[k].msg : k \in {h \in Ids : table[h] # None}}
    BY <1>0, <1>3, <2>1, StartAfter DEF Enqueue
  <2>. QED  BY <2>2
<1>5. start'[s] = start[s] /\ NewStart(sinks)[s] = start[s]  BY <1>3, <1>4 DEF Enqueue, NewStart
<1>6. i \notin start[s].upto  BY <1>0, <1>5 DEF RowsInv, Boundary
<1>7. CASE jobs[i][s] = None
  <2>1. Wanted(i, s, sinks)  BY <1>3, <1>5, <1>6, <1>7 DEF Wanted
  <2>2. jobs'[i][s] = NewJob(sinks[s])  BY <1>0, <1>3, <1>4, <2>1, JobAfter
  <2>. QED  BY <1>2, <1>3, <2>2, FreshJob, NoneIsNot DEF SinkMap
<1>8. CASE jobs[i][s] # None
  <2>1. jobs'[i][s] = jobs[i][s]  BY <1>0, <1>3, <1>4, <1>8, JobAfter DEF Wanted
  <2>. QED  BY <1>8, <2>1
<1>. QED  BY <1>7, <1>8

\* A round of the worker misses no message: after its enqueue every complete message that arrived
\* after the activation of an enabled destination has a job there, unless its row took an id that
\* had been used before (enqueue).
THEOREM MessagesAreQueued == Spec => NewMessagesQueued
<1>1. ForwardInv /\ [Next]_vars =>
        [worker.at = "enqueue" /\ worker'.at = "claim" =>
           \A i \in Ids \ hist.erased, s \in Sinks :
             /\ Enabled(s) /\ table[i] # None /\ table[i].ready
             /\ start'[s] # None /\ table[i].msg \notin start'[s].backlog
             => jobs'[i][s] # None]_vars
  BY QueuedStep
<1>. QED  BY <1>1, ForwardInvariant, PTL DEF Spec, NewMessagesQueued
=============================================================================
