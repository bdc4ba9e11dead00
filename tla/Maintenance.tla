---------------------------- MODULE Maintenance -----------------------------
(* The maintenance of one modem: the supervisor that gives it a worker per configuration, the  *)
(* worker's loop of scheduled reset and watchdog, and the owned tasks of the reset, which      *)
(* outlive their worker and meet in the table maintenance_runs.                                *)
(*                                                                                             *)
(* The calendar is a number of periods (days); Hour says that the hour of the schedule has     *)
(* come.  What the watchdog's actions do is module Network's.                                  *)
EXTENDS Watchdog, FiniteSets

CONSTANTS
  Configs,    (* configurations of the modem: monitor.enabled, traffic.reset.enabled *)
  First,      (* the one the daemon starts with                              *)
  Days,       (* bound: periods                                              *)
  MaxEvents,  (* bound: edits and crashes together                           *)
  None

ASSUME MaintenanceAssumption ==
  /\ \A c \in Configs : {"watch", "reset"} \subseteq DOMAIN c /\ c.watch \in BOOLEAN /\ c.reset \in BOOLEAN
  /\ First \in Configs /\ None \notin Configs
  /\ Days \in Nat \ {0} /\ MaxEvents \in Nat

VARIABLES
  cfg,      (* the modem in AppState.config                                  *)
  clock,    (* the day, and whether it is the hour                           *)
  link,     (* the data interface: absent, without connection, or up (external) *)
  worker,   (* its configuration, position, Counter and number               *)
  tasks,    (* reset tasks                                                   *)
  runs,     (* table maintenance_runs                                        *)
  used,     (* bound                                                         *)
  hist      (* history: clears of the modem's counter per day; since the
               watchdog last acted: time, unhealthy checks in a row, checks
               without an interface                                          *)

vars == <<cfg, clock, link, worker, tasks, runs, used, hist>>

Daily == 1..Days
NoWorker == [at |-> "none", cfg |-> None, count |-> NewCount, gen |-> 0]
NewWorker(c) == [at |-> "tick", cfg |-> c, count |-> NewCount, gen |-> used]

Init ==
  /\ cfg = First
  /\ clock = [day |-> 1, hour |-> FALSE] /\ link = "absent"
  /\ worker = NoWorker /\ tasks = {} /\ runs = [d \in Daily |-> "none"]
  /\ used = 0
  /\ hist = [clears |-> [d \in Daily |-> 0], failed |-> 0, absent |-> 0, since |-> Cooldown]

Event == used < MaxEvents /\ used' = used + 1

Forgets(since) == hist' = [hist EXCEPT !.failed = 0, !.absent = 0, !.since = since]

At(p) == worker.at = p
Goto(p) == worker' = [worker EXCEPT !.at = p]

-----------------------------------------------------------------------------
(* The supervisor.                                                           *)

Active(c) == c.watch \/ c.reset

\* Every three seconds: a worker for the configuration, the old one is aborted wherever it is.
Supervise ==
  /\ IF Active(cfg) THEN worker.cfg # cfg /\ worker' = NewWorker(cfg)
     ELSE worker # NoWorker /\ worker' = NoWorker
  /\ Forgets(Cooldown)
  /\ UNCHANGED <<cfg, clock, link, tasks, runs, used>>

-----------------------------------------------------------------------------
(* schedule::tick and its task.                                              *)

Due == worker.cfg.reset /\ clock.hour

\* The period is computed before the task is spawned; the worker awaits the task.
Tick ==
  /\ At("tick")
  /\ IF Due THEN Goto("await") /\ tasks' = tasks \cup {[day |-> clock.day, at |-> "claim", by |-> worker.gen]}
     ELSE Goto("check") /\ UNCHANGED tasks
  /\ UNCHANGED <<cfg, clock, link, runs, used, hist>>

Waits(k) == At("await") /\ worker.gen = k.by

\* Mutant: the worker is not told.
TaskEndsAlone(k) == tasks' = tasks \ {k} /\ UNCHANGED worker

\* The task ends; its worker, if it is still there, goes on.
TaskEnds(k) ==
  /\ tasks' = tasks \ {k}
  /\ IF Waits(k) THEN Goto("check") ELSE UNCHANGED worker

TaskGoes(k, p) == tasks' = (tasks \ {k}) \cup {[k EXCEPT !.at = p]} /\ UNCHANGED worker

\* Mutant: INSERT OR REPLACE, a period that failed or was interrupted is tried again.
ClaimAgain(k) ==
  /\ k.at = "claim"
  /\ IF runs[k.day] # "completed"
     THEN runs' = [runs EXCEPT ![k.day] = "started"] /\ TaskGoes(k, "clear")
     ELSE TaskEnds(k) /\ UNCHANGED runs
  /\ UNCHANGED <<cfg, clock, link, used, hist>>

\* INSERT OR IGNORE: one task per period goes on.
Claim(k) ==
  /\ k.at = "claim"
  /\ IF runs[k.day] = "none"
     THEN runs' = [runs EXCEPT ![k.day] = "started"] /\ TaskGoes(k, "clear")
     ELSE TaskEnds(k) /\ UNCHANGED runs
  /\ UNCHANGED <<cfg, clock, link, used, hist>>

\* The program of the modem: it may fail before it clears the counter, or its answer be lost after.
Clear(k) ==
  /\ k.at = "clear"
  /\ \E cleared \in BOOLEAN, p \in {"completed", "failed"} :
       /\ p = "completed" => cleared
       /\ hist' = IF cleared THEN [hist EXCEPT !.clears[k.day] = @ + 1] ELSE hist
       /\ TaskGoes(k, p)
  /\ UNCHANGED <<cfg, clock, link, runs, used>>

Record(k) ==
  /\ k.at \in {"completed", "failed"}
  /\ runs' = [runs EXCEPT ![k.day] = k.at]
  /\ TaskEnds(k)
  /\ UNCHANGED <<cfg, clock, link, used, hist>>

\* The database refuses the claim or the outcome.
TaskError(k) ==
  /\ k.at # "clear" /\ TaskEnds(k)
  /\ UNCHANGED <<cfg, clock, link, runs, used, hist>>

Reset(k) == Claim(k) \/ Clear(k) \/ Record(k) \/ TaskError(k)

-----------------------------------------------------------------------------
(* The watchdog.                                                             *)

Ready == link # "absent"
Healthy == link = "up"

Longer(n, by, limit) == IF n + by > limit THEN limit ELSE n + by

\* check() and observe(), when the interval is over; shorter rounds of the loop only tick.
Check ==
  /\ At("check") /\ worker.cfg.watch
  /\ \E dt \in 1..Cooldown :
       LET count == Older(worker.count, dt)
           acts == Triggers(count, Ready, Healthy)
       IN  /\ worker' = [worker EXCEPT !.at = IF acts THEN "act" ELSE "tick",
                                       !.count = Observed(count, Ready, Healthy)]
           /\ hist' = [hist EXCEPT !.failed = IF Healthy THEN 0 ELSE Longer(@, 1, Threshold),
                                   !.absent = IF Ready THEN @ ELSE Longer(@, 1, Grace + 1),
                                   !.since = Longer(@, dt, Cooldown)]
  /\ UNCHANGED <<cfg, clock, link, tasks, runs, used>>

NoCheck ==
  /\ At("check") /\ ~worker.cfg.watch /\ Goto("tick")
  /\ UNCHANGED <<cfg, clock, link, tasks, runs, used, hist>>

\* The actions, in order; a failed one does not stop the next.
Act ==
  /\ At("act") /\ Goto("tick")
  /\ Forgets(0)
  /\ UNCHANGED <<cfg, clock, link, tasks, runs, used>>

Worker == Tick \/ Check \/ NoCheck \/ Act

-----------------------------------------------------------------------------
(* The configuration, the time, the network and the daemon.                  *)

Edit ==
  /\ Event /\ \E c \in Configs \ {cfg} : cfg' = c
  /\ UNCHANGED <<clock, link, worker, tasks, runs, hist>>

\* The hour comes; when it is over, the next one is another day's.
Clock ==
  /\ \/ ~clock.hour /\ clock' = [clock EXCEPT !.hour = TRUE]
     \/ clock.hour /\ clock.day < Days /\ clock' = [day |-> clock.day + 1, hour |-> FALSE]
  /\ UNCHANGED <<cfg, link, worker, tasks, runs, used, hist>>

Link ==
  /\ link' \in {"absent", "down", "up"} \ {link}
  /\ UNCHANGED <<cfg, clock, worker, tasks, runs, used, hist>>

Crash ==
  /\ Event
  /\ worker' = NoWorker /\ tasks' = {}
  /\ Forgets(Cooldown)
  /\ UNCHANGED <<cfg, clock, link, runs>>

Next ==
  \/ Supervise \/ Worker \/ \E k \in tasks : Reset(k)
  \/ Edit \/ Clock \/ Link \/ Crash

Spec == Init /\ [][Next]_vars

\* The supervisor, its worker and the tasks are polled.
FairSpec ==
  /\ Spec /\ WF_vars(Supervise) /\ WF_vars(Worker)
  /\ WF_vars(\E k \in tasks : Reset(k))

-----------------------------------------------------------------------------
(* Properties.                                                               *)

TypeOK ==
  /\ cfg \in Configs
  /\ clock \in [day : Daily, hour : BOOLEAN]
  /\ link \in {"absent", "down", "up"}
  /\ worker \in [at : {"none", "tick", "await", "check", "act"},
                 cfg : Configs \cup {None}, count : Count, gen : 0..MaxEvents]
  /\ At("await") => \E k \in tasks : k.by = worker.gen
  /\ tasks \subseteq [day : Daily, at : {"claim", "clear", "completed", "failed"}, by : 0..MaxEvents]
  /\ runs \in [Daily -> {"none", "started", "completed", "failed"}]
  /\ used \in 0..MaxEvents
  /\ hist \in [clears : [Daily -> Nat], failed : 0..Threshold, absent : 0..Grace + 1, since : 0..Cooldown]

\* The modem's counter is cleared at most once in a period, over workers replaced while their
\* task runs on, restarts and database errors, and a reset on record as completed was done.
ResetAtMostOnce ==
  \A d \in Daily : hist.clears[d] <= 1 /\ (runs[d] = "completed" => hist.clears[d] = 1)

\* The watchdog acts only after Threshold unhealthy checks in a row since it last acted, no
\* sooner than its cool-down, and on an interface that is absent only beyond its grace.
ActsOnlyWhenDue ==
  [][~At("act") /\ worker'.at = "act" =>
       /\ hist'.failed = Threshold /\ hist'.since = Cooldown
       /\ link = "absent" => hist'.absent > Grace]_vars

\* While the connection stays away the watchdog acts again and again.
KeepsActing ==
  <>[](worker.cfg = cfg /\ cfg.watch /\ link # "up") => []<>At("act")
=============================================================================
