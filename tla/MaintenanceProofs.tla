------------------------- MODULE MaintenanceProofs --------------------------
(***************************************************************************)
(* Proofs about the maintenance of one modem, for any threshold, grace,    *)
(* cool-down, number of periods, edits and crashes.                        *)
(***************************************************************************)
EXTENDS Maintenance, TLAPS

-----------------------------------------------------------------------------
(* The Counter.                                                              *)

LEMMA OlderCount ==
  ASSUME NEW c \in Count, NEW dt \in Nat
  PROVE  /\ Older(c, dt) \in Count
         /\ Older(c, dt).failures = c.failures /\ Older(c, dt).grace = c.grace
         /\ Older(c, dt).since = Longer(c.since, dt, Cooldown)
BY WatchdogAssumption DEF Older, Count, Longer

LEMMA NewCountIsCount == NewCount \in Count
BY WatchdogAssumption DEF NewCount, Count

\* What one check does to a Counter: it forgives, acts and starts again, or counts.
LEMMA ObservedCount ==
  ASSUME NEW c \in Count, NEW ready \in BOOLEAN, NEW healthy \in BOOLEAN
  PROVE  /\ Observed(c, ready, healthy) \in Count
         /\ Forgiven(c, ready) =>
              /\ Observed(c, ready, healthy) = [c EXCEPT !.grace = @ - 1]
              /\ ~Triggers(c, ready, healthy)
         /\ ~Forgiven(c, ready) /\ ~Triggers(c, ready, healthy) =>
              Observed(c, ready, healthy) = [c EXCEPT !.failures = Failures(c, healthy)]
         /\ Triggers(c, ready, healthy) =>
              /\ ~healthy /\ c.since = Cooldown /\ c.failures + 1 >= Threshold
              /\ ~ready => c.grace = 0
<1>1. c.failures \in 0..Threshold /\ c.grace \in 0..Grace /\ c.since \in 0..Cooldown
  BY DEF Count
<1>2. Failures(c, healthy) \in 0..Threshold
  BY <1>1, WatchdogAssumption DEF Failures
<1>3. Forgiven(c, ready) => [c EXCEPT !.grace = @ - 1] \in Count
  BY <1>1, WatchdogAssumption DEF Forgiven, Count
<1>4. [failures |-> 0, grace |-> Grace, since |-> 0] \in Count
  BY WatchdogAssumption DEF Count
<1>5. [c EXCEPT !.failures = Failures(c, healthy)] \in Count
  BY <1>2 DEF Count
<1>6. Observed(c, ready, healthy) \in Count
  BY <1>3, <1>4, <1>5 DEF Observed
<1>7. Triggers(c, ready, healthy) =>
        ~healthy /\ c.since = Cooldown /\ c.failures + 1 >= Threshold /\ (~ready => c.grace = 0)
  BY <1>1, WatchdogAssumption DEF Triggers, Failures, Forgiven
<1>8. QED BY <1>6, <1>7 DEF Observed, Triggers

-----------------------------------------------------------------------------
(* The types of the variables, and the inductive invariant.                  *)

WorkerSet == [at : {"none", "tick", "await", "check", "act"},
              cfg : Configs \cup {None}, count : Count, gen : 0..MaxEvents]
History == [clears : [Daily -> Nat], failed : 0..Threshold, absent : 0..Grace + 1, since : 0..Cooldown]
TaskSet == [day : Daily, at : {"claim", "clear", "completed", "failed"}, by : 0..MaxEvents]

\* The task that went past its claim is the only one of its period, the period is on record as
\* started, and its counter is cleared as far as the task has come.
Past(k) == k.at # "claim"
OneClaim ==
  /\ \A k, l \in tasks : Past(k) /\ Past(l) /\ k.day = l.day => k = l
  /\ \A k \in tasks :
       /\ Past(k) => runs[k.day] = "started"
       /\ k.at = "clear" => hist.clears[k.day] = 0
       /\ k.at = "completed" => hist.clears[k.day] = 1
  /\ \A d \in Daily : runs[d] = "none" => hist.clears[d] = 0

\* What the Counter knows is no more than what happened since the watchdog last acted.
CounterIsHistory ==
  worker.at \in {"tick", "await", "check"} =>
    /\ worker.count.failures <= hist.failed
    /\ worker.count.grace + hist.absent >= Grace
    /\ worker.count.since = hist.since
CounterStartsAgain ==
  worker.at = "act" => worker.count = [failures |-> 0, grace |-> Grace, since |-> 0]

UpkeepInv == TypeOK /\ ResetAtMostOnce /\ OneClaim /\ CounterIsHistory /\ CounterStartsAgain

LEMMA Counted == used \in 0..MaxEvents /\ Event => used' \in 0..MaxEvents
BY MaintenanceAssumption DEF Event

LEMMA UpkeepInit == Init => UpkeepInv
<1> SUFFICES ASSUME Init PROVE UpkeepInv
  OBVIOUS
<1> USE MaintenanceAssumption, WatchdogAssumption, NewCountIsCount
<1>1. TypeOK
  BY DEF Init, TypeOK, WorkerSet, History, NoWorker, At, Daily
<1>2. QED
  BY <1>1 DEF Init, UpkeepInv, ResetAtMostOnce, OneClaim, CounterIsHistory, CounterStartsAgain,
              NoWorker, Daily

-----------------------------------------------------------------------------
(* The reset tasks.                                                          *)

\* What the step of a task may do to the worker leaves its Counter alone.
Released == worker' = worker \/ (At("await") /\ worker' = [worker EXCEPT !.at = "check"])

LEMMA ReleasedKeeps ==
  ASSUME TypeOK, CounterIsHistory, CounterStartsAgain, Released,
         hist'.failed = hist.failed, hist'.absent = hist.absent, hist'.since = hist.since
  PROVE  CounterIsHistory' /\ CounterStartsAgain'
BY DEF TypeOK, WorkerSet, History, CounterIsHistory, CounterStartsAgain, Released, At

LEMMA TaskEndsType ==
  ASSUME TypeOK, NEW k \in tasks, TaskEnds(k)
  PROVE  /\ tasks' = tasks \ {k} /\ Released
         /\ worker' \in WorkerSet
         /\ worker'.at = "await" => \E l \in tasks' : l.by = worker'.gen
<1>1. CASE Waits(k)
  BY <1>1 DEF TypeOK, WorkerSet, History, TaskEnds, Waits, Goto, Released, At
<1>2. CASE ~Waits(k)
  BY <1>2 DEF TypeOK, WorkerSet, History, TaskEnds, Waits, Released, At
<1>3. QED BY <1>1, <1>2

LEMMA TaskGoesType ==
  ASSUME TypeOK, NEW k \in tasks, NEW p \in {"clear", "completed", "failed"}, TaskGoes(k, p)
  PROVE  /\ tasks' = (tasks \ {k}) \cup {[k EXCEPT !.at = p]} /\ worker' = worker
         /\ [k EXCEPT !.at = p] \in TaskSet
         /\ [k EXCEPT !.at = p].at = p /\ [k EXCEPT !.at = p].day = k.day
         /\ worker'.at = "await" => \E l \in tasks' : l.by = worker'.gen
<1>1. k \in TaskSet
  BY DEF TypeOK, WorkerSet, History, TaskSet
<1>2. /\ [k EXCEPT !.at = p] \in TaskSet /\ [k EXCEPT !.at = p].by = k.by
      /\ [k EXCEPT !.at = p].at = p /\ [k EXCEPT !.at = p].day = k.day
  BY <1>1 DEF TaskSet
<1>3. tasks' = (tasks \ {k}) \cup {[k EXCEPT !.at = p]} /\ worker' = worker
  BY DEF TaskGoes
<1>4. worker.at = "await" => \E l \in tasks : l.by = worker.gen
  BY DEF TypeOK, WorkerSet, History, At
<1>5. worker'.at = "await" => \E l \in tasks' : l.by = worker'.gen
  BY <1>2, <1>3, <1>4
<1>6. QED BY <1>2, <1>3, <1>5

LEMMA ClaimStep ==
  ASSUME UpkeepInv, NEW k \in tasks, Claim(k)
  PROVE  UpkeepInv'
<1>0. TypeOK /\ k \in TaskSet /\ k.day \in Daily
  BY DEF UpkeepInv, TypeOK, WorkerSet, History, TaskSet
<1>1. CASE runs[k.day] = "none"
  <2>1. runs' = [runs EXCEPT ![k.day] = "started"] /\ TaskGoes(k, "clear") /\ UNCHANGED <<cfg, clock, link, used, hist>>
    BY <1>1 DEF Claim
  <2> DEFINE n == [k EXCEPT !.at = "clear"]
  <2>2. /\ tasks' = (tasks \ {k}) \cup {n} /\ worker' = worker /\ n \in TaskSet
        /\ n.at = "clear" /\ n.day = k.day
        /\ worker'.at = "await" => \E l \in tasks' : l.by = worker'.gen
    BY <1>0, <2>1, TaskGoesType
  <2> HIDE DEF n
  <2>3. runs' \in [Daily -> {"none", "started", "completed", "failed"}]
    BY <1>0, <2>1 DEF TypeOK, WorkerSet, History
  <2>4. TypeOK'
    BY <1>0, <2>1, <2>2, <2>3 DEF TypeOK, WorkerSet, History, TaskSet, At
  <2>5. \A l \in tasks : Past(l) => l.day # k.day
    BY <1>1 DEF UpkeepInv, OneClaim
  <2>6. OneClaim' /\ ResetAtMostOnce'
    BY <1>0, <1>1, <2>1, <2>2, <2>5
       DEF UpkeepInv, OneClaim, ResetAtMostOnce, TypeOK, WorkerSet, History, TaskSet, Past
  <2>7. QED BY <2>1, <2>2, <2>4, <2>6 DEF UpkeepInv, CounterIsHistory, CounterStartsAgain
<1>2. CASE runs[k.day] # "none"
  <2>1. TaskEnds(k) /\ UNCHANGED <<cfg, clock, link, runs, used, hist>>
    BY <1>2 DEF Claim
  <2>2. /\ tasks' = tasks \ {k} /\ Released
        /\ worker' \in WorkerSet
        /\ worker'.at = "await" => \E l \in tasks' : l.by = worker'.gen
    BY <1>0, <2>1, TaskEndsType
  <2>3. TypeOK'
    BY <1>0, <2>1, <2>2 DEF TypeOK, WorkerSet, History, At
  <2>4. OneClaim' /\ ResetAtMostOnce'
    BY <2>1, <2>2 DEF UpkeepInv, OneClaim, ResetAtMostOnce
  <2>5. QED BY <2>1, <2>2, <2>3, <2>4, ReleasedKeeps DEF UpkeepInv
<1>3. QED BY <1>1, <1>2

LEMMA ClearStep ==
  ASSUME UpkeepInv, NEW k \in tasks, Clear(k)
  PROVE  UpkeepInv'
<1>0. TypeOK /\ k \in TaskSet /\ k.day \in Daily /\ k.at = "clear"
  BY DEF UpkeepInv, TypeOK, WorkerSet, History, TaskSet, Clear
<1>1. PICK cleared \in BOOLEAN, p \in {"completed", "failed"} :
        /\ p = "completed" => cleared
        /\ hist' = IF cleared THEN [hist EXCEPT !.clears[k.day] = @ + 1] ELSE hist
        /\ TaskGoes(k, p)
  BY DEF Clear
<1> DEFINE n == [k EXCEPT !.at = p]
<1>2. /\ tasks' = (tasks \ {k}) \cup {n} /\ worker' = worker /\ n \in TaskSet
      /\ n.at = p /\ n.day = k.day
      /\ worker'.at = "await" => \E l \in tasks' : l.by = worker'.gen
  BY <1>0, <1>1, TaskGoesType
<1> HIDE DEF n
<1>3. /\ hist.clears \in [Daily -> Nat] /\ hist.clears[k.day] = 0 /\ runs[k.day] = "started"
      /\ UNCHANGED <<cfg, clock, link, runs, used>>
  BY <1>0 DEF UpkeepInv, OneClaim, TypeOK, WorkerSet, History, Clear, Past
<1>4. /\ hist' \in History
      /\ hist'.failed = hist.failed /\ hist'.absent = hist.absent /\ hist'.since = hist.since
      /\ \A d \in Daily : d # k.day => hist'.clears[d] = hist.clears[d]
      /\ hist'.clears[k.day] = IF cleared THEN 1 ELSE 0
  BY <1>0, <1>1, <1>3 DEF TypeOK, WorkerSet, History
<1>5. TypeOK'
  BY <1>0, <1>2, <1>3, <1>4 DEF TypeOK, WorkerSet, History, TaskSet, At
<1>6. \A l \in tasks : Past(l) /\ l # k => l.day # k.day
  BY <1>0 DEF UpkeepInv, OneClaim, Past
<1>7. OneClaim'
  BY <1>0, <1>1, <1>2, <1>3, <1>4, <1>6
     DEF UpkeepInv, OneClaim, TypeOK, WorkerSet, History, TaskSet, Past
<1>8. ResetAtMostOnce'
  BY <1>0, <1>3, <1>4 DEF UpkeepInv, ResetAtMostOnce
<1>9. Released
  BY <1>2 DEF Released
<1>10. QED BY <1>0, <1>4, <1>5, <1>7, <1>8, <1>9, ReleasedKeeps DEF UpkeepInv

LEMMA EndStep ==
  ASSUME UpkeepInv, NEW k \in tasks, Record(k) \/ TaskError(k)
  PROVE  UpkeepInv'
<1>0. TypeOK /\ k \in TaskSet /\ k.day \in Daily
  BY DEF UpkeepInv, TypeOK, WorkerSet, History, TaskSet
<1>1. TaskEnds(k) /\ UNCHANGED <<cfg, clock, link, used, hist>>
  BY DEF Record, TaskError
<1>2. /\ tasks' = tasks \ {k} /\ Released
      /\ worker' \in WorkerSet
      /\ worker'.at = "await" => \E l \in tasks' : l.by = worker'.gen
  BY <1>0, <1>1, TaskEndsType
<1>3. CounterIsHistory' /\ CounterStartsAgain'
  BY <1>1, <1>2, ReleasedKeeps DEF UpkeepInv
<1>4. CASE Record(k)
  <2>1. Past(k) /\ runs' = [runs EXCEPT ![k.day] = k.at] /\ k.at \in {"completed", "failed"}
    BY <1>4 DEF Record, Past
  <2>2. runs' \in [Daily -> {"none", "started", "completed", "failed"}]
    BY <1>0, <2>1 DEF TypeOK, WorkerSet, History
  <2>3. TypeOK'
    BY <1>0, <1>1, <1>2, <2>2 DEF TypeOK, WorkerSet, History, At
  <2>4. \A l \in tasks : Past(l) /\ l # k => l.day # k.day
    BY <2>1 DEF UpkeepInv, OneClaim
  <2>5. OneClaim' /\ ResetAtMostOnce'
    BY <1>0, <1>1, <1>2, <2>1, <2>4
       DEF UpkeepInv, OneClaim, ResetAtMostOnce, TypeOK, WorkerSet, History, TaskSet, Past
  <2>6. QED BY <1>3, <2>3, <2>5 DEF UpkeepInv
<1>5. CASE TaskError(k)
  <2>1. UNCHANGED runs
    BY <1>5 DEF TaskError
  <2>2. TypeOK'
    BY <1>0, <1>1, <1>2, <2>1 DEF TypeOK, WorkerSet, History, At
  <2>3. OneClaim' /\ ResetAtMostOnce'
    BY <1>1, <1>2, <2>1 DEF UpkeepInv, OneClaim, ResetAtMostOnce
  <2>4. QED BY <1>3, <2>2, <2>3 DEF UpkeepInv
<1>6. QED BY <1>4, <1>5

-----------------------------------------------------------------------------
(* The worker.                                                               *)

\* A new worker, or none, starts with the history forgotten.
LEMMA FreshWorker ==
  ASSUME UpkeepInv, NEW c \in Configs, NEW g \in 0..MaxEvents,
         worker' = NoWorker \/ worker' = [at |-> "tick", cfg |-> c, count |-> NewCount, gen |-> g],
         Forgets(Cooldown)
  PROVE  /\ worker' \in WorkerSet
         /\ worker'.at \in {"none", "tick"}
         /\ hist' \in History
         /\ hist'.clears = hist.clears
         /\ CounterIsHistory' /\ CounterStartsAgain'
<1> USE MaintenanceAssumption, WatchdogAssumption
<1>1. /\ hist' = [hist EXCEPT !.failed = 0, !.absent = 0, !.since = Cooldown]
      /\ hist \in History
  BY DEF Forgets, UpkeepInv, TypeOK, WorkerSet, History
<1>2. /\ hist' \in History
      /\ hist'.clears = hist.clears /\ hist'.failed = 0 /\ hist'.absent = 0 /\ hist'.since = Cooldown
  <2>1. 0 \in 0..Threshold /\ 0 \in 0..Grace + 1 /\ Cooldown \in 0..Cooldown
    OBVIOUS
  <2>2. QED BY <1>1, <2>1 DEF History
<1>3. /\ worker'.count = NewCount /\ worker'.at \in {"none", "tick"}
      /\ worker' \in WorkerSet
  BY NewCountIsCount DEF NoWorker, WorkerSet
<1>4. CounterIsHistory' /\ CounterStartsAgain'
  BY <1>2, <1>3 DEF CounterIsHistory, CounterStartsAgain, NewCount
<1>5. QED BY <1>2, <1>3, <1>4

LEMMA SuperviseStep == UpkeepInv /\ Supervise => UpkeepInv'
<1> SUFFICES ASSUME UpkeepInv, Supervise PROVE UpkeepInv'
  OBVIOUS
<1>0. TypeOK /\ cfg \in Configs /\ used \in 0..MaxEvents
  BY DEF UpkeepInv, TypeOK, WorkerSet, History
<1>1. /\ worker' = NoWorker \/ worker' = [at |-> "tick", cfg |-> cfg, count |-> NewCount, gen |-> used]
      /\ Forgets(Cooldown) /\ UNCHANGED <<cfg, clock, link, tasks, runs, used>>
  BY DEF Supervise, NewWorker
<1>2. /\ worker' \in WorkerSet
      /\ worker'.at \in {"none", "tick"}
      /\ hist' \in History
      /\ hist'.clears = hist.clears /\ CounterIsHistory' /\ CounterStartsAgain'
  BY <1>0, <1>1, FreshWorker
<1>3. TypeOK'
  BY <1>0, <1>1, <1>2 DEF TypeOK, WorkerSet, History, At
<1>4. OneClaim' /\ ResetAtMostOnce'
  BY <1>1, <1>2 DEF UpkeepInv, OneClaim, ResetAtMostOnce
<1>5. QED BY <1>2, <1>3, <1>4 DEF UpkeepInv

LEMMA TickStep == UpkeepInv /\ Tick => UpkeepInv'
<1> SUFFICES ASSUME UpkeepInv, Tick PROVE UpkeepInv'
  OBVIOUS
<1>0. TypeOK /\ worker.at = "tick" /\ UNCHANGED <<cfg, clock, link, runs, used, hist>>
  BY DEF UpkeepInv, Tick, At
<1>1. CASE Due
  <2> DEFINE n == [day |-> clock.day, at |-> "claim", by |-> worker.gen]
  <2>1. worker' = [worker EXCEPT !.at = "await"] /\ tasks' = tasks \cup {n}
    BY <1>1 DEF Tick, Goto
  <2>2. n \in TaskSet /\ n.at = "claim" /\ n.by = worker.gen
    BY <1>0 DEF TypeOK, WorkerSet, History, TaskSet
  <2> HIDE DEF n
  <2>3. worker'.at = "await" /\ worker'.gen = worker.gen /\ worker'.count = worker.count
        /\ worker' \in WorkerSet
    BY <1>0, <2>1 DEF TypeOK, WorkerSet, History
  <2>4. TypeOK'
    BY <1>0, <2>1, <2>2, <2>3 DEF TypeOK, WorkerSet, History, TaskSet, At
  <2>5. OneClaim' /\ ResetAtMostOnce'
    BY <1>0, <2>1, <2>2 DEF UpkeepInv, OneClaim, ResetAtMostOnce, Past
  <2>6. QED
    BY <1>0, <2>3, <2>4, <2>5 DEF UpkeepInv, CounterIsHistory, CounterStartsAgain
<1>2. CASE ~Due
  <2>1. worker' = [worker EXCEPT !.at = "check"] /\ UNCHANGED tasks
    BY <1>2 DEF Tick, Goto
  <2>2. worker'.at = "check" /\ worker'.count = worker.count
        /\ worker' \in WorkerSet
    BY <1>0, <2>1 DEF TypeOK, WorkerSet, History
  <2>3. TypeOK'
    BY <1>0, <2>1, <2>2 DEF TypeOK, WorkerSet, History, At
  <2>4. QED
    BY <1>0, <2>1, <2>2, <2>3
       DEF UpkeepInv, OneClaim, ResetAtMostOnce, CounterIsHistory, CounterStartsAgain
<1>3. QED BY <1>1, <1>2

\* What a check does to Counter and history.
Checked(dt) ==
  LET count == Older(worker.count, dt)
      acts == Triggers(count, Ready, Healthy)
  IN  /\ worker' = [worker EXCEPT !.at = IF acts THEN "act" ELSE "tick",
                                  !.count = Observed(count, Ready, Healthy)]
      /\ hist' = [hist EXCEPT !.failed = IF Healthy THEN 0 ELSE Longer(@, 1, Threshold),
                              !.absent = IF Ready THEN @ ELSE Longer(@, 1, Grace + 1),
                              !.since = Longer(@, dt, Cooldown)]

\* Its outcome: if the watchdog acts, it is due, and the Counter starts again; if not, Counter
\* and history agree as before.
LEMMA CheckOutcome ==
  ASSUME UpkeepInv, At("check"), NEW dt \in 1..Cooldown, Checked(dt)
  PROVE  /\ worker' \in WorkerSet
         /\ worker'.at \in {"tick", "act"}
         /\ hist' \in History
         /\ hist'.clears = hist.clears
         /\ CounterIsHistory' /\ CounterStartsAgain'
         /\ worker'.at = "act" =>
              /\ hist'.failed = Threshold /\ hist'.since = Cooldown
              /\ link = "absent" => hist'.absent > Grace
<1> USE MaintenanceAssumption, WatchdogAssumption
<1> DEFINE c == Older(worker.count, dt)
           o == Observed(c, Ready, Healthy)
<1>1. /\ worker \in WorkerSet
      /\ hist \in History
      /\ worker.at = "check"
  BY DEF UpkeepInv, TypeOK, WorkerSet, History, At
<1>2. /\ worker.count.failures <= hist.failed /\ worker.count.grace + hist.absent >= Grace
      /\ worker.count.since = hist.since
  BY <1>1 DEF UpkeepInv, CounterIsHistory
<1>3. /\ c \in Count /\ c.failures = worker.count.failures /\ c.grace = worker.count.grace
      /\ c.since = Longer(hist.since, dt, Cooldown)
  <2>1. worker.count \in Count /\ dt \in Nat
    BY <1>1 DEF WorkerSet
  <2>2. QED BY <1>2, <2>1, OlderCount
<1>4. Ready \in BOOLEAN /\ Healthy \in BOOLEAN /\ (Healthy => Ready) /\ (Ready <=> link # "absent")
  BY DEF Ready, Healthy
<1>5. /\ worker' = [worker EXCEPT !.at = IF Triggers(c, Ready, Healthy) THEN "act" ELSE "tick", !.count = o]
      /\ hist' = [hist EXCEPT !.failed = IF Healthy THEN 0 ELSE Longer(hist.failed, 1, Threshold),
                              !.absent = IF Ready THEN hist.absent ELSE Longer(hist.absent, 1, Grace + 1),
                              !.since = Longer(hist.since, dt, Cooldown)]
  BY DEF Checked
<1>6. /\ o \in Count
      /\ Forgiven(c, Ready) => o = [c EXCEPT !.grace = @ - 1] /\ ~Triggers(c, Ready, Healthy)
      /\ ~Forgiven(c, Ready) /\ ~Triggers(c, Ready, Healthy) => o = [c EXCEPT !.failures = Failures(c, Healthy)]
      /\ Triggers(c, Ready, Healthy) =>
           /\ ~Healthy /\ c.since = Cooldown /\ c.failures + 1 >= Threshold
           /\ ~Ready => c.grace = 0
  BY <1>3, <1>4, ObservedCount
<1>7. Triggers(c, Ready, Healthy) => o = [failures |-> 0, grace |-> Grace, since |-> 0]
  BY <1>6 DEF Observed
<1> HIDE DEF o, c
<1>8. /\ hist'.failed = IF Healthy THEN 0 ELSE Longer(hist.failed, 1, Threshold)
      /\ hist'.absent = IF Ready THEN hist.absent ELSE Longer(hist.absent, 1, Grace + 1)
      /\ hist'.since = Longer(hist.since, dt, Cooldown)
      /\ hist'.clears = hist.clears
      /\ hist' \in History
  <2>1. /\ Longer(hist.failed, 1, Threshold) \in 0..Threshold
        /\ Longer(hist.absent, 1, Grace + 1) \in 0..Grace + 1
        /\ Longer(hist.since, dt, Cooldown) \in 0..Cooldown
    BY <1>1 DEF Longer, History
  <2> DEFINE f == IF Healthy THEN 0 ELSE Longer(hist.failed, 1, Threshold)
             a == IF Ready THEN hist.absent ELSE Longer(hist.absent, 1, Grace + 1)
             t == Longer(hist.since, dt, Cooldown)
  <2>2. f \in 0..Threshold /\ a \in 0..Grace + 1 /\ t \in 0..Cooldown
    BY <1>1, <2>1 DEF History
  <2>3. hist' = [hist EXCEPT !.failed = f, !.absent = a, !.since = t]
    BY <1>5
  <2> HIDE DEF f, a, t
  <2>4. hist' \in History /\ hist'.clears = hist.clears /\ hist'.failed = f /\ hist'.absent = a /\ hist'.since = t
    BY <1>1, <2>2, <2>3 DEF History
  <2>5. QED BY <2>4 DEF f, a, t
<1>9. /\ worker'.count = o /\ worker'.at = IF Triggers(c, Ready, Healthy) THEN "act" ELSE "tick"
      /\ worker' \in WorkerSet
  BY <1>1, <1>5, <1>6 DEF WorkerSet
<1>10. c.failures \in Nat /\ c.grace \in Nat /\ hist.failed \in 0..Threshold /\ hist.absent \in 0..Grace + 1
  BY <1>1, <1>3 DEF Count, WorkerSet, History
<1>11. CASE Triggers(c, Ready, Healthy)
  <2>1. hist'.failed = Threshold
    BY <1>2, <1>3, <1>6, <1>8, <1>10, <1>11 DEF Longer
  <2>2. hist'.since = Cooldown
    BY <1>3, <1>6, <1>8, <1>11
  <2>3. link = "absent" => hist'.absent > Grace
    BY <1>2, <1>3, <1>4, <1>6, <1>8, <1>10, <1>11 DEF Longer
  <2>4. QED
    BY <1>7, <1>8, <1>9, <1>11, <2>1, <2>2, <2>3 DEF CounterIsHistory, CounterStartsAgain
<1>12. CASE ~Triggers(c, Ready, Healthy)
  <2>1. o.since = c.since
    BY <1>3, <1>6, <1>12 DEF Count
  <2>2. o.failures <= hist'.failed
    <3>1. CASE Forgiven(c, Ready)
      <4>1. ~Healthy /\ o.failures = c.failures
        BY <1>3, <1>4, <1>6, <3>1 DEF Forgiven, Count
      <4>2. QED BY <1>2, <1>3, <1>8, <1>10, <4>1, <1>1 DEF Longer, Count
    <3>2. CASE ~Forgiven(c, Ready)
      <4>1. o.failures = Failures(c, Healthy)
        BY <1>3, <1>6, <1>12, <3>2 DEF Count
      <4>2. QED BY <1>2, <1>3, <1>8, <1>10, <4>1, <1>1 DEF Longer, Failures, Count
    <3>3. QED BY <3>1, <3>2
  <2>3. o.grace + hist'.absent >= Grace
    <3>1. CASE Forgiven(c, Ready)
      <4>1. ~Ready /\ o.grace = c.grace - 1 /\ c.grace > 0
        BY <1>3, <1>6, <3>1 DEF Forgiven, Count
      <4>2. QED BY <1>2, <1>3, <1>8, <1>10, <4>1 DEF Longer
    <3>2. CASE ~Forgiven(c, Ready)
      <4>1. o.grace = c.grace
        BY <1>3, <1>6, <1>12, <3>2 DEF Count
      <4>2. QED BY <1>2, <1>3, <1>8, <1>10, <4>1 DEF Longer
    <3>3. QED BY <3>1, <3>2
  <2>4. QED
    BY <1>3, <1>8, <1>9, <1>12, <2>1, <2>2, <2>3 DEF CounterIsHistory, CounterStartsAgain
<1>13. QED BY <1>11, <1>12

LEMMA CheckStep == UpkeepInv /\ Check => UpkeepInv'
<1> SUFFICES ASSUME UpkeepInv, Check PROVE UpkeepInv'
  OBVIOUS
<1>1. PICK dt \in 1..Cooldown : Checked(dt)
  BY DEF Check, Checked
<1>2. At("check") /\ UNCHANGED <<cfg, clock, link, tasks, runs, used>>
  BY DEF Check
<1>3. /\ worker' \in WorkerSet
      /\ worker'.at \in {"tick", "act"}
      /\ hist' \in History
      /\ hist'.clears = hist.clears /\ CounterIsHistory' /\ CounterStartsAgain'
  BY <1>1, <1>2, CheckOutcome
<1>4. TypeOK'
  BY <1>2, <1>3 DEF UpkeepInv, TypeOK, WorkerSet, History, At
<1>5. OneClaim' /\ ResetAtMostOnce'
  BY <1>2, <1>3 DEF UpkeepInv, OneClaim, ResetAtMostOnce
<1>6. QED BY <1>3, <1>4, <1>5 DEF UpkeepInv

LEMMA ActStep == UpkeepInv /\ (NoCheck \/ Act) => UpkeepInv'
<1> SUFFICES ASSUME UpkeepInv, NoCheck \/ Act PROVE UpkeepInv'
  OBVIOUS
<1>1. TypeOK /\ worker' = [worker EXCEPT !.at = "tick"] /\ UNCHANGED <<cfg, clock, link, tasks, runs, used>>
  BY DEF UpkeepInv, NoCheck, Act, Goto
<1>2. worker'.at = "tick" /\ worker'.count = worker.count
      /\ worker' \in WorkerSet
  BY <1>1 DEF TypeOK, WorkerSet, History
<1>3. /\ hist' \in History
      /\ hist'.clears = hist.clears /\ CounterIsHistory'
  <2>1. CASE NoCheck
    BY <1>1, <1>2, <2>1 DEF NoCheck, At, UpkeepInv, TypeOK, WorkerSet, History, CounterIsHistory
  <2>2. CASE Act
    <3>1. hist' = [hist EXCEPT !.failed = 0, !.absent = 0, !.since = 0]
      BY <2>2 DEF Act, Forgets
    <3>2. worker.count = [failures |-> 0, grace |-> Grace, since |-> 0]
      BY <2>2 DEF Act, At, UpkeepInv, CounterStartsAgain
    <3>3. /\ hist' \in History
          /\ hist'.clears = hist.clears /\ hist'.failed = 0 /\ hist'.absent = 0 /\ hist'.since = 0
      <4>1. hist \in History
        BY <1>1 DEF TypeOK, History
      <4>2. 0 \in 0..Threshold /\ 0 \in 0..Grace + 1 /\ 0 \in 0..Cooldown
        BY WatchdogAssumption
      <4>3. QED BY <3>1, <4>1, <4>2 DEF History
    <3>4. QED BY <1>2, <3>2, <3>3, WatchdogAssumption DEF CounterIsHistory
  <2>3. QED BY <2>1, <2>2
<1>4. TypeOK' /\ CounterStartsAgain'
  BY <1>1, <1>2, <1>3 DEF TypeOK, WorkerSet, History, At, CounterStartsAgain
<1>5. OneClaim' /\ ResetAtMostOnce'
  BY <1>1, <1>3 DEF UpkeepInv, OneClaim, ResetAtMostOnce
<1>6. QED BY <1>3, <1>4, <1>5 DEF UpkeepInv

-----------------------------------------------------------------------------
(* The rest, and the theorems.                                               *)

LEMMA OthersStep == UpkeepInv /\ (Edit \/ Clock \/ Link \/ Crash) => UpkeepInv'
<1> SUFFICES ASSUME UpkeepInv, Edit \/ Clock \/ Link \/ Crash PROVE UpkeepInv'
  OBVIOUS
<1>0. TypeOK
  BY DEF UpkeepInv
<1>1. CASE Edit
  <2>1. cfg' \in Configs /\ used' \in 0..MaxEvents /\ UNCHANGED <<clock, link, worker, tasks, runs, hist>>
    BY <1>0, <1>1, Counted DEF Edit, TypeOK, WorkerSet, History
  <2>2. QED
    BY <1>0, <2>1
       DEF TypeOK, WorkerSet, History, At, UpkeepInv, OneClaim, ResetAtMostOnce,
           CounterIsHistory, CounterStartsAgain
<1>2. CASE Clock
  <2>1. clock' \in [day : Daily, hour : BOOLEAN] /\ UNCHANGED <<cfg, link, worker, tasks, runs, used, hist>>
    <3>1. clock \in [day : Daily, hour : BOOLEAN] /\ Daily = 1..Days /\ Days \in Nat
      BY <1>0, MaintenanceAssumption DEF TypeOK, Daily
    <3>2. clock.hour /\ clock.day < Days => [day |-> clock.day + 1, hour |-> FALSE] \in [day : Daily, hour : BOOLEAN]
      BY <3>1
    <3>3. [clock EXCEPT !.hour = TRUE] \in [day : Daily, hour : BOOLEAN]
      BY <3>1
    <3>4. QED BY <1>2, <3>2, <3>3 DEF Clock
  <2>2. QED
    BY <1>0, <2>1
       DEF TypeOK, WorkerSet, History, At, UpkeepInv, OneClaim, ResetAtMostOnce,
           CounterIsHistory, CounterStartsAgain
<1>3. CASE Link
  BY <1>0, <1>3
     DEF Link, TypeOK, WorkerSet, History, At, UpkeepInv, OneClaim, ResetAtMostOnce,
         CounterIsHistory, CounterStartsAgain
<1>4. CASE Crash
  <2>1. /\ worker' = NoWorker /\ tasks' = {} /\ Forgets(Cooldown) /\ used' \in 0..MaxEvents
        /\ UNCHANGED <<cfg, clock, link, runs>> /\ cfg \in Configs /\ used \in 0..MaxEvents
    BY <1>0, <1>4, Counted DEF Crash, TypeOK, WorkerSet, History
  <2>2. /\ worker' \in WorkerSet
        /\ worker'.at \in {"none", "tick"}
        /\ hist' \in History
        /\ hist'.clears = hist.clears /\ CounterIsHistory' /\ CounterStartsAgain'
    BY <2>1, FreshWorker
  <2>3. TypeOK'
    BY <1>0, <2>1, <2>2 DEF TypeOK, WorkerSet, History, At
  <2>4. OneClaim' /\ ResetAtMostOnce'
    BY <2>1, <2>2 DEF UpkeepInv, OneClaim, ResetAtMostOnce
  <2>5. QED BY <2>2, <2>3, <2>4 DEF UpkeepInv
<1>5. QED BY <1>1, <1>2, <1>3, <1>4

LEMMA UpkeepStep == UpkeepInv /\ [Next]_vars => UpkeepInv'
<1> SUFFICES ASSUME UpkeepInv, [Next]_vars PROVE UpkeepInv'
  OBVIOUS
<1>1. ASSUME NEW k \in tasks, Reset(k) PROVE UpkeepInv'
  BY <1>1, ClaimStep, ClearStep, EndStep DEF Reset
<1>2. CASE Supervise
  BY <1>2, SuperviseStep
<1>3. CASE Worker
  BY <1>3, TickStep, CheckStep, ActStep DEF Worker
<1>4. CASE Edit \/ Clock \/ Link \/ Crash
  BY <1>4, OthersStep
<1>5. CASE UNCHANGED vars
  BY <1>5
     DEF vars, UpkeepInv, TypeOK, WorkerSet, History, At, OneClaim, ResetAtMostOnce,
         CounterIsHistory, CounterStartsAgain
<1>6. QED BY <1>1, <1>2, <1>3, <1>4, <1>5 DEF Next

LEMMA UpkeepInvariant == Spec => []UpkeepInv
BY UpkeepInit, UpkeepStep, PTL DEF Spec

\* Every variable keeps its type, and a worker that awaits a reset awaits one that is there.
THEOREM TypeCorrect == Spec => []TypeOK
<1>1. UpkeepInv => TypeOK
  BY DEF UpkeepInv
<1>2. QED BY <1>1, UpkeepInvariant, PTL

\* The traffic counter is cleared at most once in a period, and a reset on record as completed
\* was done, over any replacement of workers, crash and database error.
THEOREM ClearedOnce == Spec => []ResetAtMostOnce
<1>1. UpkeepInv => ResetAtMostOnce
  BY DEF UpkeepInv
<1>2. QED BY <1>1, UpkeepInvariant, PTL

\* The watchdog acts only after Threshold unhealthy checks in a row, a whole cool-down after it
\* last acted, and on an interface that is absent only beyond its grace.
THEOREM ActsWhenDue == Spec => ActsOnlyWhenDue
<1>1. UpkeepInv /\ [Next]_vars =>
        [~At("act") /\ worker'.at = "act" =>
           /\ hist'.failed = Threshold /\ hist'.since = Cooldown
           /\ link = "absent" => hist'.absent > Grace]_vars
  <2> SUFFICES ASSUME UpkeepInv, Next, ~At("act"), worker'.at = "act"
               PROVE  /\ hist'.failed = Threshold /\ hist'.since = Cooldown
                      /\ link = "absent" => hist'.absent > Grace
    BY DEF vars
  <2>0. worker \in WorkerSet
    BY DEF UpkeepInv, TypeOK, WorkerSet, History
  <2>1. ~Supervise /\ ~Crash
    BY DEF Supervise, Crash, NewWorker, NoWorker
  <2>2. \A k \in tasks : ~Reset(k)
    BY <2>0 DEF WorkerSet, Reset, Claim, Clear, Record, TaskError, TaskEnds, TaskGoes, Goto, At
  <2>3. ~Tick /\ ~NoCheck /\ ~Act /\ ~Edit /\ ~Clock /\ ~Link
    BY <2>0 DEF WorkerSet, Tick, NoCheck, Act, Edit, Clock, Link, Goto, At
  <2>4. Check
    BY <2>1, <2>2, <2>3 DEF Next, Worker
  <2>5. PICK dt \in 1..Cooldown : Checked(dt)
    BY <2>4 DEF Check, Checked
  <2>6. At("check")
    BY <2>4 DEF Check
  <2>7. QED BY <2>5, <2>6, CheckOutcome
<1>2. QED BY <1>1, UpkeepInvariant, PTL DEF Spec, ActsOnlyWhenDue
=============================================================================
