------------------------------ MODULE Network -------------------------------
(* The mobile connection of one modem: the Manager with its lock and reported state, the       *)
(* operations of clients, of the automatic connection and of the watchdog, the SIM switch with *)
(* its redial, and what they do to the modem, the SIM and netifd.                              *)
(*                                                                                             *)
(* An operation is a task in a slot; it waits for the modem's lock (a fair queue) and then     *)
(* takes one step per call of netifd or of the serial port.  The port runs the programs of all *)
(* tasks in order (module AtPort): a program that has begun goes on when its task is aborted,  *)
(* one that has not is skipped.  The AT driver is modelled, with two SIM slots.                *)
EXTENDS Naturals, Sequences, FiniteSets, SequencesExt

CONSTANTS
  Configs,      (* configurations of the modem, see Config                   *)
  First,        (* the one the daemon starts with                            *)
  Slots,        (* bound: operations at one time                             *)
  ClientOps,    (* operations clients ask for                                *)
  PinEnabled,   (* does the SIM ask for a PIN after power up                 *)
  PinTries,     (* wrong PINs until the SIM blocks                           *)
  Setup,        (* commands between COPS and the one that connects           *)
  Netdev,       (* the data interface that discovery finds for the modem     *)
  MaxEvents,    (* bound: calls, edits, replugs and crashes together         *)
  None

\* auto_connect, monitor.enabled with its one action, the stored PIN; the contexts that its dial
\* opens and its hang up closes (pdp_index, or that of SETAUTODIAL; a hisilicon dial opens 1); the
\* logical interface, whether it has an IPv6 child, and the data device, None to have it found.
Config(c) == /\ {"auto", "watch", "action", "pin", "dials", "hangs", "name", "dual", "device"} \subseteq DOMAIN c
             /\ c.auto \in BOOLEAN /\ c.watch \in BOOLEAN /\ c.action \in {"redial", "switch"}
             /\ c.pin \in {"none", "good", "bad"} /\ c.dual \in BOOLEAN

ASSUME NetworkAssumption ==
  /\ \A c \in Configs : Config(c)
  /\ First \in Configs
  /\ None \notin Configs
  /\ Slots \subseteq Nat \ {0} /\ ClientOps \subseteq {"connect", "disconnect", "redial", "switch"}
  /\ PinEnabled \in BOOLEAN /\ PinTries \in Nat \ {0} /\ Setup \in Nat /\ MaxEvents \in Nat

VARIABLES
  cfg,      (* the modem in AppState.config                                  *)
  mgr,      (* the queue of its lock, head first, and Manager.states; history:
               the disconnect it reports, and if netifd refused its child    *)
  task,     (* the operations                                                *)
  line,     (* programs at the serial port, head first                       *)
  auto,     (* attempted: the configuration last connected automatically     *)
  dog,      (* the maintenance worker                                        *)
  modem,    (* the SIM and the data sessions (external)                      *)
  netif,    (* the interfaces that netifd keeps up (external)                *)
  used      (* bound                                                         *)

vars == <<cfg, mgr, task, line, auto, dog, modem, netif, used>>

Free == [at |-> "free"]
Idle == [queue |-> <<>>, state |-> "none", off |-> None]
Started == {"connect", "disconnect", "redial"}
NoDog == [cfg |-> None, task |-> 0]
SimOn == IF PinEnabled THEN "pin" ELSE "ready"

Init ==
  /\ cfg = First
  /\ mgr = Idle
  /\ task = [t \in Slots |-> Free] /\ line = <<>>
  /\ auto = None /\ dog = NoDog
  /\ modem = [slot |-> 1, sim |-> SimOn, left |-> PinTries, sessions |-> {}]
  /\ netif = {}
  /\ used = 0

Event == used < MaxEvents /\ used' = used + 1

-----------------------------------------------------------------------------
(* Operations.                                                               *)

\* What an operation does first, once it has the lock.
FirstStep(op) ==
  CASE op = "switch" -> "switch" [] op = "disconnect" -> "check" [] OTHER -> "query"

\* A new operation queues up for the lock, with the configuration read before.
Spawn(t, op, by, c) ==
  /\ task[t].at = "free" /\ \A u \in Slots : u < t => task[u].at # "free"
  /\ task' = [task EXCEPT ![t] = [at |-> FirstStep(op), op |-> op, by |-> by, cfg |-> c, slot |-> 0,
                              ok |-> TRUE, kept |-> FALSE]]
  /\ mgr' = [mgr EXCEPT !.queue = Append(@, t)]

Call(t) ==
  /\ Event
  /\ \E op \in ClientOps : Spawn(t, op, "client", cfg)
  /\ UNCHANGED <<cfg, line, auto, dog, modem, netif>>

Holds(t) == mgr.queue # <<>> /\ Head(mgr.queue) = t
AtAnyone(t, p) == task[t].at = p /\ (p = "query" \/ Holds(t))   \* mutant: the slot is read before the lock
At(t, p) == task[t].at = p /\ Holds(t)
Goto(t, p) == task' = [task EXCEPT ![t].at = p]

\* The guard is dropped; a watchdog waiting for this task goes on.
Leaves(t, state, off) ==
  /\ task' = [task EXCEPT ![t] = Free]
  /\ mgr' = [queue |-> RemoveFirst(mgr.queue, t), state |-> state, off |-> off]
  /\ dog' = IF dog.task = t THEN [dog EXCEPT !.task = 0] ELSE dog
End(t) == Leaves(t, mgr.state, mgr.off)

\* The outcome replaces the reported state and the lock is released.
Report(t, ok) ==
  \/ ~ok /\ Leaves(t, "failed", None)
  \/ ok /\ task[t].op = "disconnect" /\ Leaves(t, "disconnected", [cfg |-> task[t].cfg, kept |-> task[t].kept])
  \/ ok /\ task[t].op # "disconnect" /\ Leaves(t, "connecting", None)

Waiting(t) == \E i \in DOMAIN line : line[i].t = t
Program(t, prog, c, slot) ==
  [t |-> t, prog |-> prog, cfg |-> c, slot |-> slot, stage |-> 0, tail |-> 0,
   pinned |-> FALSE, reply |-> "none", pins |-> 0]

\* pool.get and run_named.
Submit(t) ==
  /\ \E p \in {"query", "hang", "dial", "switch"} :
       At(t, p) /\ line' = Append(line, Program(t, p, task[t].cfg, task[t].slot))
  /\ ~Waiting(t)
  /\ UNCHANGED <<cfg, mgr, task, auto, dog, modem, netif, used>>

\* The device cannot be opened, it may be unplugged: before the reported state is set the operation just ends.
SubmitFail(t) ==
  /\ ~Waiting(t)
  /\ \/ At(t, "query") /\ End(t)
     \/ At(t, "switch") /\ End(t)
     \/ (At(t, "hang") \/ At(t, "dial")) /\ Report(t, FALSE)
  /\ UNCHANGED <<cfg, line, auto, modem, netif, used>>

\* The names of the configuration: the logical interface and the data device it is on.
Planned(t) == task[t].cfg.name
DataDevice(c) == IF c.device = None THEN Netdev ELSE c.device

\* Another interface than the planned ones is on the data device.
Foreign(t) == \E i \in netif : i.name # Planned(t) /\ i.device = DataDevice(task[t].cfg)

\* A disconnect goes on without the data device if it is left to discovery and not found.
Unresolved(t) == task[t].op = "disconnect" /\ task[t].cfg.device = None

\* An early return: an invalid plan, no data device, ubus fails, the device belongs to another
\* interface, or is connected already.
Decline(t) ==
  /\ At(t, "check") /\ End(t)
  /\ UNCHANGED <<cfg, line, auto, modem, netif, used>>

Begin(t) ==
  /\ At(t, "check") /\ (~Foreign(t) \/ Unresolved(t))
  /\ Goto(t, IF task[t].op = "connect" THEN "dial" ELSE "down")
  /\ mgr' = [mgr EXCEPT !.state = task[t].op, !.off = None]
  /\ UNCHANGED <<cfg, line, auto, dog, modem, netif, used>>

\* What netifd has when the interface, or its IPv6 child, is down or up.
Without(t, child) == {i \in netif : i.name # Planned(t) \/ i.child # child}
With(t, child) ==
  Without(t, child) \cup {[name |-> Planned(t), child |-> child, device |-> DataDevice(task[t].cfg)]}

\* ubus down of the interface.
Down(t) ==
  /\ At(t, "down")
  /\ \E ok \in BOOLEAN :
       /\ netif' \in {Without(t, FALSE)} \cup (IF ok THEN {} ELSE {netif})
       /\ task' = [task EXCEPT ![t].at = IF task[t].cfg.dual THEN "down6" ELSE "hang", ![t].ok = ok]
  /\ UNCHANGED <<cfg, mgr, line, auto, dog, modem, used>>

\* ubus down of the child, if the configuration has one; its failure is ignored.
DownChild(t) ==
  /\ At(t, "down6")
  /\ \E ok \in BOOLEAN :
       /\ netif' \in {Without(t, TRUE)} \cup (IF ok THEN {} ELSE {netif})
       /\ task' = [task EXCEPT ![t].at = "hang", ![t].kept = ~ok /\ task[t].op = "disconnect"]
  /\ UNCHANGED <<cfg, mgr, line, auto, dog, modem, used>>

\* add_dynamic of the interface, then of its child.
AddsTo(t, child, ok) == netif' \in {With(t, child)} \cup (IF ok THEN {} ELSE {netif})
Add(t) ==
  /\ At(t, "add")
  /\ \E ok \in BOOLEAN :
       /\ AddsTo(t, FALSE, ok)
       /\ task' = [task EXCEPT ![t].at = IF ok /\ task[t].cfg.dual THEN "add6" ELSE "report", ![t].ok = ok]
  /\ UNCHANGED <<cfg, mgr, line, auto, dog, modem, used>>

AddChild(t) ==
  /\ At(t, "add6")
  /\ \E ok \in BOOLEAN :
       /\ AddsTo(t, TRUE, ok)
       /\ task' = [task EXCEPT ![t].at = "report", ![t].ok = ok]
  /\ UNCHANGED <<cfg, mgr, line, auto, dog, modem, used>>

Record(t) ==
  /\ At(t, "report") /\ Report(t, task[t].ok)
  /\ UNCHANGED <<cfg, line, auto, modem, netif, used>>

Operation(t) ==
  \/ Submit(t) \/ SubmitFail(t) \/ Decline(t) \/ Begin(t)
  \/ Down(t) \/ DownChild(t) \/ Add(t) \/ AddChild(t) \/ Record(t)

-----------------------------------------------------------------------------
(* The serial port runs the program at the head of the line.                 *)

Running(prog) == line # <<>> /\ line[1].prog = prog
Job == line[1]

\* What a task does next when its program has succeeded.
Continued(k, prog, slot) ==
  CASE prog = "query" -> [k EXCEPT !.at = "check", !.slot = slot]
    [] prog = "switch" -> [k EXCEPT !.at = "query", !.op = "redial"]
    [] prog = "hang" -> [k EXCEPT !.at = "dial", !.ok = TRUE]
    [] prog = "dial" -> [k EXCEPT !.at = "add", !.slot = 0]

\* A hang up ends well if the interface went down, too; the child does not count.
OutcomeOfHang(t, ok) == ok   \* mutant: neither does the interface
Outcome(t, ok) == ok /\ task[t].ok

\* The program ends with a result for its task, if that still waits for one.
Deliver(ok, slot) ==
  /\ line' = Tail(line)
  /\ LET t == Job.t
         over == ~ok \/ (Job.prog = "hang" /\ task[t].op = "disconnect")
     IN  \/ t = 0 /\ UNCHANGED <<mgr, task, dog>>
         \/ /\ t # 0 /\ over
            /\ IF Job.prog \in {"query", "switch"} THEN End(t) ELSE Report(t, Outcome(t, ok))
         \/ /\ t # 0 /\ ~over
            /\ task' = [task EXCEPT ![t] = Continued(@, Job.prog, slot)]
            /\ UNCHANGED <<mgr, dog>>

\* A timeout or the device ends any program of an operation.
LineFails ==
  /\ line # <<>> /\ Deliver(FALSE, 0)
  /\ UNCHANGED <<cfg, auto, modem, netif, used>>

\* AT+QUIMSLOT?: a refusal leaves the slot unknown, and the first SIM's credentials are used.
RunQuery ==
  /\ Running("query")
  /\ \E slot \in {modem.slot, 0} : Deliver(TRUE, slot)
  /\ UNCHANGED <<cfg, auto, modem, netif, used>>

\* It closes the context of the configuration the operation carries, and no other; the answer
\* may be lost.
RunHang ==
  /\ Running("hang") /\ \E ok \in BOOLEAN : Deliver(ok, 0)
  /\ modem' = [modem EXCEPT !.sessions = {s \in @ : s.cid # Job.cfg.hangs}]
  /\ UNCHANGED <<cfg, auto, netif, used>>

\* AT+QUIMSLOT=n is confirmed by reading the slot back, up to five times; the other SIM starts
\* locked.
RunSwitch ==
  /\ Running("switch") /\ \E confirmed \in BOOLEAN : Deliver(confirmed, 0)
  /\ modem' = [modem EXCEPT !.slot = 3 - @, !.sim = SimOn, !.left = PinTries, !.sessions = {}]
  /\ UNCHANGED <<cfg, auto, netif, used>>

Rest == <<cfg, mgr, task, auto, dog, netif, used>>
Step(j) == line' = <<j>> \o Tail(line)
Answers == {"ok", "error"}

\* Stages of Dial: AT+CPIN? is asked first, and again a second after a PIN was accepted, when
\* the SIM may still be starting.
DialAsk ==
  /\ Running("dial") /\ Job.stage \in {0, 3}
  /\ \E r \in {modem.sim, "error"} \cup (IF Job.stage = 3 THEN {"pin"} ELSE {}) :
       Step([Job EXCEPT !.stage = 1, !.reply = r])
  /\ UNCHANGED <<Rest, modem>>

MaySendPinAgain(j) == j.reply = "pin" /\ j.cfg.pin # "none"   \* mutant: as often as the SIM asks
MaySendPin(j) == j.reply = "pin" /\ j.cfg.pin # "none" /\ ~j.pinned

Refused(j) ==
  /\ modem' = [modem EXCEPT !.left = @ - 1, !.sim = IF modem.left = 1 THEN "puk" ELSE "pin"]
  /\ Step([j EXCEPT !.stage = 2, !.pinned = TRUE, !.pins = @ + 1, !.reply = "error"])

DialPin ==
  /\ Running("dial") /\ Job.stage = 1 /\ MaySendPin(Job)
  /\ IF Job.cfg.pin = "good" /\ modem.sim = "pin"
     THEN /\ modem' = [modem EXCEPT !.sim = "ready", !.left = PinTries]
          /\ Step([Job EXCEPT !.stage = 2, !.pinned = TRUE, !.pins = @ + 1, !.reply = "ok"])
     ELSE Refused(Job)
  /\ UNCHANGED Rest

\* The SIM is not ready, refuses the PIN, or the modem a command of the configuration.
DialStops ==
  /\ Running("dial")
  /\ \/ Job.stage = 1 /\ ~MaySendPin(Job) /\ Job.reply # "ready"
     \/ Job.stage = 2 /\ Job.reply # "ok"
     \/ Job.stage >= 4 /\ Job.reply # "ok"
  /\ Deliver(FALSE, 0)
  /\ UNCHANGED <<cfg, auto, modem, netif, used>>

DialPinTaken ==
  /\ Running("dial") /\ Job.stage = 2 /\ Job.reply = "ok"
  /\ Step([Job EXCEPT !.stage = 3])
  /\ UNCHANGED <<Rest, modem>>

\* AT+COPS, then the Setup commands and the one that connects.
DialCops ==
  /\ Running("dial") /\ Job.stage = 1 /\ Job.reply = "ready"
  /\ \E r \in Answers : Step([Job EXCEPT !.stage = 4, !.reply = r])
  /\ UNCHANGED <<Rest, modem>>

\* The SIM whose credentials are used: the second one's only if the slot is known to be 2.
credentials(slot) == IF slot = 2 THEN 2 ELSE 1

LeftTwice == IF Job.stage = 4 THEN Setup + 2 ELSE Job.tail   \* mutant: the connecting command is sent twice
Left == IF Job.stage = 4 THEN Setup + 1 ELSE Job.tail
Opened(cid) ==
  {s \in modem.sessions : s.cid # cid} \cup
    {[cid |-> cid, creds |-> credentials(Job.slot), known |-> Job.slot # 0, on |-> modem.slot]}
DialCommand ==
  /\ Running("dial") /\ Job.stage \in {4, 6} /\ Job.reply = "ok" /\ Left > 0
  /\ \E r \in Answers :
       /\ Step([Job EXCEPT !.stage = 6, !.tail = Left - 1, !.reply = r])
       /\ modem' = IF r = "ok" /\ Left = 1
                   THEN [modem EXCEPT !.sessions = Opened(Job.cfg.dials)] ELSE modem
  /\ UNCHANGED Rest

DialEnd ==
  /\ Running("dial") /\ Job.stage = 6 /\ Job.reply = "ok" /\ Job.tail = 0
  /\ Deliver(TRUE, 0)
  /\ UNCHANGED <<cfg, auto, modem, netif, used>>

Dial == DialAsk \/ DialPin \/ DialStops \/ DialPinTaken \/ DialCops \/ DialCommand \/ DialEnd

-----------------------------------------------------------------------------
(* The automatic connection, once the start-up is complete (module Startup).   *)

Due == cfg.auto /\ auto # cfg

AutoPass ==
  /\ \/ /\ Due /\ auto' = cfg
        /\ \E t \in Slots : Spawn(t, "connect", "auto", cfg)
     \/ /\ ~Due /\ auto # None /\ ~cfg.auto /\ auto' = None
        /\ UNCHANGED <<mgr, task>>
  /\ UNCHANGED <<cfg, line, dog, modem, netif, used>>

-----------------------------------------------------------------------------
(* The maintenance worker and its supervisor.                                *)

\* The worker is aborted inside its own redial: the guard is dropped, a program that has
\* begun goes on for nobody, one that has not is skipped.  A SIM switch is a task of its own.
Inline == dog.task # 0 /\ task[dog.task].by = "dog"
Orphaned(jobs, t) ==
  IF jobs # <<>> /\ jobs[1].t = t /\ jobs[1].stage > 0
  THEN <<[jobs[1] EXCEPT !.t = 0]>> \o Tail(jobs)
  ELSE RemoveFirstMatch(jobs, LAMBDA j : j.t = t)

\* Mutant: the place in the lock's queue outlives the aborted task.
CutKeepsGuard ==
  IF Inline
  THEN /\ task' = [task EXCEPT ![dog.task] = Free]
       /\ line' = Orphaned(line, dog.task)
       /\ UNCHANGED mgr
  ELSE UNCHANGED <<mgr, task, line>>

Cut ==
  IF Inline
  THEN /\ mgr' = [mgr EXCEPT !.queue = RemoveFirst(@, dog.task)]
       /\ task' = [task EXCEPT ![dog.task] = Free]
       /\ line' = Orphaned(line, dog.task)
  ELSE UNCHANGED <<mgr, task, line>>

\* One pass every three seconds: a worker per configuration.
Supervise ==
  /\ \/ cfg.watch /\ dog.cfg # cfg /\ dog' = [cfg |-> cfg, task |-> 0]
     \/ ~cfg.watch /\ dog.cfg # None /\ dog' = NoDog
  /\ Cut
  /\ UNCHANGED <<cfg, auto, modem, netif, used>>

\* The watchdog acts (when it does is module Maintenance's): redial runs in the worker, with its
\* configuration; monitor_switch in a task of its own.
Act(t) ==
  /\ dog.cfg # None /\ dog.task = 0 /\ dog' = [dog EXCEPT !.task = t]
  /\ IF dog.cfg.action = "redial" THEN Spawn(t, "redial", "dog", dog.cfg)
     ELSE Spawn(t, "switch", "task", cfg)
  /\ UNCHANGED <<cfg, line, auto, modem, netif, used>>

-----------------------------------------------------------------------------
(* The configuration, the plug and the daemon.                               *)

Edit ==
  /\ Event
  /\ \E c \in Configs \ {cfg} : cfg' = c
  /\ UNCHANGED <<mgr, task, line, auto, dog, modem, netif>>

\* The modem is unplugged and plugged in again, and netifd takes up again what it had up.  The
\* port has failed what was on its line; a pass of the automatic connection may have noticed.
Replug ==
  /\ line = <<>> /\ Event
  /\ modem' = [modem EXCEPT !.sessions = {}, !.sim = IF @ = "puk" THEN "puk" ELSE SimOn]
  /\ auto' \in {auto, None}
  /\ UNCHANGED <<cfg, mgr, task, line, dog, netif>>

\* The daemon dies and procd starts it again; the modem and netifd keep what they have.
Crash ==
  /\ Event
  /\ mgr' = Idle /\ task' = [t \in Slots |-> Free] /\ line' = <<>>
  /\ auto' = None /\ dog' = NoDog
  /\ UNCHANGED <<cfg, modem, netif>>

Port == LineFails \/ RunQuery \/ RunHang \/ RunSwitch \/ Dial

Next ==
  \/ \E t \in Slots : Call(t) \/ Operation(t) \/ Act(t)
  \/ Port \/ AutoPass \/ Supervise
  \/ Edit \/ Replug \/ Crash

Spec == Init /\ [][Next]_vars

\* The runtime polls every task, and the worker of the port serves its line.
FairSpec ==
  /\ Spec /\ WF_vars(Port) /\ WF_vars(Supervise)
  /\ \A t \in Slots : WF_vars(Operation(t))

-----------------------------------------------------------------------------
(* Properties.                                                               *)

Places == {"query", "switch", "check", "down", "down6", "hang", "dial", "add", "add6", "report"}
Task == [at : Places, op : {"connect", "disconnect", "redial", "switch"},
         by : {"client", "auto", "dog", "task"}, cfg : Configs, slot : 0..2,
         ok : BOOLEAN, kept : BOOLEAN]
JobSet == [t : Slots \cup {0}, prog : {"query", "hang", "dial", "switch"}, cfg : Configs,
           slot : 0..2, stage : 0..6,
           tail : 0..Setup, pinned : BOOLEAN, pins : 0..2, reply : {"none", "ready", "pin", "puk"} \cup Answers]

TypeOK ==
  /\ cfg \in Configs
  /\ mgr \in [queue : Seq(Slots), state : Started \cup {"none", "connecting", "disconnected", "failed"},
              off : [cfg : Configs, kept : BOOLEAN] \cup {None}]
  /\ task \in [Slots -> Task \cup {Free}]
  /\ line \in Seq(JobSet)
  /\ auto \in Configs \cup {None}
  /\ dog \in [cfg : Configs \cup {None}, task : Slots \cup {0}]
  /\ modem \in [slot : 1..2, sim : {"ready", "pin", "puk"}, left : 0..PinTries,
                sessions : SUBSET [cid : {c.dials : c \in Configs}, creds : 1..2, known : BOOLEAN, on : 1..2]]
  /\ netif \subseteq [name : {c.name : c \in Configs}, child : BOOLEAN, device : {DataDevice(c) : c \in Configs}]
  /\ used \in 0..MaxEvents

\* While the modem is reported as disconnected, what that disconnect was to turn off is off: the
\* context and the interface of the configuration it carried, and the child if that has one,
\* unless netifd refused it; whatever was edited, queued, aborted or switched before or since.
DisconnectedIsOff ==
  mgr.state = "disconnected" =>
    /\ \A s \in modem.sessions : s.cid # mgr.off.cfg.hangs
    /\ \A i \in netif : i.name = mgr.off.cfg.name => i.child /\ (mgr.off.cfg.dual => mgr.off.kept)

\* When the modem has told its slot, the credentials of one SIM never connect the other one: a
\* switch cannot come between the reading of the slot and the dial, not even of a task that
\* was aborted.
CredentialsMatchSim ==
  \A s \in modem.sessions : s.known => s.creds = s.on

\* A dial sends the stored PIN once at most, however often the SIM asks for it.
PinOncePerDial == \A i \in DOMAIN line : line[i].pins <= 1

\* Every operation gets the modem's lock, or is gone.
LockIsGranted == \A t \in Slots : task[t].at # "free" ~> Holds(t) \/ task[t].at = "free"
=============================================================================
