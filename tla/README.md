# TLA+ verification of qmodemd

`qmodemd` (`src/crates/qmodemd`) is the daemon that manages cellular modems on an
OpenWrt router: it owns their serial ports, sends AT commands, dials, sends and
forwards SMS, watches the connection and serves an HTTP API. It is one process of
tokio tasks over a multi-threaded runtime; the release profile sets
`panic = "abort"` (`src/Cargo.toml:15`), so a panic in any task ends them all.
State that outlives the process is one SQLite file and one TOML file.

This directory holds a formal model of the daemon's own logic, the configurations
TLC checks it with, and proofs for TLAPS. `PROJECT.json` is the index: components,
runs, the source lines of every definition, mutants, findings, hazards, theorems.

## Inventory

Paths are relative to `src/crates/qmodemd/src/`.

| Component | State it keeps | Operations | Talks to | What is hard, what makes it correct |
|---|---|---|---|---|
| Serial port (`at/mod.rs`, `at/queue.rs`) | Monitor behind a mutex (accepting, waiting list, current job, phase, counters), a job channel of 32, the worker's `synchronized`/`pending_flags`/`late_quiet` | `run_named`, the worker's select loop, `exchange`, `wait_idle`, `recover`, `close` | every component that sends AT commands; the modem | four structures describe one queue; a late reply must not reach the next caller; close must not drop a job; everybody is answered |
| Line protocol (`at/protocol.rs`) | bytes of an unfinished line | end flags, decoder with limits | the worker | overflow, a prompt that ends a step but not a recovery |
| Port pool (`at/mod.rs` PortPool) | open port per device | `get`, `close` | serial port, all users | an async mutex held over awaits, cancelled close, reopening |
| SMS history and sending (`sms/mod.rs`, `sms/database.rs`, `http/sms_api.rs`, `main.rs`) | table `messages` | send, raw send, mark, delete, start-up repair | port, SQLite | idempotent `request_id`, crash between transmission and outcome, ids reused by SQLite |
| SMS import (`sms/database.rs`, `sms/legacy.rs`) | `messages`, `sms_segments`, `legacy_imports` | import a part, sync, legacy import | the URC and poll workers | reassembly out of order, duplicates, reused references |
| SMS forwarding (`sms/forward.rs`, worker in `http.rs`) | `sms_deliveries`, `sms_forward_start` | enqueue, claim, complete, retry | configuration, providers | leases, attempts over crashes, cancellation against a stale snapshot |
| Network (`network.rs`, workers in `http.rs`) | session per modem, lock, switch in progress | connect, disconnect, redial, SIM switch, dial programs | port, netifd, configuration | an operation aborted half-way while its program runs on, the slot read long before the dial, a disconnect with another configuration than the connect's, PIN attempts |
| Watchdog (`monitor.rs`) | failure, grace and cool-down counter | check, act | network, port | hysteresis, actions too early, a watchdog that falls silent |
| Modem lifecycle (`lifecycle.rs`) | start-up status, readiness | initialise, hard reboot, shutdown | port, GPIO | replugged devices, stale readiness |
| Schedule (`schedule.rs`) | table `maintenance_runs` | claim, finish | port | once per period over restarts and replaced workers |
| Status cache (`status.rs`) | cached answer per modem, 3 s | get, invalidate | port | an answer from before a change |
| Configuration (`config.rs`, handlers in `http.rs`) | the TOML file and the live copy | persist, delete, discovery | all, the CLI in another process | one save among several writers, a client that leaves half-way, memory against file |
| Vendor programs (`vendor/*.rs`) | none (programs over replies) | modes, bands, cells, usage, SIM switch, transactions | port | rollback of a half-done transaction |
| PDU codec, listener, authentication, web assets, logging, discovery, front end | little or none | parsing and I/O | | no protocol of their own; not modelled |

## Modules

| Module | What it is |
|---|---|
| `QueueMonitor` | the Monitor's `Data` as a record and its operations (`at/queue.rs`), without variables |
| `AtPort` | one port: callers, Monitor, channel, worker, line, modem, close |
| `TxnQueue` | what a port promises: a serial executor of accepted transactions |
| `AtPortProofs` | TLAPS proofs about `AtPort` |
| `MCAtPort` | the module its configurations instantiate |
| `SmsSend` | send calls, the history table, deletion, crashes and the repair at start-up |
| `SmsForward` | the forwarding outbox, its worker, the handlers that reconfigure it, delete, retry, crashes |
| `SmsSendProofs`, `SmsForwardProofs` | TLAPS proofs about the two |
| `SmsImport` | received parts: the SIM's memory, the worker, syncs, filing, deletion, legacy documents |
| `Network` | one modem's connection: the Manager's lock, the operations and their programs, automatic connection, watchdog actions, SIM switch |
| `Startup` | the start-up worker and the automatic connection that waits for it |
| `Watchdog` | the Counter of `monitor.rs`, without variables |
| `Maintenance` | supervisor, maintenance worker, reset tasks, `maintenance_runs`; extends `Watchdog` |
| `ConfigStore` | the configuration file, its copy in memory, all their writers |
| `SmsImportProofs`, `NetworkProofs`, `StartupProofs`, `MaintenanceProofs`, `ConfigStoreProofs` | TLAPS proofs about the five above |
| `MC*` | per module, what its configurations instantiate |

The models meet in what they take from each other, each taking of the other what it needs:

* `AtPort` promises a serial executor (`TxnQueue`). `SmsSend` and `SmsImport` use it as one
  step that succeeds or fails, `Network` as a queue of programs, because there
  what happens between two programs, and after an abort, matters.
* `SmsForward` uses the rows of the history, whose ids SQLite gives out in the same way
  in `SmsSend` (`NextRowid`); `SmsImport` needs only the order of ids.
* `Startup` says when the automatic connection may begin, `Network` what a connection is;
  `Maintenance` says when the watchdog acts, `Network` what its actions do.
* `ConfigStore` is what `persist_modem` does to the configuration; `SmsForward` has its own
  `persist_modem`, with the outbox inside it and without the other writers.

### AtPort

Atomicity. A section under the Monitor's mutex is one step and so is every stretch
of the worker between two awaits, or between an await and a mutex section: the
multi-threaded runtime runs callers, close and worker in parallel, so `recv` and
`begin`, or `finish` and `phase("recovering")`, are separate steps.
`Monitor::submit` holds the mutex over `try_send`, so the append to the channel and
to the waiting list is one step (`Accept`).

| State | Code |
|---|---|
| `mon` | `queue::Data` (`recent`, labels and events left out) |
| `chan` | the `mpsc` channel of jobs; the only sender is `submit` |
| `reply` | the oneshot of each job: `detached` when the caller was dropped, `gone` when nobody was there to hear |
| `pc`, `job`, `txn`, `sync` | the worker's position and its locals |
| `wire`, `decoder` | what the modem has sent: not yet read, and complete lines read and not consumed |
| `owed`, `sentBy`, `modem` | the modem outside the daemon, with the history of who wrote which command |
| `closer` | one close request at a time (the pool's lock is held over it), and whether the task was aborted |

The worker's `pc` values follow the code: `select` (304-409), `skip`/`begin`
(313-327), `refuse`/`refused` (317-322), `next` (328-353), `delay` (`wait_idle`),
`write`/`reply` (`exchange`), `fail`/`failed` (371-376), `recover`, `settle`
(376-379), `done`, `program_error`, `closing` and `dead`. A program is arbitrary: at each
`next` it may finish, fail, wait or send a command, except that the payload of an
SMS follows its prompt, as `Submit` does. Time is abstract: a deadline may pass
whenever the code could see that it passed, and a timed read returns data if there
is any. The modem answers each command at most once, possibly never, possibly after
the deadline; a prompt command is answered by a prompt or an error; ESC or
the payload ends a shown prompt. Lines keep their order.

Bounds: `MaxJobs` jobs in the life of the port; `Capacity` slots (32 in the code; 1
and 2 here: the interesting cases are empty, full, and one slot just freed);
`ActionLimit` actions of a program (128 in the code; 2 lets a prompt be followed by
its payload, and lets a program meet the limit); `MaxChatter` unsolicited lines;
`Floods` says if input may exceed the decoder's limits. Two jobs are enough for a
reply of one to reach the other, three and a channel of two for order and for a full channel
behind a job in hand.

Runs:

| Run | Question |
|---|---|
| `line` | is a caller ever given another's reply, is a command ever written while an earlier one is unanswered, does a close drop a job, is every accepted job answered |
| `queue` | do list, channel, counters and current job agree at every step; does the port implement `TxnQueue` |
| `recovery` | a comment of the repository that the code does not keep (see Findings) |

`CHECK_DEADLOCK FALSE` in these: a port whose modem is unplugged and whose worker
has ended has nothing left to do.

Fairness (`FairSpec`): weak fairness of the worker, because the runtime polls a task
that is ready and every wait of the worker has a deadline or ends with
the device; of the steps of a close that is not dropped. Nothing is assumed of
callers, operator or modem: the modem may stay silent for ever.

### Proofs

`AtPortProofs` proves for every number of jobs, capacity, action limit and modem:
`TypeCorrect`, `WaitingListIsTheChannel`, `JobsAccounted`, `AcceptingPortHasWorker`,
`ClosedPortIsEmpty`, `CloseDropsNothing`. The only assumption is `PortAssumption`
(the constants are naturals, capacity and action limit positive).

The inductive invariant is `PortInv == SchedInv /\ LineTypeOK`. None of the
properties is inductive alone: that the list is the channel needs to know that a job
in hand is at the head of the list when the worker begins it, which needs that ids grow along
the list; that close drops nothing needs that a port which stopped accepting has
neither waiting nor current job, which needs `InHand` to exclude a job received and
not begun; that the counters add up needs that `finish` finds the current job.
`SchedInv` is the conjunction of these facts. The proof has a lemma per operation of
the Monitor (`EnqueuedData`, `BegunData`, ...), which says what it does to each field,
so that steps of the worker never open the record; then a lemma per group of actions
for the scheduling half and for the line half, joined in `PortStep`.

Whose reply it is. `RepliesAreOwn` and `WritesWhenQuiet` rest on a second invariant,
`ReplyInv == Debt /\ Synchronized /\ Exchanged /\ NoForeignReply`, over the types of the first:

* `Debt`: what is owed, or sent and not consumed, is of the last command written (a shown prompt
  excepted), and it is one final line at most. So a worker that has heard a final line has nothing to fear
  from its own command; only one that gave up has.
* `Synchronized`: a worker outside a transaction that takes its port as synchronized has nothing left to hear. That
  needs the paths of `recover`: the `terminal` it starts with, `late_quiet`, and
  `pending_flags`, which keeps the port quarantined as long as a final line may come.
* `Exchanged`: between two commands of one transaction nothing is owed but the payload of a prompt
  that was shown, and within `exchange` the reader meets one answer at most.

A prompt splits the answer of a command in two, which is why `Debt` alone is not enough: `AfterPrompt` is
the one place where a command is written with something still owed, and it must be the payload.

The refinement. `PortImplementsQueue` proves `Spec => Implements`: accepting or refusing a job is
`TxnQueue`'s `Accept` or `Refuse`; `begin` takes the head (`Start`, or `Skip` when its caller has left); `write` is a `Command`;
delivering the result is `Resolve`, a close of an idle port `Close`, the end of the device `Lose`; and every other step leaves the abstract state alone. The abstract queue is the waiting list, the
abstract active job is the worker's (none while it is between `recv` and `begin`), the abstract result is what
the caller's entry says (`Verdict`). Besides `PortInv` it needs `Issued`: a job has an entry
from the moment its id is handed out and not before, and a failed transaction has a reason,
without which delivering an error could take a result back.

`ReplyInv` and `Issued` were checked by TLC on small instances (two jobs, capacity two, three actions, two
unsolicited lines: 3.2 and 1.3 million states) before they were proved. Only model-checked: the
liveness property `EveryJobAnswered`.

### SmsSend

A send call is an owned task: it goes on when its HTTP client leaves, so only a crash
or an error ends it early. A step is one SQLite transaction, one autocommitted
statement, or one part accepted by the modem.

| State | Code |
|---|---|
| `rows` | table `messages`, sent rows: request, content, `delivery_status` |
| `call` | position in `send_parts`: `begin` (`begin_payload_send`), `attempt` (the port's transaction), `finish` (`finish_send`), `fetch` (the read-back) |
| `accepted` | history: parts the modem took |
| `del` | a delete call between its check and its DELETE |
| `daemon`, `erased` | up or not, crashes; history of deleted ids and requests |

`BeginFresh` and `BeginKnown` are the two ways through `begin_payload_send`;
`Attempted` allows each outcome the code derives from what it saw (all references:
submitted; a rejection: failed, with fewer parts than asked; a port error: unknown, whatever
the modem took). `Panic` is the failed `expect` of the read-back and takes the process
down like `Crash`. `Restart` is the UPDATE of `serve()`.

| Run | Question |
|---|---|
| `history` | is a request handed to the modem twice, is a call answered by another's record, does a row stay "sending" with nobody at work or for ever, is a resolved status overwritten, does the status say what happened |
| `readback` | an assertion of the code that a delete call refutes (see Findings) |

Bounds: two calls, which may repeat a request, repeat it with another body, or be two;
one delete; one crash; two parts, so that a message can be accepted in part; two ids, so that one
is used again. A database error may hit any statement; after one the row stays "sending" until the
next restart: `SendingIsOwned` and `OutcomeRecorded` name that case.

Fairness: the runtime polls the tasks, a port answers every job it
accepted (`EveryJobAnswered` of `AtPort`), and procd respawns the daemon
(`src/packaging/openwrt/qmodem-rust/files/qmodem-rust.init:10`).

`SmsSendProofs` proves the type invariant and all safety properties of `history`, with the
database failing or not and any number of calls, deletes and crashes, from
`SendAssumption`. The inductive invariant `SendInv` adds to them: a request has one
row at most and a tried request has one (`Keys`, the unique index); an unfinished call
owns the row it inserted, which says "sending" (`Owners`); nothing is at work while
the daemon is down. Ids and requests that were deleted are exempt in every part:
SQLite gives them out again, and then the statements are false (see Findings).

### SmsForward

One modem, its destinations in the order of the configuration. A step is one
transaction, one write of the configuration file, one request to a destination, or
the passing of `available_at` of a job (`Ripen`: time is abstract).

| State | Code |
|---|---|
| `table` | received rows of `messages`: complete (`ready`) or missing parts |
| `jobs` | `sms_deliveries`; `due` is `available_at <= now`, `target` the fingerprint the job was made under (history) |
| `start` | `sms_forward_start`: fingerprint, and `minimum_id` as the set `upto` of ids it covers; `backlog` is the messages of that moment (history) |
| `live`, `disk` | the configuration in memory and in the file |
| `worker` | position in `start_forwarding`, the snapshot `cfg`, the claim |
| `admin` | calls of `configure`, `save_modem`, `delete_modem` and their positions in `persist_modem` |
| `daemon`, `hist` | up or not; posts since the last retry, what destinations accepted, messages that arrived, ids deleted |

`Enqueue` is one operator because the worker, two handlers and the start-up call the
same function, each with a configuration of its own age: the worker with its
snapshot, `configure` with what the client sent, `persist_modem` with what the file
says, `serve()` with the file and without masking a disabled modem. The claim
of the code sweeps and claims sink by sink: `Swept(last)` is the table after the
sinks up to `last`. Which due job of a destination is claimed is left open (the code
takes the smallest id). `Leave` is an HTTP client leaving: the handler ends at an
await and the lock is free, but a call already on a blocking thread ends later,
unlocked (`LateWrite`, `LateEnqueue`). `Post` may be accepted with its answer lost.
A disabled destination stays listed; removing the last one from the list is not modelled,
nor are sent rows and legacy imports, which are never forwarded.

| Run | Question |
|---|---|
| `outbox` | is a delivery recorded that was none, does every job end |
| `reconfigure` | with two handlers, the worker and a restart enqueueing from different configurations: do posts exceed `max_attempts`, can anyone take the job the worker posts, can a job outlive its destination or reach back before its activation, does a round miss a message |

Bounds: in `outbox` two destinations, where the order of sinks matters, and two messages over
one id, so that an id is used twice; two attempts, so that a claim can be lost before the
last. In `reconfigure` one destination and one message, which comes before or after each activation,
two handlers, the fewest that wait for each other's lock, two targets, a disabled
destination, a disabled and a removed modem, one retry, one crash, and errors of database and file.
No run combines two messages with two handlers: the theorems do.

Fairness in `outbox`: the worker's task is polled (a delivery has a timeout of 30 s, so
`Post` ends), time passes, procd respawns. With database errors or administrators there
is no promise that jobs settle: a destination may stay disabled.

`SmsForwardProofs` proves the type invariant and all safety and action properties of the
two runs for any number of messages, ids, destinations, configurations,
handlers, retries and crashes, from `ForwardAssumption` and `NoneAssumption`. The
inductive invariant is `ForwardInv == TypeOK /\ RowsInv /\ WorkerInv`.

* `AttemptsBounded` needs that posts of a message are at most the attempts of its job
  (`PostsCounted`), strictly fewer while the worker is about to post (`WorkerInv`): the
  claim counts before `deliver`.
* `ClaimIsExclusive` needs the token in the table to carry the attempt it was made for (`TokenFits`),
  and a message to be stored under one id in its life (`StoredOnce`).
* `NewMessagesQueued` needs `Boundary`: the ids up to `minimum_id` that were never deleted
  are exactly those of the backlog. That needs the ids in use to have gaps only where
  rows were deleted (`Dense`). A reused id is this invariant's exception (see Findings).

There is one lemma per operation on a job, one on what `Enqueue` and the sweep do to a
job, then per group of actions a lemma for the types, one for the rows and one for the
worker's claim (`Bystander`: what others may do to it), joined in `ForwardStep`.
`DoneIsFinal` is proved (`DoneStays`) and no longer run. Only model-checked: `JobsSettle`.

### SmsImport

One modem, one memory of the SIM. A PDU is a part of a text, known to the import by what
its header says (`decode`). A step is one program at the port (`Read`: the whole list), one
transaction (`Import`: one part), or one turn of the worker.

| State | Code |
|---|---|
| `sim` | the memory, slot by slot (external) |
| `messages` | `messages` and `sms_segments`: per message its parts and whether it is received, in the order of ids |
| `legacy` | `legacy_imports` |
| `lists` | the list that each running `sync` has still to file: the worker's, a client's, and one of an aborted worker, which its `spawn_blocking` goes on filing |
| `worker` | its mode, its position, and its receiver of events: `none`, `quiet`, `pending`, `closed` |
| `cfg` | `sms.mode` |
| `hist` | was a notification lost since the worker last listed (`missed`); PDUs that a client deleted from the history |

`Filed` is the transaction: a known PDU changes nothing, another joins the newest open group
of the same sender, reference and number of parts within a day that lacks its number, or opens one.
`Arrive` may take a new notification away: a `+CMTI` that a recovering port reads is
published with the correlation "recovery", which the worker does not look at
(`http.rs:1270`). A gap in the broadcast (`Lagged`) wakes the worker like a notification.

Run `import`: is a PDU filed twice, is a message received without all its parts, does
what stays on the SIM get into the history. Bounds: three texts of two
parts under one reference, two of them within the window; two slots; three arrivals, which is a
text and a part of another; two events (edits of the mode, calls, refused transactions,
closed ports, crashes); one orphaned import at a time. Fairness: supervisor, worker and the
blocking tasks are run. Errors are events, so that they are finite: a database that always
refuses files nothing. `ArrivalsImported` does not ask for a PDU whose notification was lost, nor for
one deleted by a client.

`SmsImportProofs` proves the type invariant, with its uniqueness of PDUs, and `HistoryIsSound` for
any texts, window, SIM memory and legacy documents, from `ImportAssumption`. It
says nothing of texts but that a part has a number up to the total of its header, and nothing of documents but
that each is finite (it was read into memory). The invariant is `ImportInv`, whose core is
`History(messages, legacy)`: each message is `Whole` (parts of different numbers, of texts near each other; marked received exactly
when all numbers are there; an old one complete and of an imported document) and two are `Apart` (no PDU
or old record in both). That an old record is of an imported
document is what keeps a document from being taken twice; that a part is near its
message's text and its number new is what the search for an open group establishes before it joins. The lemmas go by the
ways to change the history: a part joins, a message is appended, removed, or a document is added record by
record. A listing is a function from the slots of the SIM to PDUs, filed in order of slot (`Left`), so that
what is left of it is a restriction. Only model-checked: `ArrivalsImported`.

### Network

One modem with the AT driver and two SIM slots. An operation is a task in a slot; it waits in
the fair queue of the modem's lock and takes one step per call of netifd or of the port.

| State | Code |
|---|---|
| `mgr` | the queue of the modem's async mutex, head first, and `Manager.states`; history, read by `DisconnectedIsOff` only: what the reported disconnect carried (`off`) |
| `task` | operations: where, which, who asked, the configuration they carry, the slot they read, whether the last call of netifd for the interface worked; history: whether the one for the child was refused (`kept`) |
| `line` | programs at the port in order, each with its locals; `Dial` command by command (`stage`) |
| `auto`, `dog` | `attempted` of the automatic connection; the maintenance worker's configuration and the operation it awaits |
| `modem`, `netif` | SIM, PIN tries, a data session per context; the interfaces that netifd keeps up, each with its name, whether it is the IPv6 child `{name}v6`, and its data device (external) |

The configuration of an operation is the one at the time of the call; the redial of the
watchdog uses its worker's. `query` is `AT+QUIMSLOT?` under the lock; a refusal leaves the slot unknown,
and then the first SIM's credentials are used. `Cut` is the abort of the maintenance
worker by `Supervise`: its redial loses its place at the lock at once, its program goes on if it has
begun (`Orphaned`, a program for nobody) and is skipped if not. The SIM switch of the watchdog is a
task of its own and survives. A switch takes effect whether or not the read-back confirms it;
only a confirmed one redials. It takes effect at once: one that is accepted, not seen by the five
read-backs, and acts after a later slot query is not covered (the switch would hold no lock any
more). `DialAsk` after an accepted PIN may still hear that the SIM wants one.

What a disconnect does follows the configuration it carries, whatever the connect carried. `RunHang` closes
the context of that configuration and no other; a dial opens its own (`Opened`: `pdp_index`, the one
of SETAUTODIAL, or 1 on a hisilicon platform, so `dials` and `hangs` may differ). `Down` is for its
interface, `DownChild` only if it has a child, and its failure is ignored. `Foreign` compares data
devices as the code does, and not at all for a disconnect whose device discovery does not find
(`Unresolved`). A refused call of netifd may have worked. No interface has the name of another one's
child. `Replug` ends the sessions; netifd takes up again what it had up.

Run `network`: is what the reported disconnect was to turn off really off, is a SIM ever connected with the
credentials of the other, is a PIN sent twice in a dial, does everybody get the lock. Bounds:
two operations at a time, so that one waits while another works, with
programs of aborted ones besides; two events (calls, edits, replugs, crashes), beside
any number of automatic connections and watchdog actions; no set-up command between COPS and the
one that connects (`Setup = 0`); one PIN try; three configurations (base; another interface name,
its data device left to discovery, watchdog that switches, wrong PIN; all off, another context, no IPv6 child). Fairness: the port serves its line (a
program may always fail, so a modem that never answers is covered by `LineFails`), the supervisor
and the operations are polled.

`DisconnectedIsOff` says that while a disconnect is reported, the context and the interface of the
configuration it carried are off, and its child if it has one and netifd did not refuse: no
redial aborted before, no dial it left at the port, and no operation or edit since has brought them back,
and a `ubus down` that failed is not reported as success. It does not say that the modem has no
connection at all: after an edit that is false in the code (Findings).

`NetworkProofs` proves the type invariant, `PinOncePerDial`, `CredentialsMatchSim` and `DisconnectedIsOff` for any
number of operations, programs and set-up commands, any PIN tries and configurations, from
`NetworkAssumption`. The inductive invariant `NetInv` adds what they rest on:

* `OnePlace` (`LockIsNotLost`): the lock's queue has each operation that exists, once. A cut or a crash takes
  one entry or all, never leaves one behind.
* `Tasks`: an operation waits at its first step or is the one with the lock (`Active`), and then the slot it read is still
  the modem's - nobody else switches - and what a disconnect put down stays down (`ParentDown`, then `BothDown`).
* `Programs` (`PortServesTheLock`): a program at the port is that of the operation with the lock, with its
  configuration (so the hang up is for the context that the disconnect is about), or a dial that had
  begun when its operation was cut; only the first in line has begun. So the orphan is one at most, in
  front, and over before the next operation's program runs. That is what makes the slot of an orphaned dial
  right: a switch waits behind it at the port although not at the lock.
* `SimAlive`: a SIM that is not blocked has tries left. `OffIsOff`: while the reported state is "disconnected",
  what that disconnect carried is off (`TurnedOff`), and no orphaned dial is left that could bring it back: the
  program of the disconnect came behind it.

`RemoveFirst` and `RemoveFirstMatch` take an operation off the queue and its program off the line: one entry
each, by `OnePlace` and `Programs`. Only model-checked: `LockIsGranted`.

### Startup

Two workers that poll: `start_initialization` every three seconds, the automatic connection every
five. `boot` is the first's pass (with the configuration it read at its start), `known` and whether
its program lost the device; `status` is `startup_status`; `auto` is `attempted`; `hist` the settings applied in
this life of the daemon. Ready and degraded are one status, as for `is_ready`. A pass serves other
modems too, so any time may go by inside it.

Run `startup`: is a modem dialled only after its start-up with its present settings has ended well, and is it
dialled at all. Four edits, plugs and crashes at any step, two settings, automatic connection on and off,
another part of the configuration edited. Fairness: both workers are polled (weak); a
program that may succeed again and again does so at some time (strong, `BootReady`) - without it a
modem that always refuses is never ready, rightly.

`StartupProofs` proves the type invariant and `AutoAfterStartup` for any settings, edits, plugs and crashes, from
`StartupAssumption` (`None` is no setting). `AutoAfterStartup` is about the step that dials; it needs `ReadyIsApplied`: a
status says ready only for settings whose start-up ended well in this life of the daemon. That holds because a pass
knows the settings it began with (`PassKnows`) and the status is kept with their key: an edit in
between leaves a status that no longer matches. Nothing more, so the proof is short.
Only model-checked: `AutoConnects`.

### Watchdog and Maintenance

`Watchdog` is `Counter::observe` as operators; time is in units of which `Cooldown` make the configured
cool-down. `Maintenance` composes it with the loop it lives in: `Supervise` replaces the worker
at any await when the configuration changes, a due reset is a spawned task (`tasks`) that the worker awaits and that
outlives it, `Claim` is INSERT OR IGNORE, `Record` the UPDATE, and a database error ends either.

Run `maintenance`: is the traffic counter cleared twice in a period, is a reset on record that was not done, does the
watchdog act too early, does it fall silent. `Threshold = 2` and `Grace = 1` tell the last
check from those before, `Cooldown = 2` a check within it from one at its end; two days tell
a task of yesterday from today's; two events (edits, crashes) give three workers. Fairness:
supervisor, worker and tasks are polled; `KeepsActing` also has the configuration settle.
An edit of any part of the modem restarts the counter (grace and cool-down begin again), so
`ActsOnlyWhenDue` counts from there, as the code does.

`MaintenanceProofs` proves the type invariant, `ResetAtMostOnce` and the action property `ActsOnlyWhenDue` for any
threshold, grace, cool-down, number of days, edits and crashes, from `MaintenanceAssumption` and
`WatchdogAssumption`. The inductive invariant `UpkeepInv` adds:

* `OneClaim`: of the tasks of a period one at most is past its claim, the period is then on record
  as started, and its counter has been cleared as often as that task has come to it. A task of a replaced worker
  and the new worker's for the same day are two in `tasks`; the row tells them apart.
* `CounterIsHistory`: the Counter's failures are at most the failed checks since it last acted, the grace it has used
  at most the checks that found the device absent, and its cool-down the time that has passed. They
  are inequalities: failures that fall into the grace are not counted, and a device that is there uses no grace.
* `CounterStartsAgain`: while the action is under way the Counter is as new.

The lemmas about `Older` and `Observed` (`OlderCount`, `ObservedCount`) say what a check does to a Counter; the
steps of the worker use nothing else of it. Only model-checked: `KeepsActing`.

### ConfigStore

| State | Code |
|---|---|
| `disk`, `mem` | the file (the service's settings and the modems); the modems of `AppState.config` |
| `edit` | tasks in `persist_modem` and what they save: `lock` (waits for `config_writer`), `open`, `rename`, `load` (the blocking task), `publish` |
| `writer`, `lock` | `config_writer`; the lock of the second file |
| `tool` | `qmodemd` on the command line in `set_service`, another process |
| `hist` | what the writers meant the file to have; is there a save memory was not told of |

A handler reads its modem from memory and saves it whole (`SavePart`); discovery and the cell
lock do the same in tasks that no client can end. Every await is a place to leave: the guard
of `config_writer` is dropped with the handler, the blocking task goes on. `Load` is outside the file's lock, as in the code. The
step of the outbox inside `persist_modem` is `SmsForward`'s; here it may fail.

Run `config`: does a save change anything but its modem, over tasks that ran on without their client, errors, crashes
and the other process; does memory have what the file has when no save is under way. Bounds: two
modems with two parts of two values, two handlers and discovery, four events.

`ConfigStoreProofs` proves `OthersKept` and `MemoryFollowsDisk` for any number of modems, parts, tasks, departures,
errors and crashes, from `ConfigAssumption` (tasks, the command line and `None` are three things). The inductive invariant
`StoreInv` adds to them and the types:

* `Exclusive`: who is about to rename holds the lock of the file, and the copy it will write has what the file
  has. This alone gives `OthersKept`, and it is the command line's as well as the daemon's.
* `Serial`: a handler whose client is there holds `config_writer` to its end. Both are the theorem `WritersExclude`.
* `Fresh`: who is about to publish has the modems of the file, unless a save was made for a client that left (`hist.owed`).
  `Load` is outside the file's lock, so this needs `Serial`: no other task with a client is past the writer's lock,
  and the command line changes the service's settings only.

### What is left to TLC

Every safety and action property that a passing run checks is a theorem, and so is the refinement. The runs keep
them, because they show on small instances that the models reach the cases the properties are about, and
because a mutant of each (`PROJECT.json`) shows that it can fail. Liveness is model-checked only: fairness
and ENABLED are out of the prover's reach. These are `EveryJobAnswered`, `OutcomeRecorded`, `JobsSettle`,
`ArrivalsImported`, `LockIsGranted`, `AutoConnects` and `KeepsActing`.

No module declares a RECURSIVE operator. The theorems are about the models: that a model is the code rests on the
lines that `map` names for each definition.

## Findings

Runs with expected violations; each trace is short and TLC prints it.

* `recovery`: `finish()` sets the state to idle in one critical section and
  `phase("recovering")` follows in another. A close in between aborts a recovery, which the
  comment of `PortPool::close` excludes.
* `readback`: `finish_send` moves a row out of "sending" before `send_parts` reads it
  back with `expect("recorded send")`; a delete in between ends the daemon.

Met while modelling, shown once with a property of the same models or read off the code,
and not kept as runs. The port:

* After the race of `recovery`, if the HTTP client leaves while close joins the
  worker, the state stays `recovering` with no worker, and every later close
  answers "port is busy; wait for all transactions and recovery to finish"
  (`at/mod.rs:184`, `at/queue.rs:186`). The port is not "closed" either, so the pool hands it out (`at/mod.rs:258`).
* A port closed while quarantined is opened again as synchronized (`at/mod.rs:273`): the late
  reply of its last life may be read as an answer in the next.
* A final line that `recover` reads in the round in which its deadline passes is
  forgotten (`at/mod.rs:504`): the quarantined port waits for a line that has already come.
* `recv` frees a slot of the channel before `begin` takes the job off the list
  (`at/queue.rs:142`): the list may hold one more than the documented 32.

Messages:

* The check and the DELETE of a delete call are two statements
  (`http/sms_api.rs:116`), and the id may be that of a new message, in flight, at the second.
* A message that takes the id of a deleted newest one is not above `minimum_id`
  (`sms/forward.rs:279`), so it is never forwarded, although the docs promise persistent jobs.
* After a change of the target, the worker's enqueue with an old snapshot takes the
  new target for another change and cancels jobs of the destination that file and memory
  agree on (`http.rs:1713`).
* The worker's enqueue and claim are two transactions over one old snapshot
  (`http.rs:1723`): a job that a handler makes for the new target in between is
  claimed by sink id and posted to the old target.
* Two texts with one reference within a day, the first lost in part and the second in its other
  part, are put together and reported as one received message (`sms/database.rs:86`). The
  test `reference_reuse_and_duplicate_part_do_not_mix_messages` has the two same
  parts only. `HistoryIsSound` allows this one mix.
* A deleted message that is still on the SIM comes back under a new id (`sms/database.rs:73`).
* A notification read during a recovery is lost to the SMS worker until the next one.

The connection:

* `pin_attempted` lives as long as one `Dial` (`network.rs:452`): `PinOncePerDial` holds, but the watchdog's
  redial (`http.rs:1624`) sends the same refused PIN again each time, until the SIM is blocked.
* A modem unplugged and plugged in between two passes keeps its start-up status (`http.rs:1775`), and the
  automatic connection does not see it either (`http.rs:1441`): it may be dialled before it is initialised
  again, or not at all.
* After a rename of the interface the old one, still up, makes connect, disconnect and redial
  refuse, because another interface uses the data device (`network.rs:717`).
* A disconnect is for the present configuration (`network.rs:761`). After an edit of `pdp_index` since the
  connect it hangs up a context that is not open, after one of `pdp_type` from ipv4v6 it leaves `{name}v6` up, and both
  times it reports "disconnected"; the same after a rename if discovery does not find the
  data device, for then the check for other interfaces is skipped (`network.rs:664`). Each of the three is
  reached in the model with one edit and one disconnect; `DisconnectedIsOff` is stated for what the disconnect carried.
* On a hisilicon platform the dial opens context 1 and the hang up closes `pdp_index` (`network.rs:389`, `network.rs:764`).
* `ubus down` of the child may fail, and "disconnected" is reported (`network.rs:762`).
* A refused `AT+QUIMSLOT?` means the first SIM's credentials, whichever SIM is in use; `CredentialsMatchSim` is
  stated for a slot that is known.
* A crash leaves the row of a reset "started" (`schedule.rs:58`): that period's clear is not tried again.

The configuration:

* Handlers that change a part read the modem before they wait for `config_writer`
  (`http.rs:1690`): of two at once, one change is lost, without an error.
* Discovery saves, some seconds after it read the modem, the whole of it (`http.rs:1177`): what was changed in
  between is undone, a modem deleted in between is back. `OthersKept` is about what a save meant, not
  about what it had read.

## Plan

1. Done: the port (`QueueMonitor`, `TxnQueue`, `AtPort`), sending, forwarding, and their proofs.
2. Done: `ConfigStore`, `Maintenance`, `Startup`, `SmsImport`, `Network`, and their proofs.
3. Done: whose reply it is (`NoForeignReply`, `QuietBeforeCommand`) and the refinement of `TxnQueue`.
4. Next: a reader's pass over the longest proofs (`NetworkProofs`, `AtPortProofs`); what an abstract history promises,
   for `SmsSend` and `SmsForward` to implement as `AtPort` does `TxnQueue`.

## Not modelled

* The port pool: one map under one lock. What it adds to `AtPort` is a second
  life of a device, described under Findings.
* The status cache and the programs that only read the modem.
* In the network: the QMI and MBIM drivers (one call of netifd each, which does the work in another
  program), the software slot of the MT5700 and its PLMN query, a SIM switch that acts later than its
  read-backs.
* The hard reboot (a pulse on a pin, or one program), the reboot at shutdown (a process of its own
  that tries one program three times), LEDs, samples of traffic.
* Parsing and formatting: PDU codec, vendor replies and tables, discovery's probes, calendar arithmetic, providers'
  requests, TOML; they compute a result from their input and keep no state.
* Listener, authentication, web assets, logging, the front end.
