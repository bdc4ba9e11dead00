------------------------------- MODULE AtPort -------------------------------
(***************************************************************************)
(* One serial port of the daemon: the callers, the scheduling Monitor, the *)
(* bounded job channel, the worker task that owns the stream, the modem at *)
(* the other end of the line and the operator's close.                     *)
(*                                                                         *)
(* Every mutex section of the Monitor is one step, and so is every stretch *)
(* of the worker between two of its awaits.  Time is abstract: a deadline  *)
(* may pass whenever the code could observe it, and a timed read returns   *)
(* the data if there is any (tokio polls the read before the timer).       *)
(***************************************************************************)
EXTENDS QueueMonitor

CONSTANTS
  MaxJobs,      (* bound: jobs submitted in the life of the port             *)
  Capacity,     (* slots of the job channel (32 in the code)                 *)
  ActionLimit,  (* actions one program may take (128 in the code)            *)
  MaxChatter,   (* bound: unsolicited lines the modem sends                  *)
  Floods        (* may input exceed the limits of the decoder and a response *)

ASSUME PortAssumption ==
  /\ MaxJobs \in Nat /\ MaxChatter \in Nat
  /\ Capacity \in Nat \ {0} /\ ActionLimit \in Nat \ {0}
  /\ Floods \in BOOLEAN

Jobs == 1..MaxJobs

VARIABLES
  mon,      (* Data behind the Monitor's mutex                               *)
  chan,     (* the mpsc channel of jobs                                      *)
  reply,    (* what became of each job's oneshot                             *)
  pc,       (* where the worker task is                                      *)
  job,      (* the job in the worker's hand, or None                         *)
  txn,      (* locals of the running transaction                             *)
  sync,     (* the worker's synchronized, pending_flags and late_quiet       *)
  wire,     (* lines sent by the modem and not read yet                      *)
  decoder,  (* complete lines read and not consumed yet                      *)
  owed,     (* commands the modem has still to answer                        *)
  sentBy,   (* for each command written, the job it belongs to (history)     *)
  modem,    (* is the device plugged in, how much may it still chatter       *)
  closer    (* the operator's close request                                  *)

vars == <<mon, chan, reply, pc, job, txn, sync, wire, decoder, owed, sentBy, modem, closer>>
line == <<wire, decoder, owed, sentBy, modem>>

-----------------------------------------------------------------------------
(* Lines.  cmd is the command a line answers (0: unsolicited).               *)

PromptIsFinal(l) == l.kind \in {"ok", "error", "prompt"}  \* mutant: recovery uses the step's flags
Final(l) == l.kind \in {"ok", "error"}               \* end_match with default_flags

\* end_match with the flags of the running step; the SMS prompt step has no "OK".
EndsStep(l) == l.kind \in IF txn.prompt THEN {"prompt", "error"} ELSE {"ok", "error"}

\* The bytes written end a shown prompt: they are its payload.
Sent(o, c, prompt) ==
  {d \in o : d.asks # "shown"} \cup {[cmd |-> c, asks |-> IF prompt THEN "yes" ELSE "no"]}

\* ESC leaves a shown prompt; the modem then owes the final line of that command.
Escaped(o) == {[d EXCEPT !.asks = IF @ = "shown" THEN "no" ELSE @] : d \in o}

Deliver(j, r) == reply' = [reply EXCEPT ![j] = IF @ = "awaiting" THEN r ELSE "gone"]

NewTxn  == [actions |-> 0, prompt |-> FALSE, ok |-> TRUE, replies |-> <<>>,
            error |-> "none", flags |-> FALSE, terminal |-> FALSE]
NewSync == [on |-> TRUE, pending |-> FALSE, late |-> FALSE]

Init ==
  /\ mon = NewMonitor
  /\ chan = <<>> /\ reply = [j \in Jobs |-> "none"]
  /\ pc = "select" /\ job = None /\ txn = NewTxn /\ sync = NewSync
  /\ wire = <<>> /\ decoder = <<>> /\ owed = {} /\ sentBy = <<>>
  /\ modem = [plugged |-> TRUE, chatter |-> MaxChatter]
  /\ closer = [at |-> "idle", aborted |-> FALSE]

-----------------------------------------------------------------------------
(* Callers: Port::run_named.  A caller may leave at any time while it waits. *)

\* submit() keeps the lock over try_send.  A refused caller (closed port) changes nothing.
Accept ==
  /\ mon.accepting /\ mon.nextId \in Jobs /\ Len(chan) < Capacity
  /\ chan' = Append(chan, mon.nextId)
  /\ reply' = [reply EXCEPT ![mon.nextId] = "awaiting"]
  /\ mon' = Enqueued(mon)
  /\ UNCHANGED <<pc, job, txn, sync, closer, line>>

RejectFull ==
  /\ mon.accepting /\ mon.nextId \in Jobs /\ Len(chan) >= Capacity
  /\ reply' = [reply EXCEPT ![mon.nextId] = "queue_full"]
  /\ mon' = Rejected(mon)
  /\ UNCHANGED <<chan, pc, job, txn, sync, closer, line>>

Leave(j) ==
  /\ reply[j] = "awaiting"
  /\ reply' = [reply EXCEPT ![j] = "detached"]
  /\ UNCHANGED <<mon, chan, pc, job, txn, sync, closer, line>>

-----------------------------------------------------------------------------
(* The worker's select: late_quiet first, then jobs, then the line.          *)

LateQuiet ==
  /\ pc = "select" /\ sync.late
  /\ sync' = NewSync /\ decoder' = <<>> /\ mon' = InPhase(mon, "idle")
  /\ UNCHANGED <<chan, reply, pc, job, txn, wire, owed, sentBy, modem, closer>>

\* Mutant: the newest job is served first.
RecvNewest ==
  /\ pc = "select" /\ chan # <<>>
  /\ job' = Last(chan) /\ chan' = Front(chan)
  /\ pc' = IF reply[Last(chan)] = "detached" THEN "skip" ELSE "begin"
  /\ UNCHANGED <<mon, reply, txn, sync, closer, line>>

\* The job leaves the channel; whether its caller is gone is read here, before begin().
Recv ==
  /\ pc = "select" /\ chan # <<>>
  /\ job' = Head(chan) /\ chan' = Tail(chan)
  /\ pc' = IF reply[Head(chan)] = "detached" THEN "skip" ELSE "begin"
  /\ UNCHANGED <<mon, reply, txn, sync, closer, line>>

\* A read takes all that is there; when that is too long, only what was kept is seen.
Seen(kept) == {decoder \o wire} \cup IF Floods THEN {kept} ELSE {}

IdleRead ==
  /\ pc = "select" /\ chan = <<>> /\ wire # <<>>
  /\ \E lines \in Seen(<<>>) :
       sync' = [sync EXCEPT !.late = @ \/ (sync.pending /\ \E l \in Range(lines) : Final(l))]
  /\ wire' = <<>> /\ decoder' = <<>>
  /\ UNCHANGED <<mon, chan, reply, pc, job, txn, owed, sentBy, modem, closer>>

Disconnect ==
  /\ pc = "select" /\ chan = <<>> /\ wire = <<>> /\ ~modem.plugged
  /\ pc' = "closing"
  /\ UNCHANGED <<mon, chan, reply, job, txn, sync, closer, line>>

Dropped(js) == [j \in Jobs |-> IF j \notin js THEN reply[j]
                               ELSE IF reply[j] = "awaiting" THEN "closed" ELSE "gone"]

\* Mutant: the receiver lives on after the worker's loop.
WorkerCloseKeepsJobs ==
  /\ pc = "closing"
  /\ mon' = Closed(mon) /\ pc' = "dead"
  /\ UNCHANGED <<chan, reply, job, txn, sync, closer, line>>

\* monitor.close(), then the receiver goes away with the jobs still in it.
WorkerClose ==
  /\ pc = "closing"
  /\ mon' = Closed(mon) /\ reply' = Dropped(Range(chan)) /\ chan' = <<>> /\ pc' = "dead"
  /\ UNCHANGED <<job, txn, sync, closer, line>>

-----------------------------------------------------------------------------
(* The worker running a job.                                                 *)

Skip ==
  /\ pc = "skip"
  /\ mon' = Begun(mon, job, TRUE)
  /\ reply' = [reply EXCEPT ![job] = "gone"] /\ pc' = "select" /\ job' = None
  /\ UNCHANGED <<chan, txn, sync, closer, line>>

Begin ==
  /\ pc = "begin"
  /\ mon' = Begun(mon, job, FALSE)
  /\ pc' = IF sync.on THEN "next" ELSE "refuse"
  /\ txn' = NewTxn
  /\ UNCHANGED <<chan, reply, job, sync, closer, line>>

RefuseFinish ==
  /\ pc = "refuse"
  /\ mon' = Finished(mon, "unsynchronized") /\ pc' = "refused"
  /\ UNCHANGED <<chan, reply, job, txn, sync, closer, line>>

RefuseReply ==
  /\ pc = "refused"
  /\ mon' = InPhase(mon, "quarantined") /\ Deliver(job, "unsynchronized")
  /\ pc' = "select" /\ job' = None /\ txn' = NewTxn
  /\ UNCHANGED <<chan, sync, closer, line>>

\* A program follows a shown prompt by its payload (the SMS submit programs do).
AfterPrompt == txn.replies # <<>> /\ Last(txn.replies).kind = "prompt"

\* Program::next, an arbitrary program: finish, fail, delay or send a command.
Act(next) ==
  /\ pc = "next" /\ pc' = next
  /\ txn' = [txn EXCEPT !.actions = @ + 1]
  /\ UNCHANGED <<chan, reply, job, sync, closer, line>>

ProgramFinish == Act("done") /\ txn.actions < ActionLimit /\ ~AfterPrompt /\ UNCHANGED mon

\* next() failed, or this is one action too many.
ProgramFail == Act("program_error") /\ ~AfterPrompt /\ UNCHANGED mon

\* A delay of more than five seconds is an error, found after the phase is set.
ProgramWait ==
  /\ \E next \in {"delay", "program_error"} : Act(next)
  /\ txn.actions < ActionLimit /\ ~AfterPrompt /\ mon' = InPhase(mon, "waiting")

ProgramCommand(prompt) ==
  /\ pc = "next" /\ pc' = "write"
  /\ txn.actions < ActionLimit
  /\ prompt => ~AfterPrompt /\ txn.actions + 1 < ActionLimit
  /\ txn' = [txn EXCEPT !.actions = @ + 1, !.prompt = prompt]
  /\ mon' = InPhase(mon, "running")
  /\ UNCHANGED <<chan, reply, job, sync, closer, line>>

\* The transaction fails; the lines left in the decoder stay there.
Failing(error, flags) ==
  /\ pc' = "fail"
  /\ txn' = [txn EXCEPT !.error = error, !.flags = flags]
  /\ UNCHANGED <<mon, chan, reply, job, sync, closer>>

\* wait_idle: the delay is over and all that came meanwhile was unsolicited.
DelayEnd ==
  /\ pc = "delay" /\ modem.plugged /\ pc' = "next"
  /\ wire' = <<>> /\ decoder' = <<>>
  /\ UNCHANGED <<mon, chan, reply, job, txn, sync, owed, sentBy, modem, closer>>

DelayFail ==
  /\ pc = "delay"
  /\ \/ ~modem.plugged /\ wire = <<>> /\ Failing("io", FALSE)
     \/ Floods /\ wire # <<>> /\ Failing("overflow", FALSE)
  /\ wire' = <<>> /\ decoder' = <<>> /\ UNCHANGED <<owed, sentBy, modem>>

\* exchange: leftover lines are unsolicited; then the command is written.
Write ==
  /\ pc = "write" /\ modem.plugged
  /\ pc' = "reply" /\ decoder' = <<>>
  /\ sentBy' = Append(sentBy, job)
  /\ owed' = Sent(owed, Len(sentBy'), txn.prompt)
  /\ UNCHANGED <<mon, chan, reply, job, txn, sync, wire, modem, closer>>

\* A write that times out may have reached the modem or not (an ESC finds no prompt shown yet).
WriteFail ==
  /\ pc = "write"
  /\ decoder' = <<>> /\ sentBy' = Append(sentBy, job)
  /\ \/ ~modem.plugged /\ Failing("io", FALSE) /\ UNCHANGED owed
     \/ /\ Failing("timeout", TRUE)
        /\ owed' \in {owed, Sent(owed, Len(sentBy'), txn.prompt)}
  /\ UNCHANGED <<wire, modem>>

\* Lines up to the first that ends the step are consumed; the rest stays in the decoder.
ReadReply ==
  /\ pc = "reply" /\ decoder \o wire # <<>>
  /\ LET lines == decoder \o wire
         ends  == {i \in DOMAIN lines : EndsStep(lines[i])}
         at    == CHOOSE i \in ends : \A k \in ends : i <= k
     IN  IF ends = {} THEN decoder' = <<>> /\ UNCHANGED <<pc, txn>>
         ELSE /\ decoder' = SubSeq(lines, at + 1, Len(lines))
              /\ txn' = [txn EXCEPT !.ok = @ /\ lines[at].kind # "error",
                                    !.replies = Append(@, [sent |-> Len(sentBy), got |-> lines[at].cmd,
                                                           kind |-> lines[at].kind])]
              /\ pc' = "next"
  /\ wire' = <<>>
  /\ UNCHANGED <<mon, chan, reply, job, sync, owed, sentBy, modem, closer>>

\* A recoverable failure of a prompt step sends ESC.
Escape == owed' = IF txn.prompt THEN Escaped(owed) ELSE owed

ReplyTimeout ==
  /\ pc = "reply" /\ modem.plugged /\ decoder \o wire = <<>>
  /\ Failing("timeout", TRUE) /\ Escape
  /\ UNCHANGED <<wire, decoder, sentBy, modem>>

\* The line is too long and the chunk is lost, or the response is: the line that made it so,
\* even the final one, is lost and the lines after it stay in the decoder.
ReplyOverflow ==
  /\ pc = "reply" /\ Floods /\ wire # <<>>
  /\ Failing("overflow", TRUE) /\ Escape
  /\ \/ decoder' = <<>>
     \/ \E n \in DOMAIN wire :
          /\ \A k \in 1..(n - 1) : ~EndsStep(wire[k])
          /\ decoder' = SubSeq(wire, n + 1, Len(wire))
  /\ wire' = <<>>
  /\ UNCHANGED <<sentBy, modem>>

ReplyIo ==
  /\ pc = "reply" /\ wire = <<>> /\ ~modem.plugged
  /\ Failing("io", FALSE)
  /\ UNCHANGED line

Outcome == IF txn.ok THEN "completed" ELSE "completed_with_modem_error"

\* Trailing lines are unsolicited; finish() and the reply.
Done ==
  /\ pc = "done"
  /\ mon' = Finished(mon, Outcome) /\ Deliver(job, "ok")
  /\ decoder' = <<>> /\ pc' = "select" /\ job' = None /\ txn' = NewTxn
  /\ UNCHANGED <<chan, sync, wire, owed, sentBy, modem, closer>>

ProgramError ==
  /\ pc = "program_error"
  /\ mon' = Finished(mon, "program_error") /\ Deliver(job, "state")
  /\ pc' = "select" /\ job' = None /\ txn' = NewTxn
  /\ UNCHANGED <<chan, sync, closer, line>>

FailFinish ==
  /\ pc = "fail"
  /\ mon' = Finished(mon, txn.error) /\ pc' = "failed"
  /\ UNCHANGED <<chan, reply, job, txn, sync, closer, line>>

\* phase("recovering"), the answer to the caller, and recovery if it has a chance
\* (synchronized is not read before recover() assigns it).
FailReply ==
  /\ pc = "failed"
  /\ mon' = InPhase(mon, "recovering") /\ Deliver(job, txn.error) /\ job' = None
  /\ sync' = [on |-> FALSE, pending |-> txn.flags, late |-> FALSE]
  /\ pc' = IF txn.flags THEN "recover" ELSE "settle"
  /\ txn' = NewTxn
  /\ UNCHANGED <<chan, closer, line>>

-----------------------------------------------------------------------------
(* recover: read until 100 ms of silence follow a final line, 5 s at most.   *)

\* Mutant: whatever recovery saw, the port is taken as synchronized.
SettleAlways(synced) ==
  /\ pc' = "settle"
  /\ sync' = NewSync

SettleAs(synced) ==
  /\ pc' = "settle"
  /\ sync' = [on |-> synced, pending |-> ~synced, late |-> FALSE]

\* The deadline is looked at after each read, whatever the read brought.
RecoverRead ==
  /\ pc = "recover" /\ decoder \o wire # <<>>
  /\ \E lines \in Seen(decoder) :
       txn' = [txn EXCEPT !.terminal = @ \/ \E l \in Range(lines) : Final(l)]
  /\ \/ UNCHANGED <<pc, sync>>
     \/ wire # <<>> /\ SettleAs(FALSE)
  /\ wire' = <<>> /\ decoder' = <<>>
  /\ UNCHANGED <<mon, chan, reply, job, owed, sentBy, modem, closer>>

RecoverEnd ==
  /\ pc = "recover" /\ decoder \o wire = <<>>
  /\ SettleAs(txn.terminal /\ modem.plugged)
  /\ UNCHANGED <<mon, chan, reply, job, txn, closer, line>>

Settle ==
  /\ pc = "settle"
  /\ mon' = InPhase(mon, IF sync.on THEN "idle" ELSE "quarantined")
  /\ pc' = "select" /\ txn' = NewTxn
  /\ UNCHANGED <<chan, reply, job, sync, closer, line>>

-----------------------------------------------------------------------------
(* The operator: Port::close under the pool's lock.                          *)

Freeze ==
  /\ closer.at = "idle" /\ CanFreeze(mon)
  /\ mon' = Frozen(mon) /\ closer' = [closer EXCEPT !.at = "take"]
  /\ UNCHANGED <<chan, reply, pc, job, txn, sync, line>>

\* The first close takes the task and aborts it; a later one finds it taken.
TakeTask ==
  /\ closer.at = "take"
  /\ closer' = [at |-> IF closer.aborted THEN "mark" ELSE "join", aborted |-> TRUE]
  /\ UNCHANGED <<mon, chan, reply, pc, job, txn, sync, line>>

Join ==
  /\ closer.at = "join" /\ pc = "dead"
  /\ closer' = [closer EXCEPT !.at = "mark"]
  /\ UNCHANGED <<mon, chan, reply, pc, job, txn, sync, line>>

MarkClosed ==
  /\ closer.at = "mark"
  /\ mon' = Closed(mon) /\ closer' = [closer EXCEPT !.at = "idle"]
  /\ UNCHANGED <<chan, reply, pc, job, txn, sync, line>>

\* The HTTP client leaves while the task is joined: the handler is dropped there.
DropClose ==
  /\ closer.at = "join"
  /\ closer' = [closer EXCEPT !.at = "idle"]
  /\ UNCHANGED <<mon, chan, reply, pc, job, txn, sync, line>>

\* An aborted task ends at an await; its receiver and the oneshot in its hand are dropped.
Awaiting == {"select", "delay", "write", "reply", "recover"}

Aborted ==
  /\ closer.aborted /\ pc \in Awaiting
  /\ pc' = "dead" /\ chan' = <<>> /\ job' = None /\ txn' = NewTxn
  /\ reply' = Dropped(Range(chan) \cup ({job} \ {None}))
  /\ UNCHANGED <<mon, sync, closer, line>>

-----------------------------------------------------------------------------
(* The modem (not part of the repository): it answers each command by one    *)
(* final line at most, a prompt command by a prompt or an error.             *)

Answer(d, kind) ==
  /\ d.asks # "shown" /\ (d.asks = "yes" => kind # "ok")
  /\ wire' = Append(wire, [cmd |-> d.cmd, kind |-> kind])
  /\ owed' = IF kind = "prompt" THEN (owed \ {d}) \cup {[d EXCEPT !.asks = "shown"]} ELSE owed \ {d}
  /\ (kind = "prompt" => d.asks = "yes")
  /\ modem.plugged
  /\ UNCHANGED <<mon, chan, reply, pc, job, txn, sync, decoder, sentBy, modem, closer>>

Chatter ==
  /\ modem.plugged /\ modem.chatter > 0
  /\ wire' = Append(wire, [cmd |-> 0, kind |-> "urc"])
  /\ modem' = [modem EXCEPT !.chatter = @ - 1]
  /\ UNCHANGED <<mon, chan, reply, pc, job, txn, sync, decoder, owed, sentBy, closer>>

Unplug ==
  /\ modem.plugged
  /\ modem' = [modem EXCEPT !.plugged = FALSE]
  /\ UNCHANGED <<mon, chan, reply, pc, job, txn, sync, wire, decoder, owed, sentBy, closer>>

-----------------------------------------------------------------------------
Worker ==
  \/ LateQuiet \/ Recv \/ IdleRead \/ Disconnect \/ WorkerClose
  \/ Skip \/ Begin \/ RefuseFinish \/ RefuseReply
  \/ ProgramFinish \/ ProgramFail \/ ProgramWait \/ (\E prompt \in BOOLEAN : ProgramCommand(prompt))
  \/ DelayEnd \/ DelayFail \/ Write \/ WriteFail
  \/ ReadReply \/ ReplyTimeout \/ ReplyOverflow \/ ReplyIo
  \/ Done \/ ProgramError \/ FailFinish \/ FailReply
  \/ RecoverRead \/ RecoverEnd \/ Settle \/ Aborted

Callers == Accept \/ RejectFull \/ \E j \in Jobs : Leave(j)
Close   == Freeze \/ TakeTask \/ Join \/ MarkClosed \/ DropClose
Modem   == (\E d \in owed, kind \in {"ok", "error", "prompt"} : Answer(d, kind)) \/ Chatter \/ Unplug

Next == Worker \/ Callers \/ Close \/ Modem

Spec == Init /\ [][Next]_vars

\* The runtime polls the worker task; a close request that is not dropped runs on.
FairSpec == Spec /\ WF_vars(Worker) /\ WF_vars(TakeTask) /\ WF_vars(Join) /\ WF_vars(MarkClosed)
-----------------------------------------------------------------------------
(* Properties.                                                               *)

Pcs == {"select", "closing", "dead", "skip", "begin", "refuse", "refused", "next", "delay", "write",
        "reply", "done", "program_error", "fail", "failed", "recover", "settle"}
Kinds == {"ok", "error", "prompt", "urc"}
LineSet == [cmd : Nat, kind : Kinds]
Answers == {"ok", "timeout", "io", "overflow", "unsynchronized", "state", "closed", "gone"}

Replies == {"none", "awaiting", "detached", "queue_full"} \cup Answers
MonSet ==
  [accepting : BOOLEAN, nextId : Nat, current : Jobs \cup {None}, waiting : Seq(Jobs),
   state : {"idle", "running", "waiting", "recovering", "quarantined", "closed"},
   completed : Nat, failed : Nat, cancelled : Nat, rejected : Nat]

SchedTypeOK ==
  /\ mon \in MonSet
  /\ chan \in Seq(Jobs) /\ reply \in [Jobs -> Replies]
  /\ pc \in Pcs /\ job \in Jobs \cup {None}
  /\ closer \in [at : {"idle", "take", "join", "mark"}, aborted : BOOLEAN]

LineTypeOK ==
  /\ txn \in [actions : Nat, prompt : BOOLEAN, ok : BOOLEAN, terminal : BOOLEAN, flags : BOOLEAN,
              replies : Seq([sent : Nat, got : Nat, kind : Kinds]),
              error : {"none", "timeout", "io", "overflow"}]
  /\ sync \in [on : BOOLEAN, pending : BOOLEAN, late : BOOLEAN]
  /\ wire \in Seq(LineSet) /\ decoder \in Seq(LineSet)
  /\ owed \in SUBSET [cmd : Nat, asks : {"no", "yes", "shown"}]
  /\ sentBy \in Seq(Jobs)
  /\ modem \in [plugged : BOOLEAN, chatter : Nat]

\* The type of every variable: the scheduling state, and the line with the worker's locals.
TypeOK == SchedTypeOK /\ LineTypeOK

\* "Hold metadata lock until try_send completes so dequeue cannot overtake registration":
\* the list shown to operators, and trusted by freeze(), is what the channel holds plus
\* the job the worker has taken and not begun.
WaitingIsChannel ==
  mon.waiting = IF pc \in {"skip", "begin"} THEN <<job>> \o chan ELSE chan

\* Every id given out is in exactly one of the counters and lists of the Monitor.
Accounted ==
  mon.nextId - 1 = mon.completed + mon.failed + mon.cancelled + mon.rejected
                   + Len(mon.waiting) + (IF mon.current = None THEN 0 ELSE 1)

\* The worker has a job exactly where it may have one, and the Monitor calls it the
\* current job from begin() to finish().
Running == {"refuse", "next", "delay", "write", "reply", "done", "program_error", "fail"}
InHand ==
  /\ job = None <=> pc \in {"select", "closing", "dead", "recover", "settle"}
  /\ mon.current = IF pc \in Running THEN job ELSE None

\* What freeze() saw stays true: a port that does not accept has nothing waiting and
\* nothing running, and a close in progress has stopped it from accepting.
ClosedIsEmpty ==
  /\ ~mon.accepting => mon.waiting = <<>> /\ mon.current = None
  /\ closer.aborted \/ closer.at # "idle" => ~mon.accepting

\* A caller only ever gets the replies to the commands of its own transaction.
NoForeignReply == \A i \in DOMAIN txn.replies : txn.replies[i].sent = txn.replies[i].got

\* A command is only written to a modem that has answered every earlier one, the answers
\* being read (a shown prompt, waiting for its payload, is the exception).
QuietBeforeCommand ==
  pc = "write" => /\ \A d \in owed : d.asks = "shown"
                  /\ \A i \in DOMAIN (decoder \o wire) : ~Final((decoder \o wire)[i])

\* A port that takes jobs has a worker: try_send never finds the receiver gone.
AcceptingHasWorker == mon.accepting => pc # "dead"

\* close() aborts a worker that has no job: no accepted job is dropped by it.
Abort == pc \in Awaiting /\ pc' = "dead"
CloseDropsNoJob == [][Abort => job = None /\ Len(chan) = 0 /\ reply' = reply]_vars

\* Every accepted job gets its answer, whatever callers, modem and operator do.
EveryJobAnswered ==
  \A j \in Jobs : reply[j] \in {"awaiting", "detached"} ~> reply[j] \in Answers

\* "Close only when no transaction or recovery is active."
CloseSparesRecovery == [][pc = "recover" => pc' # "dead"]_vars

-----------------------------------------------------------------------------
(* The port implements TxnQueue: one transaction at a time, in order.        *)

Result == [j \in Jobs |-> CASE reply[j] = "none"                      -> "none"
                             [] reply[j] \in {"awaiting", "detached"} -> "pending"
                             [] reply[j] = "queue_full"               -> "refused"
                             [] OTHER                                 -> "resolved"]

Queue == INSTANCE TxnQueue WITH
  open   <- mon.accepting,
  queue  <- mon.waiting,
  active <- IF pc \in {"skip", "begin"} THEN None ELSE job,
  log    <- sentBy,
  result <- Result

\* The port is a serial executor: see TxnQueue.
Implements == Queue!Spec
=============================================================================
