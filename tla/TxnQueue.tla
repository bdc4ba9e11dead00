------------------------------ MODULE TxnQueue ------------------------------
(***************************************************************************)
(* What a serial port promises to its callers: accepted transactions are   *)
(* executed one at a time in the order of acceptance, the commands of one  *)
(* are never mixed with those of another, each accepted transaction is     *)
(* resolved once, and a port that was closed sends nothing any more.       *)
(***************************************************************************)
EXTENDS Naturals, SequencesExt

CONSTANT Jobs, None

VARIABLES
  open,     (* does the port accept transactions                            *)
  queue,    (* accepted and not started                                     *)
  active,   (* the transaction being executed, or None                      *)
  log,      (* for each command sent, the transaction that sent it          *)
  result    (* none, pending, refused or resolved, for each transaction     *)

vars == <<open, queue, active, log, result>>

Init ==
  /\ open = TRUE /\ queue = <<>> /\ active = None /\ log = <<>>
  /\ result = [j \in Jobs |-> "none"]

Accept(j) ==
  /\ open /\ result[j] = "none"
  /\ queue' = Append(queue, j) /\ result' = [result EXCEPT ![j] = "pending"]
  /\ UNCHANGED <<open, active, log>>

Refuse(j) ==
  /\ open /\ result[j] = "none"
  /\ result' = [result EXCEPT ![j] = "refused"]
  /\ UNCHANGED <<open, queue, active, log>>

Start ==
  /\ open /\ active = None /\ queue # <<>>
  /\ active' = Head(queue) /\ queue' = Tail(queue)
  /\ UNCHANGED <<open, log, result>>

\* A transaction whose caller left before its start is resolved without being run.
Skip ==
  /\ open /\ active = None /\ queue # <<>>
  /\ result' = [result EXCEPT ![Head(queue)] = "resolved"] /\ queue' = Tail(queue)
  /\ UNCHANGED <<open, active, log>>

Command ==
  /\ open /\ active # None
  /\ log' = Append(log, active)
  /\ UNCHANGED <<open, queue, active, result>>

Resolve ==
  /\ active # None
  /\ result' = [result EXCEPT ![active] = "resolved"] /\ active' = None
  /\ UNCHANGED <<open, queue, log>>

\* The operator closes an empty queue.
Close ==
  /\ open /\ queue = <<>>
  /\ open' = FALSE
  /\ UNCHANGED <<queue, active, log, result>>

\* The device is gone: what waits is resolved with an error.
Lose ==
  /\ active = None
  /\ open' = FALSE /\ queue' = <<>>
  /\ result' = [j \in Jobs |-> IF j \in Range(queue) THEN "resolved" ELSE result[j]]
  /\ UNCHANGED <<active, log>>

Next ==
  \/ \E j \in Jobs : Accept(j) \/ Refuse(j)
  \/ Start \/ Skip \/ Command \/ Resolve \/ Close \/ Lose

Spec == Init /\ [][Next]_vars
=============================================================================
