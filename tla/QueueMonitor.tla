------------------------------- MODULE QueueMonitor ---------------------------
(***************************************************************************)
(* The scheduling metadata of a port (queue.rs): what each method of the   *)
(* Monitor does to the Data behind its mutex.  A job is its id.            *)
(***************************************************************************)
EXTENDS Integers, SequencesExt

None == 0

NewMonitor ==
  [accepting |-> TRUE, nextId |-> 1, state |-> "idle", current |-> None, waiting |-> <<>>,
   completed |-> 0, failed |-> 0, cancelled |-> 0, rejected |-> 0]

\* submit(), when the channel had room and when it was full.
Enqueued(m) == [m EXCEPT !.nextId = @ + 1, !.waiting = Append(@, m.nextId)]
Rejected(m) == [m EXCEPT !.nextId = @ + 1, !.rejected = @ + 1]

\* position() finds the first entry with the id, remove() takes it off.
Position(q, id) == CHOOSE i \in DOMAIN q : q[i] = id /\ \A k \in 1..(i - 1) : q[k] # id
Without(q, id)  == RemoveAt(q, Position(q, id))

\* Mutants: a cancelled job is not counted, or not taken off the list.
BegunUncounted(m, id, cancelled) ==
  IF cancelled THEN [m EXCEPT !.waiting = Without(@, id)]
  ELSE [m EXCEPT !.waiting = Without(@, id), !.current = id, !.state = "running"]
BegunUnlisted(m, id, cancelled) ==
  IF cancelled THEN [m EXCEPT !.cancelled = @ + 1]
  ELSE [m EXCEPT !.waiting = Without(@, id), !.current = id, !.state = "running"]

\* begin() does nothing when no entry has the id.
Begun(m, id, cancelled) ==
  IF \A i \in DOMAIN m.waiting : m.waiting[i] # id THEN m
  ELSE IF cancelled THEN [m EXCEPT !.waiting = Without(@, id), !.cancelled = @ + 1]
  ELSE [m EXCEPT !.waiting = Without(@, id), !.current = id, !.state = "running"]

InPhase(m, phase) == [m EXCEPT !.state = phase]

Finished(m, outcome) ==
  IF m.current = None THEN [m EXCEPT !.state = "idle"]
  ELSE IF outcome = "completed"
       THEN [m EXCEPT !.current = None, !.state = "idle", !.completed = @ + 1]
       ELSE [m EXCEPT !.current = None, !.state = "idle", !.failed = @ + 1]

CanFreeze(m) == m.current = None /\ m.waiting = <<>> /\ m.state # "recovering"

\* Mutant: the port accepts on.
FrozenOpen(m) == m
Frozen(m) == [m EXCEPT !.accepting = FALSE]

\* Mutants: jobs taken off the wrong way, a closed port that still accepts.
ClosedUnderflow(m) ==
  [m EXCEPT !.state = "closed", !.accepting = FALSE,
            !.waiting = <<>>, !.failed = @ - Len(m.waiting)]
ClosedAccepting(m) ==
  [m EXCEPT !.state = "closed", !.waiting = <<>>, !.failed = @ + Len(m.waiting)]

\* close(): every waiting entry fails with "port_closed".
Closed(m) ==
  [m EXCEPT !.state = "closed", !.accepting = FALSE,
            !.waiting = <<>>, !.failed = @ + Len(m.waiting)]
=============================================================================
