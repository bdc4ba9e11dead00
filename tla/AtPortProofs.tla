---------------------------- MODULE AtPortProofs ----------------------------
(***************************************************************************)
(* Proofs about the scheduling of one port, for any number of jobs, any    *)
(* channel capacity, any action limit and any modem.                       *)
(***************************************************************************)
EXTENDS AtPort, SequenceTheorems, WellFoundedInduction, TLAPS

\* Taking the first entry off a list leaves the rest of it.
LEMMA WithoutFirst ==
  ASSUME NEW S, NEW q \in Seq(S), NEW e \in S
  PROVE  Without(<<e>> \o q, e) = q /\ (<<e>> \o q)[1] = e /\ 1 \in DOMAIN (<<e>> \o q)
<1> DEFINE w == <<e>> \o q
<1>1. /\ w \in Seq(S) /\ Len(w) = Len(q) + 1 /\ Len(q) \in Nat
      /\ w[1] = e /\ DOMAIN w = 1..Len(w)
  <2>1. <<e>> \in Seq(S) /\ Len(<<e>>) = 1 /\ <<e>>[1] = e
    OBVIOUS
  <2>2. QED BY <2>1, ConcatProperties, LenProperties
<1>2. Position(w, e) = 1
  <2>1. 1 \in DOMAIN w /\ w[1] = e /\ \A k \in 1..(1 - 1) : w[k] # e
    BY <1>1
  <2>2. \A i \in DOMAIN w : (w[i] = e /\ \A k \in 1..(i - 1) : w[k] # e) => i = 1
    BY <1>1
  <2> HIDE DEF w
  <2>3. QED BY <2>1, <2>2 DEF Position
<1>3. SubSeq(w, 2, Len(w)) = q
  <2>1. CASE q = <<>>
    BY <1>1, <2>1, SubSeqEmpty, EmptySeq
  <2>2. CASE q # <<>>
    <3>1. Len(q) >= 1
      BY <2>2, EmptySeq
    <3>2. <<e>> \in Seq(S) /\ Len(<<e>>) = 1
      OBVIOUS
    <3>3. SubSeq(w, 2, Len(w)) = SubSeq(q, 2 - 1, Len(w) - 1)
      BY <3>1, <3>2, <1>1, SubSeqOfConcat2
    <3>4. QED BY <3>3, <1>1, SubSeqFull
  <2>3. QED BY <2>1, <2>2
<1>4. SubSeq(w, 1, 1 - 1) = <<>>
  BY SubSeqEmpty
<1> HIDE DEF w
<1>5. RemoveAt(w, 1) = <<>> \o q
  BY <1>3, <1>4 DEF RemoveAt
<1>6. QED
  BY <1>1, <1>2, <1>5, ConcatEmptySeq DEF Without, w

\* A nonempty sequence is its head followed by its tail.
LEMMA HeadFirst ==
  ASSUME NEW S, NEW q \in Seq(S), q # <<>>
  PROVE  q = <<Head(q)>> \o Tail(q) /\ Head(q) \in S /\ Tail(q) \in Seq(S)
         /\ Len(Tail(q)) = Len(q) - 1
<1>1. Len(q) \in Nat \ {0}
  BY EmptySeq
<1>2. SubSeq(q, 1, Len(q)) = <<q[1]>> \o SubSeq(q, 1 + 1, Len(q))
  BY <1>1, SubSeqRecursiveFirst
<1>3. SubSeq(q, 1, Len(q)) = q
  BY SubSeqFull
<1>4. Tail(q) = SubSeq(q, 2, Len(q)) /\ Head(q) = q[1]
  BY TailIsSubSeq, <1>1
<1>5. QED
  BY <1>1, <1>2, <1>3, <1>4, HeadTailProperties

-----------------------------------------------------------------------------
(* The methods of the Monitor: what they leave is a Data again, and no id is *)
(* lost or counted twice.                                                    *)

Busy(m) == IF m.current = None THEN 0 ELSE 1
Unaccounted(m) ==
  m.nextId - 1 - (m.completed + m.failed + m.cancelled + m.rejected + Len(m.waiting) + Busy(m))

\* n is a Data that accounts for its ids as m does.
Follows(n, m) == n \in MonSet /\ Unaccounted(n) = Unaccounted(m)

Numeric(m) ==
  /\ m.nextId \in Nat /\ m.completed \in Nat /\ m.failed \in Nat /\ m.cancelled \in Nat
  /\ m.rejected \in Nat /\ Len(m.waiting) \in Nat

LEMMA DataFields ==
  ASSUME NEW m \in MonSet
  PROVE  /\ Numeric(m)
         /\ m.waiting \in Seq(Jobs) /\ Len(m.waiting) \in Nat
         /\ m.nextId \in Nat /\ m.nextId + 1 \in Nat
         /\ m.completed \in Nat /\ m.completed + 1 \in Nat /\ m.failed \in Nat /\ m.failed + 1 \in Nat
         /\ m.cancelled \in Nat /\ m.cancelled + 1 \in Nat /\ m.rejected \in Nat /\ m.rejected + 1 \in Nat
<1>1. m.waiting \in Seq(Jobs) /\ Len(m.waiting) \in Nat
  BY LenProperties DEF MonSet
<1>2. m.nextId \in Nat /\ m.completed \in Nat /\ m.failed \in Nat /\ m.cancelled \in Nat /\ m.rejected \in Nat
  BY DEF MonSet
<1>3. QED BY <1>1, <1>2 DEF Numeric

\* enqueue: the id goes to the end of the list.
LEMMA EnqueuedData ==
  ASSUME NEW m \in MonSet, m.nextId \in Jobs
  PROVE  /\ Follows(Enqueued(m), m)
         /\ Enqueued(m).waiting = Append(m.waiting, m.nextId)
         /\ Enqueued(m).current = m.current /\ Enqueued(m).accepting = m.accepting
<1>0. Numeric(m)
  BY DataFields
<1>1. /\ Append(m.waiting, m.nextId) \in Seq(Jobs) /\ Len(m.waiting) \in Nat
      /\ Len(Append(m.waiting, m.nextId)) = Len(m.waiting) + 1
  BY DataFields, AppendProperties
<1>2. Enqueued(m) \in MonSet /\ Enqueued(m).waiting = Append(m.waiting, m.nextId)
  BY <1>1, DataFields DEF Enqueued, MonSet
<1>3. /\ Enqueued(m).current = m.current /\ Enqueued(m).accepting = m.accepting
      /\ Enqueued(m).nextId = m.nextId + 1 /\ Enqueued(m).rejected = m.rejected
      /\ Enqueued(m).completed = m.completed /\ Enqueued(m).failed = m.failed
      /\ Enqueued(m).cancelled = m.cancelled
  BY DEF Enqueued, MonSet
<1>4. PICK i \in Nat, c \in Nat, f \in Nat, x \in Nat, r \in Nat, w \in Nat, b \in {0, 1} :
        /\ m.nextId = i /\ m.completed = c /\ m.failed = f /\ m.cancelled = x
        /\ m.rejected = r /\ Len(m.waiting) = w /\ Busy(m) = b
  BY DataFields DEF Numeric, Busy
<1>5. Unaccounted(m) = i - 1 - (c + f + x + r + w + b)
  BY <1>4 DEF Unaccounted
<1>6. Unaccounted(Enqueued(m)) = (i + 1) - 1 - (c + f + x + r + (w + 1) + b)
  BY <1>1, <1>2, <1>3, <1>4 DEF Unaccounted, Busy
<1>7. QED BY <1>2, <1>3, <1>4, <1>5, <1>6 DEF Follows

\* submit on a full channel: the id is counted as rejected.
LEMMA RejectedData ==
  ASSUME NEW m \in MonSet
  PROVE  /\ Follows(Rejected(m), m) /\ Rejected(m).waiting = m.waiting
         /\ Rejected(m).current = m.current /\ Rejected(m).accepting = m.accepting
<1>0. Numeric(m)
  BY DataFields
<1>1. Rejected(m) \in MonSet /\ Len(m.waiting) \in Nat
  BY DataFields DEF Rejected, MonSet
<1>2. /\ Rejected(m).current = m.current /\ Rejected(m).accepting = m.accepting
      /\ Rejected(m).nextId = m.nextId + 1 /\ Rejected(m).rejected = m.rejected + 1
      /\ Rejected(m).completed = m.completed /\ Rejected(m).failed = m.failed
      /\ Rejected(m).cancelled = m.cancelled /\ Rejected(m).waiting = m.waiting
  BY DEF Rejected, MonSet
<1>3. PICK i \in Nat, c \in Nat, f \in Nat, x \in Nat, r \in Nat, w \in Nat, b \in {0, 1} :
        /\ m.nextId = i /\ m.completed = c /\ m.failed = f /\ m.cancelled = x
        /\ m.rejected = r /\ Len(m.waiting) = w /\ Busy(m) = b
  BY DataFields DEF Numeric, Busy
<1>4. Unaccounted(m) = i - 1 - (c + f + x + r + w + b)
  BY <1>3 DEF Unaccounted
<1>5. Unaccounted(Rejected(m)) = (i + 1) - 1 - (c + f + x + (r + 1) + w + b)
  BY <1>2, <1>3 DEF Unaccounted, Busy
<1>6. QED BY <1>1, <1>2, <1>3, <1>4, <1>5 DEF Follows

\* phase: only the reported state changes.
LEMMA PhaseData ==
  ASSUME NEW m \in MonSet, NEW p \in {"idle", "running", "waiting", "recovering", "quarantined"}
  PROVE  /\ Follows(InPhase(m, p), m) /\ InPhase(m, p).waiting = m.waiting
         /\ InPhase(m, p).current = m.current /\ InPhase(m, p).accepting = m.accepting
<1>1. InPhase(m, p) \in MonSet
  BY DEF InPhase, MonSet
<1>2. /\ InPhase(m, p).current = m.current /\ InPhase(m, p).accepting = m.accepting
      /\ InPhase(m, p).nextId = m.nextId /\ InPhase(m, p).rejected = m.rejected
      /\ InPhase(m, p).completed = m.completed /\ InPhase(m, p).failed = m.failed
      /\ InPhase(m, p).cancelled = m.cancelled /\ InPhase(m, p).waiting = m.waiting
  BY DEF InPhase, MonSet
<1>3. QED BY <1>1, <1>2 DEF Follows, Unaccounted, Busy

\* begin on a list headed by its job: the job becomes the current one, or is cancelled.
LEMMA BegunData ==
  ASSUME NEW m \in MonSet, NEW q \in Seq(Jobs), NEW id \in Jobs, m.waiting = <<id>> \o q,
         m.current = None, NEW c \in BOOLEAN
  PROVE  /\ Follows(Begun(m, id, c), m) /\ Begun(m, id, c).waiting = q
         /\ Begun(m, id, c).current = (IF c THEN None ELSE id)
         /\ Begun(m, id, c).accepting = m.accepting
<1>0. PICK i \in Nat, d \in Nat, f \in Nat, x \in Nat, r \in Nat, w \in Nat, b \in {0, 1} :
        /\ m.nextId = i /\ m.completed = d /\ m.failed = f /\ m.cancelled = x
        /\ m.rejected = r /\ Len(m.waiting) = w /\ Busy(m) = b
  BY DataFields DEF Numeric, Busy
<1>1. Without(m.waiting, id) = q /\ m.waiting[1] = id /\ 1 \in DOMAIN m.waiting
  BY WithoutFirst
<1>2. Len(m.waiting) = Len(q) + 1 /\ Len(q) \in Nat
  <2>1. <<id>> \in Seq(Jobs) /\ Len(<<id>>) = 1
    OBVIOUS
  <2>2. QED BY <2>1, ConcatProperties, LenProperties
<1>3. Begun(m, id, c) = IF c THEN [m EXCEPT !.waiting = q, !.cancelled = @ + 1]
                        ELSE [m EXCEPT !.waiting = q, !.current = id, !.state = "running"]
  BY <1>1 DEF Begun
<1>4. id # None
  BY PortAssumption DEF Jobs, None
<1>5. CASE c
  <2>1. Begun(m, id, c) \in MonSet
    BY <1>3, <1>5, DataFields DEF MonSet
  <2>2. /\ Begun(m, id, c).waiting = q /\ Begun(m, id, c).current = None
        /\ Begun(m, id, c).accepting = m.accepting /\ Begun(m, id, c).nextId = m.nextId
        /\ Begun(m, id, c).completed = m.completed /\ Begun(m, id, c).failed = m.failed
        /\ Begun(m, id, c).cancelled = m.cancelled + 1 /\ Begun(m, id, c).rejected = m.rejected
    BY <1>3, <1>5 DEF MonSet
  <2>3. Unaccounted(m) = i - 1 - (d + f + x + r + (Len(q) + 1) + 0)
    BY <1>0, <1>2 DEF Unaccounted, Busy
  <2>4. Unaccounted(Begun(m, id, c)) = i - 1 - (d + f + (x + 1) + r + Len(q) + 0)
    BY <1>0, <2>2 DEF Unaccounted, Busy
  <2>5. Unaccounted(Begun(m, id, c)) = Unaccounted(m)
    BY <1>0, <1>2, <2>3, <2>4
  <2>6. QED BY <1>5, <2>1, <2>2, <2>5 DEF Follows
<1>6. CASE ~c
  <2>1. Begun(m, id, c) \in MonSet
    BY <1>3, <1>6 DEF MonSet
  <2>2. /\ Begun(m, id, c).waiting = q /\ Begun(m, id, c).current = id
        /\ Begun(m, id, c).accepting = m.accepting /\ Begun(m, id, c).nextId = m.nextId
        /\ Begun(m, id, c).completed = m.completed /\ Begun(m, id, c).failed = m.failed
        /\ Begun(m, id, c).cancelled = m.cancelled /\ Begun(m, id, c).rejected = m.rejected
    BY <1>3, <1>6 DEF MonSet
  <2>3. Unaccounted(m) = i - 1 - (d + f + x + r + (Len(q) + 1) + 0)
    BY <1>0, <1>2 DEF Unaccounted, Busy
  <2>4. Unaccounted(Begun(m, id, c)) = i - 1 - (d + f + x + r + Len(q) + 1)
    BY <1>0, <1>4, <2>2 DEF Unaccounted, Busy
  <2>5. Unaccounted(Begun(m, id, c)) = Unaccounted(m)
    BY <1>0, <1>2, <2>3, <2>4
  <2>6. QED BY <1>6, <2>1, <2>2, <2>5 DEF Follows
<1>7. QED BY <1>5, <1>6

\* finish: the current job, if any, is counted by its outcome.
LEMMA FinishedData ==
  ASSUME NEW m \in MonSet, NEW outcome
  PROVE  /\ Follows(Finished(m, outcome), m) /\ Finished(m, outcome).waiting = m.waiting
         /\ Finished(m, outcome).current = None /\ Finished(m, outcome).accepting = m.accepting
<1> DEFINE n == Finished(m, outcome)
<1>0. Numeric(m)
  BY DataFields
<1>1. n \in MonSet /\ Len(m.waiting) \in Nat
  BY DataFields DEF Finished, MonSet
<1>2. /\ n.current = None /\ n.accepting = m.accepting /\ n.nextId = m.nextId
      /\ n.rejected = m.rejected /\ n.cancelled = m.cancelled /\ n.waiting = m.waiting
      /\ n.completed + n.failed = m.completed + m.failed + Busy(m)
  BY DEF Finished, MonSet, Busy
<1> HIDE DEF n
<1>3. Unaccounted(n) = Unaccounted(m)
  BY <1>1, <1>2, <1>0 DEF Unaccounted, Numeric, Busy
<1>4. QED BY <1>1, <1>2, <1>3 DEF Follows, n

\* freeze: no job is accepted from here on.
LEMMA FrozenData ==
  ASSUME NEW m \in MonSet
  PROVE  /\ Follows(Frozen(m), m) /\ Frozen(m).waiting = m.waiting
         /\ Frozen(m).current = m.current /\ ~Frozen(m).accepting
<1>1. /\ Frozen(m) \in MonSet /\ ~Frozen(m).accepting
      /\ Frozen(m).current = m.current /\ Frozen(m).nextId = m.nextId
      /\ Frozen(m).completed = m.completed /\ Frozen(m).failed = m.failed
      /\ Frozen(m).cancelled = m.cancelled /\ Frozen(m).rejected = m.rejected
      /\ Frozen(m).waiting = m.waiting
  BY DEF Frozen, MonSet
<1>2. QED BY <1>1 DEF Follows, Unaccounted, Busy

\* close: what was waiting is counted as failed.
LEMMA ClosedData ==
  ASSUME NEW m \in MonSet
  PROVE  /\ Follows(Closed(m), m) /\ Closed(m).waiting = <<>>
         /\ Closed(m).current = m.current /\ ~Closed(m).accepting
<1>0. PICK i \in Nat, c \in Nat, f \in Nat, x \in Nat, r \in Nat, w \in Nat, b \in {0, 1} :
        /\ m.nextId = i /\ m.completed = c /\ m.failed = f /\ m.cancelled = x
        /\ m.rejected = r /\ Len(m.waiting) = w /\ Busy(m) = b
  BY DataFields DEF Numeric, Busy
<1>1. Len(m.waiting) \in Nat /\ <<>> \in Seq(Jobs) /\ Len(<<>>) = 0
  BY DataFields
<1>2. Closed(m) \in MonSet
  <2>1. m.failed + Len(m.waiting) \in Nat
    BY DataFields
  <2>2. QED BY <1>1, <2>1 DEF Closed, MonSet
<1>3. /\ ~Closed(m).accepting
      /\ Closed(m).current = m.current /\ Closed(m).nextId = m.nextId
      /\ Closed(m).completed = m.completed /\ Closed(m).failed = m.failed + Len(m.waiting)
      /\ Closed(m).cancelled = m.cancelled /\ Closed(m).rejected = m.rejected
      /\ Closed(m).waiting = <<>>
  BY DEF Closed, MonSet
<1>4. Unaccounted(m) = i - 1 - (c + f + x + r + w + b)
  BY <1>0 DEF Unaccounted
<1>5. Unaccounted(Closed(m)) = i - 1 - (c + (f + w) + x + r + 0 + b)
  BY <1>0, <1>1, <1>3 DEF Unaccounted, Busy
<1>6. QED BY <1>0, <1>2, <1>3, <1>4, <1>5 DEF Follows

-----------------------------------------------------------------------------
(* The scheduling invariant: WaitingIsChannel makes freeze()'s check of the  *)
(* list a check of the channel, InHand its check of the current job a check  *)
(* of the worker, and ClosedIsEmpty carries what it saw to the abort.        *)
(* Accounted needs all three to count a job once when it changes lists.      *)

SchedInv == SchedTypeOK /\ WaitingIsChannel /\ Accounted /\ InHand /\ ClosedIsEmpty /\ AcceptingHasWorker

sched == <<mon, chan, reply, pc, job, closer>>

LEMMA SchedInit == Init => SchedInv
<1> SUFFICES ASSUME Init PROVE SchedInv
  OBVIOUS
<1>1. SchedTypeOK
  BY PortAssumption DEF Init, SchedTypeOK, NewMonitor, MonSet, Replies, Pcs, None, Jobs
<1>2. WaitingIsChannel /\ Accounted
  BY DEF Init, WaitingIsChannel, Accounted, NewMonitor, None
<1>3. InHand /\ ClosedIsEmpty /\ AcceptingHasWorker
  BY DEF Init, InHand, ClosedIsEmpty, AcceptingHasWorker, Running, NewMonitor, None
<1>4. QED BY <1>1, <1>2, <1>3 DEF SchedInv

\* Steps that leave the scheduling state alone.
LEMMA SchedStutter == SchedInv /\ UNCHANGED sched => SchedInv'
BY DEF SchedInv, sched, SchedTypeOK, WaitingIsChannel, Accounted, InHand, ClosedIsEmpty,
       AcceptingHasWorker

LEMMA AccountedIs == ASSUME NEW m \in MonSet
                     PROVE  Unaccounted(m) = 0 <=> m.nextId - 1 = m.completed + m.failed + m.cancelled
                              + m.rejected + Len(m.waiting) + (IF m.current = None THEN 0 ELSE 1)
<1>1. PICK i \in Nat, c \in Nat, f \in Nat, x \in Nat, r \in Nat, w \in Nat, b \in {0, 1} :
        /\ m.nextId = i /\ m.completed = c /\ m.failed = f /\ m.cancelled = x
        /\ m.rejected = r /\ Len(m.waiting) = w /\ b = (IF m.current = None THEN 0 ELSE 1)
  BY DataFields DEF Numeric
<1>2. Unaccounted(m) = i - 1 - (c + f + x + r + w + b)
  BY <1>1 DEF Unaccounted, Busy
<1>3. (i - 1 - (c + f + x + r + w + b) = 0) <=> (i - 1 = c + f + x + r + w + b)
  OBVIOUS
<1>4. QED BY <1>1, <1>2, <1>3

\* Types and accounts of a step, from what it does to each variable.
LEMMA SchedTyped ==
  SchedInv /\ Follows(mon', mon) /\ chan' \in Seq(Jobs) /\ reply' \in [Jobs -> Replies]
  /\ pc' \in Pcs /\ job' \in Jobs \cup {None}
  /\ closer' \in [at : {"idle", "take", "join", "mark"}, aborted : BOOLEAN]
  => SchedTypeOK' /\ Accounted'
<1> SUFFICES ASSUME SchedInv, Follows(mon', mon), chan' \in Seq(Jobs), reply' \in [Jobs -> Replies],
                    pc' \in Pcs, job' \in Jobs \cup {None},
                    closer' \in [at : {"idle", "take", "join", "mark"}, aborted : BOOLEAN]
             PROVE  SchedTypeOK' /\ Accounted'
  OBVIOUS
<1>1. mon \in MonSet /\ mon' \in MonSet
  BY DEF SchedInv, SchedTypeOK, Follows
<1>2. SchedTypeOK'
  BY <1>1 DEF SchedTypeOK
<1>3. Unaccounted(mon) = 0
  BY <1>1, AccountedIs DEF SchedInv, Accounted
<1>4. Unaccounted(mon') = 0
  BY <1>3 DEF Follows
<1>5. Accounted'
  BY <1>1, <1>4, AccountedIs DEF Accounted
<1>6. QED BY <1>2, <1>5

\* What a step says of a oneshot is an answer.
LEMMA DeliverTyped ==
  ASSUME NEW j \in Jobs, NEW r \in Answers, reply \in [Jobs -> Replies], Deliver(j, r)
  PROVE  reply' \in [Jobs -> Replies]
BY DEF Deliver, Replies, Answers

LEMMA DroppedTyped ==
  ASSUME NEW js, reply \in [Jobs -> Replies] PROVE Dropped(js) \in [Jobs -> Replies]
BY DEF Dropped, Replies, Answers

\* Steps of a transaction that only move the worker, or set the phase with it.
WorkerMoves ==
  /\ \E p \in {"idle", "running", "waiting", "recovering", "quarantined"} :
       mon' = mon \/ mon' = InPhase(mon, p)
  /\ job' = job /\ chan' = chan /\ reply' = reply /\ closer' = closer
  /\ \/ pc \in Running /\ pc' \in Running
     \/ /\ pc \in {"select", "recover", "settle", "closing"}
        /\ pc' \in {"select", "recover", "settle", "closing"}

LEMMA WorkerMovesInv == SchedInv /\ WorkerMoves => SchedInv'
<1> SUFFICES ASSUME SchedInv, WorkerMoves PROVE SchedInv'
  OBVIOUS
<1> USE DEF SchedInv
<1>0. mon \in MonSet
  BY DEF SchedTypeOK
<1>1. /\ Follows(mon', mon) /\ mon'.waiting = mon.waiting
      /\ mon'.current = mon.current /\ mon'.accepting = mon.accepting
  BY <1>0, PhaseData DEF WorkerMoves, Follows
<1>2. SchedTypeOK' /\ Accounted'
  <2>1. pc' \in Pcs
    BY DEF WorkerMoves, Running, Pcs
  <2>2. QED BY <1>1, <2>1, SchedTyped DEF WorkerMoves, SchedTypeOK
<1>3. WaitingIsChannel'
  BY <1>1 DEF WorkerMoves, WaitingIsChannel, Running
<1>4. InHand'
  BY <1>1 DEF WorkerMoves, InHand, Running
<1>5. ClosedIsEmpty' /\ AcceptingHasWorker'
  BY <1>1 DEF WorkerMoves, ClosedIsEmpty, AcceptingHasWorker, Running
<1>6. QED BY <1>2, <1>3, <1>4, <1>5

-----------------------------------------------------------------------------
(* The steps of the callers and of close.                                    *)

LEMMA CallersInv == SchedInv /\ Callers => SchedInv'
<1> SUFFICES ASSUME SchedInv, Callers PROVE SchedInv'
  OBVIOUS
<1> USE DEF SchedInv
<1>0. chan \in Seq(Jobs) /\ mon \in MonSet /\ mon.waiting \in Seq(Jobs)
  BY DataFields DEF SchedTypeOK
<1>1. CASE Accept
  <2>1. /\ mon.nextId \in Jobs /\ chan' = Append(chan, mon.nextId) /\ mon' = Enqueued(mon)
        /\ reply' = [reply EXCEPT ![mon.nextId] = "awaiting"] /\ mon.accepting
        /\ UNCHANGED <<pc, job, closer>>
    BY <1>1 DEF Accept
  <2>2. /\ Follows(mon', mon) /\ mon'.waiting = Append(mon.waiting, mon.nextId)
        /\ mon'.current = mon.current /\ mon'.accepting = mon.accepting
    BY <1>0, <2>1, EnqueuedData
  <2>3. SchedTypeOK' /\ Accounted'
    <3>1. chan' \in Seq(Jobs)
      BY <1>0, <2>1, AppendProperties
    <3>2. reply' \in [Jobs -> Replies]
      BY <2>1 DEF SchedTypeOK, Replies
    <3>3. QED BY <2>1, <2>2, <3>1, <3>2, SchedTyped DEF SchedTypeOK
  <2>5. WaitingIsChannel'
    <3>1. CASE pc \in {"skip", "begin"}
      <4>1. job \in Jobs /\ mon.waiting = <<job>> \o chan
        BY <3>1 DEF SchedTypeOK, InHand, WaitingIsChannel
      <4>2. <<job>> \in Seq(Jobs) /\ <<mon.nextId>> \in Seq(Jobs)
        BY <4>1, <2>1
      <4>3. Append(mon.waiting, mon.nextId) = (<<job>> \o chan) \o <<mon.nextId>>
        BY <4>1, <2>1, <1>0, AppendIsConcat
      <4>4. Append(chan, mon.nextId) = chan \o <<mon.nextId>>
        BY <2>1, <1>0, AppendIsConcat
      <4>5. (<<job>> \o chan) \o <<mon.nextId>> = <<job>> \o (chan \o <<mon.nextId>>)
        BY <4>2, <1>0, ConcatAssociative
      <4>6. QED BY <3>1, <4>3, <4>4, <4>5, <2>1, <2>2 DEF WaitingIsChannel
    <3>2. CASE pc \notin {"skip", "begin"}
      BY <3>2, <2>1, <2>2 DEF WaitingIsChannel
    <3>3. QED BY <3>1, <3>2
  <2>6. InHand' /\ ClosedIsEmpty' /\ AcceptingHasWorker'
    BY <2>1, <2>2 DEF InHand, ClosedIsEmpty, AcceptingHasWorker
  <2>7. QED BY <2>3, <2>5, <2>6
<1>2. CASE RejectFull
  <2>1. /\ mon.nextId \in Jobs /\ mon' = Rejected(mon)
        /\ reply' = [reply EXCEPT ![mon.nextId] = "queue_full"]
        /\ UNCHANGED <<chan, pc, job, closer>>
    BY <1>2 DEF RejectFull
  <2>2. /\ Follows(mon', mon) /\ mon'.waiting = mon.waiting
        /\ mon'.current = mon.current /\ mon'.accepting = mon.accepting
    BY <1>0, <2>1, RejectedData
  <2>3. SchedTypeOK' /\ Accounted'
    <3>1. reply' \in [Jobs -> Replies]
      BY <2>1 DEF SchedTypeOK, Replies
    <3>2. QED BY <2>1, <2>2, <3>1, SchedTyped DEF SchedTypeOK
  <2>4. WaitingIsChannel' /\ InHand' /\ ClosedIsEmpty' /\ AcceptingHasWorker'
    BY <2>1, <2>2 DEF WaitingIsChannel, InHand, ClosedIsEmpty, AcceptingHasWorker
  <2>5. QED BY <2>3, <2>4
<1>3. ASSUME NEW j \in Jobs, Leave(j) PROVE SchedInv'
  <2>1. reply' \in [Jobs -> Replies] /\ UNCHANGED <<mon, chan, pc, job, closer>>
    BY <1>3 DEF Leave, SchedTypeOK, Replies
  <2>2. SchedTypeOK'
    BY <2>1 DEF SchedTypeOK
  <2>3. QED
    BY <2>1, <2>2 DEF WaitingIsChannel, Accounted, InHand, ClosedIsEmpty, AcceptingHasWorker
<1>4. QED BY <1>1, <1>2, <1>3 DEF Callers

LEMMA CloseInv == SchedInv /\ Close => SchedInv'
<1> SUFFICES ASSUME SchedInv, Close PROVE SchedInv'
  OBVIOUS
<1> USE DEF SchedInv
<1>0. mon \in MonSet
  BY DEF SchedTypeOK
<1>1. CASE Freeze
  <2>1. /\ mon' = Frozen(mon) /\ CanFreeze(mon) /\ closer' = [closer EXCEPT !.at = "take"]
        /\ UNCHANGED <<chan, reply, pc, job>>
    BY <1>1 DEF Freeze
  <2>2. /\ Follows(mon', mon) /\ mon'.waiting = mon.waiting
        /\ mon'.current = mon.current /\ ~mon'.accepting
    BY <1>0, <2>1, FrozenData
  <2>3. closer' \in [at : {"idle", "take", "join", "mark"}, aborted : BOOLEAN]
    BY <2>1 DEF SchedTypeOK
  <2>4. SchedTypeOK' /\ Accounted'
    BY <2>1, <2>2, <2>3, SchedTyped DEF SchedTypeOK
  <2>5. WaitingIsChannel' /\ InHand' /\ ClosedIsEmpty' /\ AcceptingHasWorker'
    BY <2>1, <2>2 DEF CanFreeze, WaitingIsChannel, InHand, ClosedIsEmpty, AcceptingHasWorker
  <2>6. QED BY <2>4, <2>5
<1>2. CASE TakeTask \/ Join \/ DropClose
  <2>1. UNCHANGED <<mon, chan, reply, pc, job>> /\ ~mon.accepting
    BY <1>2 DEF TakeTask, Join, DropClose, ClosedIsEmpty
  <2>2. closer' \in [at : {"idle", "take", "join", "mark"}, aborted : BOOLEAN]
    <3>1. closer.aborted \in BOOLEAN /\ closer \in [at : {"idle", "take", "join", "mark"}, aborted : BOOLEAN]
      BY DEF SchedTypeOK
    <3>2. CASE TakeTask
      <4>1. (IF closer.aborted THEN "mark" ELSE "join") \in {"idle", "take", "join", "mark"}
        OBVIOUS
      <4>2. closer' = [at |-> IF closer.aborted THEN "mark" ELSE "join", aborted |-> TRUE]
        BY <3>2 DEF TakeTask
      <4>3. QED BY <4>1, <4>2
    <3>3. CASE Join
      BY <3>1, <3>3 DEF Join
    <3>4. CASE DropClose
      BY <3>1, <3>4 DEF DropClose
    <3>5. QED BY <1>2, <3>2, <3>3, <3>4
  <2>3. SchedTypeOK'
    BY <2>1, <2>2 DEF SchedTypeOK
  <2>4. QED
    BY <2>1, <2>3 DEF WaitingIsChannel, Accounted, InHand, ClosedIsEmpty, AcceptingHasWorker
<1>3. CASE MarkClosed
  <2>1. /\ mon' = Closed(mon) /\ closer' = [closer EXCEPT !.at = "idle"]
        /\ UNCHANGED <<chan, reply, pc, job>> /\ mon.waiting = <<>> /\ mon.current = None
    BY <1>3 DEF MarkClosed, ClosedIsEmpty
  <2>2. /\ Follows(mon', mon) /\ mon'.waiting = <<>>
        /\ mon'.current = mon.current /\ ~mon'.accepting
    BY <1>0, <2>1, ClosedData
  <2>3. closer' \in [at : {"idle", "take", "join", "mark"}, aborted : BOOLEAN]
    BY <2>1 DEF SchedTypeOK
  <2>4. SchedTypeOK' /\ Accounted'
    BY <2>1, <2>2, <2>3, SchedTyped DEF SchedTypeOK
  <2>5. WaitingIsChannel' /\ InHand' /\ ClosedIsEmpty' /\ AcceptingHasWorker'
    BY <2>1, <2>2 DEF WaitingIsChannel, InHand, ClosedIsEmpty, AcceptingHasWorker
  <2>6. QED BY <2>4, <2>5
<1>4. QED BY <1>1, <1>2, <1>3 DEF Close

-----------------------------------------------------------------------------
(* The steps of the worker that change the scheduling state.                 *)

LEMMA RecvInv == SchedInv /\ Recv => SchedInv'
<1> SUFFICES ASSUME SchedInv, Recv PROVE SchedInv'
  OBVIOUS
<1> USE DEF SchedInv
<1>1. /\ chan # <<>> /\ job' = Head(chan) /\ chan' = Tail(chan) /\ pc = "select"
      /\ pc' \in {"skip", "begin"} /\ UNCHANGED <<mon, reply, closer>>
  BY DEF Recv
<1>2. chan = <<job'>> \o chan' /\ job' \in Jobs /\ chan' \in Seq(Jobs)
  BY <1>1, HeadFirst DEF SchedTypeOK
<1>3. SchedTypeOK' /\ Accounted'
  <2>1. pc' \in Pcs
    BY <1>1 DEF Pcs
  <2>2. mon' = mon /\ mon' \in MonSet /\ Follows(mon', mon)
    BY <1>1 DEF SchedTypeOK, Follows
  <2>3. QED BY <1>1, <1>2, <2>1, <2>2, SchedTyped DEF SchedTypeOK
<1>4. WaitingIsChannel'
  BY <1>1, <1>2 DEF WaitingIsChannel
<1>5. InHand'
  <2>1. job' # None
    BY <1>2, PortAssumption DEF Jobs, None
  <2>2. QED BY <1>1, <2>1 DEF InHand, Running
<1>6. ClosedIsEmpty' /\ AcceptingHasWorker'
  BY <1>1 DEF ClosedIsEmpty, AcceptingHasWorker
<1>7. QED BY <1>3, <1>4, <1>5, <1>6

LEMMA BeginsInv == SchedInv /\ (Skip \/ Begin) => SchedInv'
<1> SUFFICES ASSUME SchedInv, Skip \/ Begin PROVE SchedInv'
  OBVIOUS
<1> USE DEF SchedInv
<1>1. /\ mon \in MonSet /\ chan \in Seq(Jobs) /\ job \in Jobs /\ job # None
      /\ mon.waiting = <<job>> \o chan /\ mon.current = None
  BY DEF Skip, Begin, SchedTypeOK, InHand, WaitingIsChannel, Running
<1>2. ClosedIsEmpty => mon.accepting
  <2>1. <<job>> \o chan # <<>>
    BY <1>1, WithoutFirst
  <2>2. QED BY <1>1, <2>1 DEF ClosedIsEmpty
<1>3. CASE Skip
  <2>1. /\ Follows(mon', mon) /\ mon'.waiting = chan
        /\ mon'.current = None /\ mon'.accepting = mon.accepting
    BY <1>1, <1>3, BegunData DEF Skip
  <2>2. reply' \in [Jobs -> Replies]
    BY <1>1, <1>3 DEF Skip, SchedTypeOK, Replies, Answers
  <2>3. pc' = "select" /\ job' = None /\ UNCHANGED <<chan, closer>> /\ pc' \in Pcs
    BY <1>3 DEF Skip, Pcs
  <2>4. SchedTypeOK' /\ Accounted'
    BY <2>1, <2>2, <2>3, SchedTyped DEF SchedTypeOK
  <2>5. WaitingIsChannel' /\ InHand' /\ ClosedIsEmpty' /\ AcceptingHasWorker'
    BY <1>2, <2>1, <2>3 DEF WaitingIsChannel, InHand, ClosedIsEmpty, AcceptingHasWorker, Running
  <2>6. QED BY <2>4, <2>5
<1>4. CASE Begin
  <2>1. /\ Follows(mon', mon) /\ mon'.waiting = chan
        /\ mon'.current = job /\ mon'.accepting = mon.accepting
    BY <1>1, <1>4, BegunData DEF Begin
  <2>2. pc' \in {"next", "refuse"} /\ UNCHANGED <<chan, reply, job, closer>> /\ pc' \in Pcs
    BY <1>4 DEF Begin, Pcs
  <2>3. SchedTypeOK' /\ Accounted'
    BY <2>1, <2>2, SchedTyped DEF SchedTypeOK
  <2>4. WaitingIsChannel' /\ InHand' /\ ClosedIsEmpty' /\ AcceptingHasWorker'
    BY <1>1, <1>2, <2>1, <2>2 DEF WaitingIsChannel, InHand, ClosedIsEmpty, AcceptingHasWorker, Running
  <2>5. QED BY <2>3, <2>4
<1>5. QED BY <1>3, <1>4

\* The transaction is finished in the Monitor: its caller hears of it next, or at once.
LEMMA FinishInv == SchedInv /\ (RefuseFinish \/ FailFinish \/ Done \/ ProgramError) => SchedInv'
<1> SUFFICES ASSUME SchedInv, RefuseFinish \/ FailFinish \/ Done \/ ProgramError PROVE SchedInv'
  OBVIOUS
<1> USE DEF SchedInv
<1>1. /\ mon \in MonSet /\ job \in Jobs
      /\ pc \in {"refuse", "fail", "done", "program_error"} /\ mon.waiting = chan
  BY DEF RefuseFinish, FailFinish, Done, ProgramError, SchedTypeOK, InHand, WaitingIsChannel
<1>2. /\ Follows(mon', mon) /\ mon'.waiting = mon.waiting
      /\ mon'.current = None /\ mon'.accepting = mon.accepting
  BY <1>1, FinishedData DEF RefuseFinish, FailFinish, Done, ProgramError
<1>3. reply' \in [Jobs -> Replies]
  <2>1. CASE Done
    BY <1>1, <2>1, DeliverTyped DEF Done, SchedTypeOK, Answers
  <2>2. CASE ProgramError
    BY <1>1, <2>2, DeliverTyped DEF ProgramError, SchedTypeOK, Answers
  <2>3. CASE RefuseFinish \/ FailFinish
    BY <2>3 DEF RefuseFinish, FailFinish, SchedTypeOK
  <2>4. QED BY <2>1, <2>2, <2>3
<1>4. /\ pc' \in {"refused", "failed", "select"} /\ pc' \in Pcs /\ UNCHANGED <<chan, closer>>
      /\ job' = IF pc' = "select" THEN None ELSE job
  BY DEF RefuseFinish, FailFinish, Done, ProgramError, Pcs
<1>5. SchedTypeOK' /\ Accounted'
  BY <1>1, <1>2, <1>3, <1>4, SchedTyped DEF SchedTypeOK
<1>6. InHand'
  <2>1. job # None
    BY <1>1 DEF InHand
  <2>2. QED BY <1>2, <1>4, <2>1 DEF InHand, Running
<1>7. WaitingIsChannel' /\ ClosedIsEmpty' /\ AcceptingHasWorker'
  BY <1>1, <1>2, <1>4 DEF WaitingIsChannel, ClosedIsEmpty, AcceptingHasWorker
<1>8. QED BY <1>5, <1>6, <1>7

LEMMA FailReplyInv == SchedInv /\ TypeOK /\ (RefuseReply \/ FailReply) => SchedInv'
<1> SUFFICES ASSUME SchedInv, TypeOK, RefuseReply \/ FailReply PROVE SchedInv'
  OBVIOUS
<1> USE DEF SchedInv
<1>1. /\ mon \in MonSet /\ job \in Jobs /\ pc \in {"refused", "failed"}
      /\ mon.waiting = chan /\ mon.current = None
  BY DEF RefuseReply, FailReply, SchedTypeOK, InHand, WaitingIsChannel, Running
<1>2. /\ Follows(mon', mon) /\ mon'.waiting = mon.waiting
      /\ mon'.current = None /\ mon'.accepting = mon.accepting
  BY <1>1, PhaseData DEF RefuseReply, FailReply
<1>3. reply' \in [Jobs -> Replies]
  BY <1>1 DEF RefuseReply, FailReply, Deliver, SchedTypeOK, TypeOK, LineTypeOK, Replies, Answers
<1>4. pc' \in {"select", "recover", "settle"} /\ pc' \in Pcs /\ job' = None /\ UNCHANGED <<chan, closer>>
  BY DEF RefuseReply, FailReply, Pcs
<1>5. SchedTypeOK' /\ Accounted'
  BY <1>2, <1>3, <1>4, SchedTyped DEF SchedTypeOK
<1>6. WaitingIsChannel' /\ InHand' /\ ClosedIsEmpty' /\ AcceptingHasWorker'
  BY <1>1, <1>2, <1>4 DEF WaitingIsChannel, InHand, ClosedIsEmpty, AcceptingHasWorker, Running
<1>7. QED BY <1>5, <1>6

\* The worker ends by itself, or at the abort of a close.
LEMMA EndInv == SchedInv /\ (WorkerClose \/ Aborted) => SchedInv'
<1> SUFFICES ASSUME SchedInv, WorkerClose \/ Aborted PROVE SchedInv'
  OBVIOUS
<1> USE DEF SchedInv
<1>1. mon \in MonSet /\ <<>> \in Seq(Jobs) /\ "dead" \in Pcs
  BY DEF SchedTypeOK, Pcs
<1>2. CASE WorkerClose
  <2>1. /\ mon' = Closed(mon) /\ pc' = "dead" /\ chan' = <<>> /\ pc = "closing"
        /\ reply' = Dropped(Range(chan)) /\ UNCHANGED <<job, closer>>
    BY <1>2 DEF WorkerClose
  <2>2. /\ Follows(mon', mon) /\ mon'.waiting = <<>>
        /\ mon'.current = mon.current /\ ~mon'.accepting
    BY <1>1, <2>1, ClosedData
  <2>3. reply' \in [Jobs -> Replies]
    BY <2>1, DroppedTyped DEF SchedTypeOK
  <2>4. SchedTypeOK' /\ Accounted'
    BY <1>1, <2>1, <2>2, <2>3, SchedTyped DEF SchedTypeOK
  <2>5. WaitingIsChannel' /\ InHand' /\ ClosedIsEmpty' /\ AcceptingHasWorker'
    BY <2>1, <2>2 DEF WaitingIsChannel, InHand, ClosedIsEmpty, AcceptingHasWorker, Running
  <2>6. QED BY <2>4, <2>5
<1>3. CASE Aborted
  <2>1. /\ ~mon.accepting /\ mon.current = None /\ mon.waiting = <<>> /\ pc \notin Running
        /\ pc' = "dead" /\ chan' = <<>> /\ job' = None /\ UNCHANGED <<mon, closer>>
        /\ reply' = Dropped(Range(chan) \cup ({job} \ {None}))
    BY <1>3 DEF Aborted, ClosedIsEmpty, InHand, Running
  <2>2. reply' \in [Jobs -> Replies]
    BY <2>1, DroppedTyped DEF SchedTypeOK
  <2>3. SchedTypeOK' /\ Accounted'
    <3>1. Follows(mon', mon)
      BY <1>1, <2>1 DEF Follows
    <3>2. QED BY <1>1, <2>1, <2>2, <3>1, SchedTyped DEF SchedTypeOK
  <2>4. WaitingIsChannel' /\ InHand' /\ ClosedIsEmpty' /\ AcceptingHasWorker'
    BY <2>1 DEF WaitingIsChannel, InHand, ClosedIsEmpty, AcceptingHasWorker, Running
  <2>5. QED BY <2>3, <2>4
<1>4. QED BY <1>2, <1>3

-----------------------------------------------------------------------------
(* The other steps only move the worker, or leave the scheduling state alone. *)

\* A program's step, and the exchange of a command with the modem.
LEMMA TransactionMoves ==
  (\/ ProgramFinish \/ ProgramFail \/ ProgramWait \/ \E prompt \in BOOLEAN : ProgramCommand(prompt)
   \/ DelayEnd \/ DelayFail \/ Write \/ WriteFail \/ ReadReply \/ ReplyTimeout \/ ReplyOverflow \/ ReplyIo)
  => WorkerMoves
<1>1. ProgramFinish \/ ProgramFail => WorkerMoves
  BY DEF ProgramFinish, ProgramFail, Act, WorkerMoves, Running
<1>2. ProgramWait => WorkerMoves
  BY DEF ProgramWait, Act, WorkerMoves, Running
<1>3. ASSUME NEW prompt \in BOOLEAN, ProgramCommand(prompt) PROVE WorkerMoves
  BY <1>3 DEF ProgramCommand, WorkerMoves, Running
<1>4. DelayEnd \/ DelayFail => WorkerMoves
  BY DEF DelayEnd, DelayFail, Failing, WorkerMoves, Running
<1>5. Write \/ WriteFail => WorkerMoves
  BY DEF Write, WriteFail, Failing, WorkerMoves, Running
<1>6. ReadReply => WorkerMoves
  <2>1. ReadReply => /\ pc = "reply" /\ pc' \in {"reply", "next"}
                     /\ UNCHANGED <<mon, chan, reply, job, closer>>
    BY DEF ReadReply
  <2>2. QED BY <2>1 DEF WorkerMoves, Running
<1>7. ReplyTimeout \/ ReplyOverflow \/ ReplyIo => WorkerMoves
  BY DEF ReplyTimeout, ReplyOverflow, ReplyIo, Failing, WorkerMoves, Running
<1>8. QED BY <1>1, <1>2, <1>3, <1>4, <1>5, <1>6, <1>7

\* The worker between transactions: late final lines, a lost device, recovery.
LEMMA BetweenMoves ==
  LateQuiet \/ IdleRead \/ Disconnect \/ RecoverRead \/ RecoverEnd \/ Settle => WorkerMoves
<1>1. LateQuiet => WorkerMoves
  BY DEF LateQuiet, WorkerMoves
<1>2. IdleRead \/ Disconnect => WorkerMoves
  BY DEF IdleRead, Disconnect, WorkerMoves
<1>3. RecoverRead \/ RecoverEnd => WorkerMoves
  BY DEF RecoverRead, RecoverEnd, SettleAs, WorkerMoves
<1>4. Settle => WorkerMoves
  BY DEF Settle, WorkerMoves
<1>5. QED BY <1>1, <1>2, <1>3, <1>4

LEMMA ModemStutters == Modem => UNCHANGED sched
BY DEF Modem, Answer, Chatter, Unplug, sched

-----------------------------------------------------------------------------
(* The types of the line and of the worker's locals.                         *)

LEMMA LineInit == Init => LineTypeOK
BY PortAssumption DEF Init, LineTypeOK, NewTxn, NewSync

TxnSet == [actions : Nat, prompt : BOOLEAN, ok : BOOLEAN, terminal : BOOLEAN, flags : BOOLEAN,
           replies : Seq([sent : Nat, got : Nat, kind : Kinds]),
           error : {"none", "timeout", "io", "overflow"}]
SyncSet == [on : BOOLEAN, pending : BOOLEAN, late : BOOLEAN]
OwedSet == SUBSET [cmd : Nat, asks : {"no", "yes", "shown"}]

LEMMA NewLocals == NewTxn \in TxnSet /\ NewSync \in SyncSet
BY DEF NewTxn, NewSync, TxnSet, SyncSet

\* The steps that leave the line and the locals alone.
LEMMA LineStutter ==
  LineTypeOK /\ UNCHANGED line /\ UNCHANGED sync /\ (txn' = txn \/ txn' = NewTxn) => LineTypeOK'
BY NewLocals DEF LineTypeOK, line, TxnSet

LEMMA LineCallersClose == LineTypeOK /\ (Callers \/ Close) => LineTypeOK'
<1>1. Callers => UNCHANGED line /\ UNCHANGED sync /\ txn' = txn
  BY DEF Callers, Accept, RejectFull, Leave
<1>2. Close => UNCHANGED line /\ UNCHANGED sync /\ txn' = txn
  BY DEF Close, Freeze, TakeTask, Join, MarkClosed, DropClose
<1>3. QED BY <1>1, <1>2, LineStutter

LEMMA LineModem == LineTypeOK /\ Modem => LineTypeOK'
<1> SUFFICES ASSUME LineTypeOK, Modem PROVE LineTypeOK'
  OBVIOUS
<1>1. ASSUME NEW d \in owed, NEW kind \in {"ok", "error", "prompt"}, Answer(d, kind)
      PROVE  LineTypeOK'
  <2>1. d \in [cmd : Nat, asks : {"no", "yes", "shown"}]
    BY DEF LineTypeOK
  <2>2. wire' \in Seq(LineSet)
    <3>1. [cmd |-> d.cmd, kind |-> kind] \in LineSet
      BY <2>1 DEF LineSet, Kinds
    <3>2. QED BY <1>1, <3>1, AppendProperties DEF Answer, LineTypeOK
  <2>3. owed' \in OwedSet
    <3>1. [d EXCEPT !.asks = "shown"] \in [cmd : Nat, asks : {"no", "yes", "shown"}]
      BY <2>1
    <3>2. QED BY <1>1, <3>1 DEF Answer, LineTypeOK, OwedSet
  <2>4. QED BY <1>1, <2>2, <2>3 DEF Answer, LineTypeOK, OwedSet
<1>2. CASE Chatter
  <2>1. wire' \in Seq(LineSet)
    <3>1. [cmd |-> 0, kind |-> "urc"] \in LineSet
      BY DEF LineSet, Kinds
    <3>2. QED BY <1>2, <3>1, AppendProperties DEF Chatter, LineTypeOK
  <2>2. modem' \in [plugged : BOOLEAN, chatter : Nat]
    <3>1. modem.chatter \in Nat /\ modem.chatter > 0 /\ modem \in [plugged : BOOLEAN, chatter : Nat]
      BY <1>2 DEF Chatter, LineTypeOK
    <3>2. modem.chatter - 1 \in Nat
      BY <3>1
    <3>3. QED BY <1>2, <3>1, <3>2 DEF Chatter
  <2>3. QED BY <1>2, <2>1, <2>2 DEF Chatter, LineTypeOK
<1>3. CASE Unplug
  <2>1. modem' \in [plugged : BOOLEAN, chatter : Nat]
    BY <1>3 DEF Unplug, LineTypeOK
  <2>2. QED BY <1>3, <2>1 DEF Unplug, LineTypeOK
<1>4. QED BY <1>1, <1>2, <1>3 DEF Modem

\* The worker's steps outside a transaction, and those that only end or begin one.
LEMMA LineBetween ==
  LineTypeOK /\ (\/ LateQuiet \/ Recv \/ IdleRead \/ Disconnect \/ WorkerClose \/ Skip \/ Begin
                 \/ RefuseFinish \/ RefuseReply \/ Done \/ ProgramError \/ FailFinish \/ FailReply
                 \/ Settle \/ Aborted)
  => LineTypeOK'
<1> SUFFICES ASSUME LineTypeOK,
                    \/ LateQuiet \/ Recv \/ IdleRead \/ Disconnect \/ WorkerClose \/ Skip \/ Begin
                    \/ RefuseFinish \/ RefuseReply \/ Done \/ ProgramError \/ FailFinish \/ FailReply
                    \/ Settle \/ Aborted
             PROVE  LineTypeOK'
  OBVIOUS
<1>0. <<>> \in Seq(LineSet)
  OBVIOUS
<1>1. CASE LateQuiet
  BY <1>0, <1>1, NewLocals DEF LateQuiet, LineTypeOK, SyncSet
<1>2. CASE IdleRead
  <2>1. sync' \in SyncSet
    BY <1>2 DEF IdleRead, Seen, LineTypeOK, SyncSet
  <2>2. QED BY <1>0, <1>2, <2>1 DEF IdleRead, LineTypeOK, SyncSet
<1>3. CASE Done
  BY <1>0, <1>3, NewLocals DEF Done, LineTypeOK, TxnSet
<1>4. CASE FailReply
  <2>1. sync' \in SyncSet
    BY <1>4 DEF FailReply, LineTypeOK, SyncSet
  <2>2. QED BY <1>4, <2>1, NewLocals DEF FailReply, LineTypeOK, TxnSet, SyncSet, line
<1>5. CASE Recv \/ Disconnect \/ WorkerClose \/ Skip \/ Begin \/ RefuseFinish \/ RefuseReply
           \/ ProgramError \/ FailFinish \/ Settle \/ Aborted
  <2>1. UNCHANGED line /\ UNCHANGED sync /\ (txn' = txn \/ txn' = NewTxn)
    BY <1>5 DEF Recv, Disconnect, WorkerClose, Skip, Begin, RefuseFinish, RefuseReply,
                ProgramError, FailFinish, Settle, Aborted
  <2>2. QED BY <2>1, LineStutter
<1>6. QED BY <1>1, <1>2, <1>3, <1>4, <1>5

\* What the worker writes is owed by the modem; ESC turns a shown prompt into a debt.
LEMMA OwedTypes ==
  ASSUME NEW o \in OwedSet, NEW c \in Nat, NEW prompt
  PROVE  Sent(o, c, prompt) \in OwedSet /\ Escaped(o) \in OwedSet
BY DEF Sent, Escaped, OwedSet

LEMMA FailingTypes ==
  ASSUME LineTypeOK, NEW error \in {"timeout", "io", "overflow"}, NEW flags \in BOOLEAN,
         Failing(error, flags)
  PROVE  txn' \in TxnSet /\ sync' = sync
BY DEF Failing, LineTypeOK, TxnSet

\* A program's step.
LEMMA LineProgram ==
  LineTypeOK /\ (ProgramFinish \/ ProgramFail \/ ProgramWait \/ \E prompt \in BOOLEAN : ProgramCommand(prompt))
  => LineTypeOK'
<1> SUFFICES ASSUME LineTypeOK,
                    ProgramFinish \/ ProgramFail \/ ProgramWait \/ \E prompt \in BOOLEAN : ProgramCommand(prompt)
             PROVE  LineTypeOK'
  OBVIOUS
<1>1. txn \in TxnSet /\ txn.actions + 1 \in Nat
  BY DEF LineTypeOK, TxnSet
<1>2. txn' \in TxnSet /\ UNCHANGED line /\ UNCHANGED sync
  <2>1. CASE ProgramFinish \/ ProgramFail \/ ProgramWait
    BY <1>1, <2>1 DEF ProgramFinish, ProgramFail, ProgramWait, Act, TxnSet
  <2>2. ASSUME NEW prompt \in BOOLEAN, ProgramCommand(prompt)
        PROVE  txn' \in TxnSet /\ UNCHANGED line /\ UNCHANGED sync
    BY <1>1, <2>2 DEF ProgramCommand, TxnSet
  <2>3. QED BY <2>1, <2>2
<1>3. QED BY <1>2 DEF LineTypeOK, line, TxnSet

\* The exchange of a command, up to its reply or its failure.
LEMMA LineExchange ==
  SchedTypeOK /\ InHand /\ LineTypeOK
  /\ (DelayEnd \/ DelayFail \/ Write \/ WriteFail \/ ReplyTimeout \/ ReplyOverflow \/ ReplyIo)
  => LineTypeOK'
<1> SUFFICES ASSUME SchedTypeOK, InHand, LineTypeOK,
                    DelayEnd \/ DelayFail \/ Write \/ WriteFail \/ ReplyTimeout \/ ReplyOverflow \/ ReplyIo
             PROVE  LineTypeOK'
  OBVIOUS
<1>0. /\ <<>> \in Seq(LineSet) /\ txn \in TxnSet /\ owed \in OwedSet /\ sync \in SyncSet
      /\ sentBy \in Seq(Jobs) /\ wire \in Seq(LineSet) /\ decoder \in Seq(LineSet)
      /\ modem \in [plugged : BOOLEAN, chatter : Nat] /\ decoder \o wire \in Seq(LineSet)
  BY ConcatProperties DEF LineTypeOK, TxnSet, OwedSet, SyncSet
<1>1. CASE DelayEnd
  BY <1>0, <1>1 DEF DelayEnd, LineTypeOK
<1>2. CASE DelayFail
  BY <1>0, <1>2, FailingTypes DEF DelayFail, LineTypeOK, TxnSet
<1>3. ASSUME Write \/ WriteFail
      PROVE  /\ sentBy' \in Seq(Jobs) /\ Len(sentBy') \in Nat
             /\ Sent(owed, Len(sentBy'), txn.prompt) \in OwedSet
  <2>1. job \in Jobs /\ sentBy' = Append(sentBy, job)
    BY <1>3 DEF Write, WriteFail, SchedTypeOK, InHand
  <2>2. QED BY <1>0, <2>1, AppendProperties, LenProperties, OwedTypes
<1>4. CASE Write
  BY <1>0, <1>3, <1>4 DEF Write, LineTypeOK, OwedSet
<1>5. CASE WriteFail
  <2>1. txn' \in TxnSet /\ sync' = sync
    BY <1>5, FailingTypes DEF WriteFail
  <2>2. owed' \in OwedSet /\ decoder' = <<>> /\ UNCHANGED <<wire, modem>>
    BY <1>0, <1>3, <1>5 DEF WriteFail
  <2>3. QED BY <1>0, <1>3, <1>5, <2>1, <2>2 DEF LineTypeOK, TxnSet, OwedSet
<1>6. CASE ReplyTimeout \/ ReplyOverflow
  <2>1. txn' \in TxnSet /\ sync' = sync
    BY <1>6, FailingTypes DEF ReplyTimeout, ReplyOverflow
  <2>2. owed' \in OwedSet
    BY <1>0, <1>6, OwedTypes DEF ReplyTimeout, ReplyOverflow, Escape
  <2>3. wire' \in Seq(LineSet) /\ decoder' \in Seq(LineSet) /\ UNCHANGED <<sentBy, modem>>
    <3>1. CASE ReplyTimeout
      BY <1>0, <3>1 DEF ReplyTimeout
    <3>2. CASE ReplyOverflow
      <4>1. ASSUME NEW n \in DOMAIN wire PROVE SubSeq(wire, n + 1, Len(wire)) \in Seq(LineSet)
        <5>1. /\ n + 1 \in Int /\ Len(wire) \in Int /\ DOMAIN wire = 1..Len(wire)
              /\ n \in 1..Len(wire)
          BY <1>0, <4>1, LenProperties
        <5>2. \A i \in (n + 1)..Len(wire) : wire[i] \in LineSet
          BY <1>0, <5>1, ElementOfSeq
        <5>3. QED BY <5>1, <5>2, SubSeqProperties
      <4>2. QED BY <1>0, <3>2, <4>1 DEF ReplyOverflow
    <3>3. QED BY <1>6, <3>1, <3>2
  <2>4. QED BY <1>0, <2>1, <2>2, <2>3 DEF LineTypeOK, TxnSet, OwedSet
<1>7. CASE ReplyIo
  <2>1. txn' \in TxnSet /\ sync' = sync
    BY <1>7, FailingTypes DEF ReplyIo
  <2>2. QED BY <1>0, <1>7, <2>1 DEF ReplyIo, LineTypeOK, TxnSet, line
<1>8. QED BY <1>1, <1>2, <1>4, <1>5, <1>6, <1>7

\* A nonempty set of positions has a first one.
LEMMA FirstOf == ASSUME NEW E, E \subseteq Nat, E # {} PROVE \E i \in E : \A k \in E : i <= k
<1>1. \E x \in E : \A y \in E : ~ (<<y, x>> \in OpToRel(<, Nat))
  BY WFMin, NatLessThanWellFounded
<1>2. PICK x \in E : \A y \in E : ~ (<<y, x>> \in OpToRel(<, Nat))
  BY <1>1
<1>3. ASSUME NEW y \in E, y < x PROVE FALSE
  <2>1. <<y, x>> \in Nat \X Nat /\ <<y, x>>[1] < <<y, x>>[2]
    BY <1>3
  <2>2. <<y, x>> \in {p \in Nat \X Nat : p[1] < p[2]}
    BY <2>1, Zenon
  <2>3. QED BY <1>2, <2>2 DEF OpToRel
<1>4. QED BY <1>3

LEMMA LineReadReply == LineTypeOK /\ ReadReply => LineTypeOK'
<1> SUFFICES ASSUME LineTypeOK, ReadReply PROVE LineTypeOK'
  OBVIOUS
<1> DEFINE lines == decoder \o wire
           ends  == {i \in DOMAIN lines : EndsStep(lines[i])}
           at    == CHOOSE i \in ends : \A k \in ends : i <= k
<1>0. /\ lines \in Seq(LineSet) /\ Len(lines) \in Nat /\ DOMAIN lines = 1..Len(lines)
      /\ \A i \in 1..Len(lines) : lines[i] \in LineSet
  <2>1. lines \in Seq(LineSet)
    BY ConcatProperties DEF LineTypeOK
  <2> HIDE DEF lines
  <2>2. QED BY <2>1, LenProperties, ElementOfSeq
<1>1. /\ wire' = <<>> /\ UNCHANGED <<sync, owed, sentBy, modem>>
      /\ \/ decoder' = <<>> /\ txn' = txn
         \/ /\ ends # {} /\ decoder' = SubSeq(lines, at + 1, Len(lines))
            /\ txn' = [txn EXCEPT !.ok = @ /\ lines[at].kind # "error",
                                  !.replies = Append(@, [sent |-> Len(sentBy), got |-> lines[at].cmd,
                                                         kind |-> lines[at].kind])]
  BY DEF ReadReply
<1>2. CASE decoder' = <<>> /\ txn' = txn
  BY <1>1, <1>2 DEF LineTypeOK
<1>3. CASE /\ ends # {} /\ decoder' = SubSeq(lines, at + 1, Len(lines))
           /\ txn' = [txn EXCEPT !.ok = @ /\ lines[at].kind # "error",
                                 !.replies = Append(@, [sent |-> Len(sentBy), got |-> lines[at].cmd,
                                                        kind |-> lines[at].kind])]
  <2>1. at \in ends
    <3>0. ends \subseteq DOMAIN lines
      OBVIOUS
    <3>1. ends \subseteq Nat /\ ends # {}
      <4>1. 1..Len(lines) \subseteq Nat
        BY <1>0
      <4>2. ends # {}
        BY <1>3
      <4> HIDE DEF ends, lines
      <4>3. QED BY <1>0, <3>0, <4>1, <4>2
    <3> HIDE DEF lines
    <3> HIDE DEF ends
    <3>2. \E i \in ends : \A k \in ends : i <= k
      BY <3>1, FirstOf
    <3>3. QED BY <3>2
  <2>2. at \in 1..Len(lines) /\ lines[at] \in LineSet
    BY <1>0, <2>1
  <2> DEFINE new == [sent |-> Len(sentBy), got |-> lines[at].cmd, kind |-> lines[at].kind]
  <2>3. new \in [sent : Nat, got : Nat, kind : Kinds]
    BY <2>2, LenProperties DEF LineSet, LineTypeOK
  <2>4. decoder' \in Seq(LineSet)
    <3> HIDE DEF lines, at, ends
    <3>1. at + 1 \in Int /\ Len(lines) \in Int /\ \A i \in (at + 1)..Len(lines) : lines[i] \in LineSet
      BY <1>0, <2>2
    <3>2. SubSeq(lines, at + 1, Len(lines)) \in Seq(LineSet)
      BY <3>1, SubSeqProperties
    <3>3. QED BY <1>3, <3>2 DEF lines, at, ends
  <2>5. txn' \in TxnSet
    <3>1. (txn.ok /\ lines[at].kind # "error") \in BOOLEAN /\ txn \in TxnSet
      BY DEF LineTypeOK, TxnSet
    <3>2. Append(txn.replies, new) \in Seq([sent : Nat, got : Nat, kind : Kinds])
      BY <2>3, AppendProperties DEF LineTypeOK
    <3> HIDE DEF new, at, lines, ends
    <3>3. txn' = [txn EXCEPT !.ok = txn.ok /\ lines[at].kind # "error", !.replies = Append(txn.replies, new)]
      BY <1>3 DEF new, at, lines, ends
    <3>4. QED BY <3>1, <3>2, <3>3 DEF TxnSet
  <2>6. wire' \in Seq(LineSet) /\ UNCHANGED <<sync, owed, sentBy, modem>>
    <3>1. <<>> \in Seq(LineSet)
      OBVIOUS
    <3>2. QED BY <1>1, <3>1
  <2> HIDE DEF lines, at, ends
  <2>7. QED BY <2>4, <2>5, <2>6 DEF LineTypeOK, TxnSet
<1>4. QED BY <1>1, <1>2, <1>3

LEMMA LineRecovery == LineTypeOK /\ (RecoverRead \/ RecoverEnd) => LineTypeOK'
<1> SUFFICES ASSUME LineTypeOK, RecoverRead \/ RecoverEnd PROVE LineTypeOK'
  OBVIOUS
<1>1. txn \in TxnSet /\ sync \in SyncSet
  BY DEF LineTypeOK, TxnSet, SyncSet
<1>2. CASE RecoverRead
  <2>1. txn' \in TxnSet
    BY <1>1, <1>2 DEF RecoverRead, TxnSet
  <2>2. sync' \in SyncSet
    <3>1. sync' = sync \/ sync' = [on |-> FALSE, pending |-> TRUE, late |-> FALSE]
      BY <1>2 DEF RecoverRead, SettleAs
    <3>2. [on |-> FALSE, pending |-> TRUE, late |-> FALSE] \in SyncSet
      BY DEF SyncSet
    <3>3. QED BY <1>1, <3>1, <3>2
  <2>3. QED BY <1>2, <2>1, <2>2 DEF RecoverRead, LineTypeOK, TxnSet, SyncSet
<1>3. CASE RecoverEnd
  <2>1. sync' \in SyncSet
    BY <1>1, <1>3 DEF RecoverEnd, SettleAs, SyncSet, TxnSet, LineTypeOK
  <2>2. QED BY <1>3, <2>1 DEF RecoverEnd, LineTypeOK, SyncSet, line
<1>4. QED BY <1>2, <1>3

-----------------------------------------------------------------------------
(* The theorems.                                                             *)

\* The inductive invariant: scheduling and types (a failed transaction's error is an answer).
PortInv == SchedInv /\ LineTypeOK

LEMMA PortStep == PortInv /\ [Next]_vars => PortInv'
<1> SUFFICES ASSUME SchedInv, LineTypeOK, [Next]_vars PROVE PortInv'
  BY DEF PortInv
<1>0. TypeOK /\ SchedTypeOK /\ InHand
  BY DEF SchedInv, TypeOK
<1>1. CASE Callers \/ Close
  BY <1>1, CallersInv, CloseInv, LineCallersClose DEF PortInv
<1>2. CASE Modem
  BY <1>2, ModemStutters, SchedStutter, LineModem DEF PortInv
<1>3. CASE Recv \/ WorkerClose \/ Skip \/ Begin \/ RefuseFinish \/ RefuseReply \/ Done
           \/ ProgramError \/ FailFinish \/ FailReply \/ Aborted
  BY <1>0, <1>3, RecvInv, BeginsInv, FinishInv, FailReplyInv, EndInv, LineBetween DEF PortInv
<1>4. CASE LateQuiet \/ IdleRead \/ Disconnect \/ Settle
  BY <1>4, BetweenMoves, WorkerMovesInv, LineBetween DEF PortInv
<1>5. CASE RecoverRead \/ RecoverEnd
  BY <1>5, BetweenMoves, WorkerMovesInv, LineRecovery DEF PortInv
<1>6. CASE ProgramFinish \/ ProgramFail \/ ProgramWait \/ \E prompt \in BOOLEAN : ProgramCommand(prompt)
  BY <1>6, TransactionMoves, WorkerMovesInv, LineProgram DEF PortInv
<1>7. CASE DelayEnd \/ DelayFail \/ Write \/ WriteFail \/ ReplyTimeout \/ ReplyOverflow \/ ReplyIo
  BY <1>0, <1>7, TransactionMoves, WorkerMovesInv, LineExchange DEF PortInv
<1>8. CASE ReadReply
  BY <1>8, TransactionMoves, WorkerMovesInv, LineReadReply DEF PortInv
<1>9. CASE UNCHANGED vars
  <2>1. UNCHANGED sched /\ UNCHANGED line /\ UNCHANGED sync /\ txn' = txn
    BY <1>9 DEF vars, sched, line
  <2>2. QED BY <2>1, SchedStutter, LineStutter DEF PortInv
<1>10. QED
  BY <1>1, <1>2, <1>3, <1>4, <1>5, <1>6, <1>7, <1>8, <1>9 DEF Next, Worker

LEMMA PortInvariant == Spec => []PortInv
<1>1. Init => PortInv
  BY SchedInit, LineInit DEF PortInv
<1>2. QED BY <1>1, PortStep, PTL DEF Spec

\* Every variable of the port keeps its type, for any number of jobs, any capacity, any modem.
THEOREM TypeCorrect == Spec => []TypeOK
<1>1. PortInv => TypeOK
  BY DEF PortInv, SchedInv, TypeOK
<1>2. QED BY <1>1, PortInvariant, PTL

\* The list submit() and begin() keep is the channel's content, plus the job just received.
THEOREM WaitingListIsTheChannel == Spec => []WaitingIsChannel
<1>1. PortInv => WaitingIsChannel
  BY DEF PortInv, SchedInv
<1>2. QED BY <1>1, PortInvariant, PTL

\* The counters of the Monitor lose no id and count none twice.
THEOREM JobsAccounted == Spec => []Accounted
<1>1. PortInv => Accounted
  BY DEF PortInv, SchedInv
<1>2. QED BY <1>1, PortInvariant, PTL

\* A port that accepts jobs has a worker to serve them.
THEOREM AcceptingPortHasWorker == Spec => []AcceptingHasWorker
<1>1. PortInv => AcceptingHasWorker
  BY DEF PortInv, SchedInv
<1>2. QED BY <1>1, PortInvariant, PTL

\* What freeze() saw stays true until close() has aborted the worker.
THEOREM ClosedPortIsEmpty == Spec => []ClosedIsEmpty
<1>1. PortInv => ClosedIsEmpty
  BY DEF PortInv, SchedInv
<1>2. QED BY <1>1, PortInvariant, PTL

\* close() aborts the worker only when it holds no job, and changes no caller's answer: an
\* accepted job is never dropped.
THEOREM CloseDropsNothing == Spec => CloseDropsNoJob
<1>1. PortInv /\ [Next]_vars => [Abort => job = None /\ Len(chan) = 0 /\ reply' = reply]_vars
  <2> SUFFICES ASSUME PortInv, Next, Abort PROVE job = None /\ Len(chan) = 0 /\ reply' = reply
    BY DEF vars
  <2>1. Aborted
    BY DEF Abort, Awaiting, Next, Worker, Callers, Close, Modem, LateQuiet, Recv, IdleRead, Disconnect,
           WorkerClose, Skip, Begin, RefuseFinish, RefuseReply, ProgramFinish, ProgramFail, ProgramWait,
           ProgramCommand, Act, DelayEnd, DelayFail, Write, WriteFail, Failing, ReadReply, ReplyTimeout,
           ReplyOverflow, ReplyIo, Done, ProgramError, FailFinish, FailReply, RecoverRead, RecoverEnd,
           SettleAs, Settle, Accept, RejectFull, Leave, Freeze, TakeTask, Join, MarkClosed, DropClose,
           Answer, Chatter, Unplug
  <2>2. /\ pc \in Awaiting /\ pc \notin Running /\ chan = <<>> /\ job = None
        /\ reply' = Dropped(Range(chan) \cup ({job} \ {None}))
    BY <2>1 DEF Aborted, Awaiting, PortInv, SchedInv, InHand, ClosedIsEmpty, WaitingIsChannel, Running
  <2>3. Range(chan) \cup ({job} \ {None}) = {}
    BY <2>2 DEF Range
  <2>4. reply' = reply
    BY <2>2, <2>3 DEF Dropped, PortInv, SchedInv, SchedTypeOK
  <2>5. QED BY <2>2, <2>4
<1>2. QED BY <1>1, PortInvariant, PTL DEF Spec, CloseDropsNoJob

-----------------------------------------------------------------------------
(* Whose lines are read.  The modem owes one final line at most, and it is   *)
(* that of the last command; so the worker knows from what it has read when  *)
(* nothing is owed any more, which is when it may write the next command.    *)

\* The lines sent and not consumed.
Heard == Range(decoder \o wire)
Chatted == \A l \in Heard : l.kind = "urc"
Clear == owed = {} /\ Chatted

\* What is owed or unread is of the last command, and one final line at most.
Debt ==
  /\ \A l \in Heard : l.kind # "urc" => l.cmd = Len(sentBy)
  /\ \A d \in owed : d.asks # "shown" => d.cmd = Len(sentBy)
  /\ \A l \in Heard : Final(l) => owed = {}
  /\ \A d, e \in owed : d = e

Transacting == {"next", "delay", "write", "reply", "done", "program_error", "fail", "failed"}

\* A worker that takes its port as synchronized, or is about to, has nothing more to hear.
Synchronized ==
  /\ sync.late \/ sync.pending => ~sync.on
  /\ pc \in Transacting => sync.on
  /\ sync.on /\ pc \notin Transacting \cup {"dead"} => Clear
  /\ sync.late => Clear
  /\ pc = "recover" /\ txn.terminal => Clear

OneAnswer ==
  \A i, j \in DOMAIN (decoder \o wire) :
    (decoder \o wire)[i].kind # "urc" /\ (decoder \o wire)[j].kind # "urc" => i = j

\* Within a transaction, all that is owed between two commands is a prompt's payload.
Exchanged ==
  /\ pc \in {"delay", "done", "program_error"} => Clear
  /\ pc = "next" => /\ Chatted /\ \A d \in owed : d.asks = "shown"
                    /\ ~AfterPrompt => owed = {}
  /\ pc = "write" => Chatted /\ \A d \in owed : d.asks = "shown"
  /\ pc = "reply" => /\ \A d \in owed : d.cmd = Len(sentBy)
                     /\ \A l \in Heard : l.kind = "prompt" => \A d \in owed : d.asks = "shown"
                     /\ OneAnswer

ReplyInv == Debt /\ Synchronized /\ Exchanged /\ NoForeignReply

replyVars == <<pc, txn, sync, wire, decoder, owed, sentBy>>

LEMMA HeardIs ==
  ASSUME NEW d \in Seq(LineSet), NEW w \in Seq(LineSet)
  PROVE  Range(d \o w) = Range(d) \cup Range(w)
BY RangeConcatenation

LEMMA HeardEmpty == Range(<<>> \o <<>>) = {} /\ Range(<<>>) = {}
<1>1. <<>> \in Seq(LineSet) /\ <<>> \o <<>> = <<>>
  BY ConcatEmptySeq
<1>2. Range(<<>>) = {}
  BY DEF Range
<1>3. QED BY <1>1, <1>2

LEMMA ReplyInit == Init => ReplyInv
<1> SUFFICES ASSUME Init PROVE ReplyInv
  OBVIOUS
<1>1. Heard = {} /\ owed = {}
  BY HeardEmpty DEF Init, Heard
<1>2. Clear /\ Debt
  BY <1>1 DEF Clear, Chatted, Debt
<1>3. Synchronized /\ Exchanged
  BY <1>2 DEF Init, Synchronized, Exchanged, Transacting, NewSync
<1>4. NoForeignReply
  BY DEF Init, NewTxn, NoForeignReply
<1>5. QED BY <1>2, <1>3, <1>4 DEF ReplyInv

LEMMA SameLine ==
  ASSUME UNCHANGED line
  PROVE  /\ Debt => Debt'
         /\ Clear' = Clear /\ Chatted' = Chatted /\ OneAnswer' = OneAnswer
         /\ Heard' = Heard /\ owed' = owed /\ sentBy' = sentBy
BY DEF line, Debt, Clear, Chatted, OneAnswer, Heard

LEMMA ReplyStutter == ReplyInv /\ UNCHANGED replyVars => ReplyInv'
BY DEF ReplyInv, replyVars, Debt, Clear, Chatted, OneAnswer, Heard, Synchronized, Exchanged,
       NoForeignReply, AfterPrompt

\* The worker's steps that leave the line alone.
LEMMA ReplyMoves ==
  ASSUME ReplyInv,
         \/ Recv \/ Disconnect \/ WorkerClose \/ Skip \/ Begin \/ RefuseFinish \/ RefuseReply
         \/ ProgramError \/ FailFinish \/ FailReply \/ Settle \/ Aborted
  PROVE  ReplyInv'
<1>0. UNCHANGED line
  BY DEF Recv, Disconnect, WorkerClose, Skip, Begin, RefuseFinish, RefuseReply, ProgramError,
         FailFinish, FailReply, Settle, Aborted
<1>1. Debt' /\ Clear' = Clear
  BY <1>0, SameLine DEF ReplyInv
<1>2. txn' \in {txn, NewTxn}
  BY DEF Recv, Disconnect, WorkerClose, Skip, Begin, RefuseFinish, RefuseReply, ProgramError,
         FailFinish, FailReply, Settle, Aborted
<1>3. NoForeignReply'
  BY <1>2 DEF NoForeignReply, NewTxn, ReplyInv
<1>4. CASE Recv \/ Disconnect \/ WorkerClose \/ Skip
  <2>1. /\ pc \notin Transacting \cup {"dead"} /\ sync' = sync
        /\ pc' \in {"skip", "begin", "closing", "dead", "select"}
    BY <1>4 DEF Recv, Disconnect, WorkerClose, Skip, Transacting
  <2>2. QED BY <1>1, <1>3, <2>1 DEF ReplyInv, Synchronized, Exchanged, Transacting
<1>5. CASE Begin
  <2>1. pc = "begin" /\ sync' = sync /\ pc' = IF sync.on THEN "next" ELSE "refuse"
    BY <1>5 DEF Begin
  <2>2. sync.on => Clear
    BY <2>1 DEF ReplyInv, Synchronized, Transacting
  <2>3. Clear' => Chatted' /\ owed' = {}
    BY DEF Clear
  <2>4. QED BY <1>1, <1>3, <2>1, <2>2, <2>3 DEF ReplyInv, Synchronized, Exchanged, Transacting
<1>6. CASE RefuseFinish \/ RefuseReply \/ Settle
  <2>1. /\ pc \in {"refuse", "refused", "settle"} /\ sync' = sync /\ pc' \in {"refused", "select"}
    BY <1>6 DEF RefuseFinish, RefuseReply, Settle
  <2>2. QED BY <1>1, <1>3, <2>1 DEF ReplyInv, Synchronized, Exchanged, Transacting
<1>7. CASE ProgramError
  <2>1. pc = "program_error" /\ sync' = sync /\ pc' = "select"
    BY <1>7 DEF ProgramError
  <2>2. QED BY <1>1, <1>3, <2>1 DEF ReplyInv, Synchronized, Exchanged, Transacting
<1>8. CASE FailFinish
  <2>1. pc = "fail" /\ sync' = sync /\ pc' = "failed"
    BY <1>8 DEF FailFinish
  <2>2. QED BY <1>1, <1>3, <2>1 DEF ReplyInv, Synchronized, Exchanged, Transacting
<1>9. CASE FailReply
  <2>1. /\ pc' \in {"recover", "settle"} /\ txn' = NewTxn
        /\ sync' = [on |-> FALSE, pending |-> txn.flags, late |-> FALSE]
    BY <1>9 DEF FailReply
  <2>2. QED BY <1>1, <1>3, <2>1 DEF ReplyInv, Synchronized, Exchanged, Transacting, NewTxn
<1>10. CASE Aborted
  <2>1. pc' = "dead" /\ sync' = sync
    BY <1>10 DEF Aborted
  <2>2. QED BY <1>1, <1>3, <2>1 DEF ReplyInv, Synchronized, Exchanged, Transacting
<1>11. QED BY <1>4, <1>5, <1>6, <1>7, <1>8, <1>9, <1>10

\* A program's step writes nothing yet.
LEMMA ReplyProgram ==
  ASSUME ReplyInv, LineTypeOK,
         ProgramFinish \/ ProgramFail \/ ProgramWait \/ \E prompt \in BOOLEAN : ProgramCommand(prompt)
  PROVE  ReplyInv'
<1>0. UNCHANGED line /\ pc = "next" /\ sync' = sync
  BY DEF ProgramFinish, ProgramFail, ProgramWait, ProgramCommand, Act
<1>1. Debt' /\ Clear' = Clear /\ Chatted' = Chatted /\ owed' = owed
  BY <1>0, SameLine DEF ReplyInv
<1>2. txn'.replies = txn.replies
  BY DEF ProgramFinish, ProgramFail, ProgramWait, ProgramCommand, Act, LineTypeOK
<1>3. NoForeignReply'
  BY <1>2 DEF NoForeignReply, ReplyInv
<1>4. CASE ProgramFinish \/ ProgramFail \/ ProgramWait
  <2>1. pc' \in {"done", "program_error", "delay"} /\ ~AfterPrompt
    BY <1>4 DEF ProgramFinish, ProgramFail, ProgramWait, Act
  <2>2. Clear
    BY <1>0, <2>1 DEF ReplyInv, Exchanged, Clear
  <2>3. QED BY <1>0, <1>1, <1>3, <2>1, <2>2 DEF ReplyInv, Synchronized, Exchanged, Transacting
<1>5. CASE \E prompt \in BOOLEAN : ProgramCommand(prompt)
  <2>1. pc' = "write"
    BY <1>5 DEF ProgramCommand
  <2>2. QED BY <1>0, <1>1, <1>3, <2>1 DEF ReplyInv, Synchronized, Exchanged, Transacting
<1>6. QED BY <1>4, <1>5

-----------------------------------------------------------------------------
(* Steps that read.                                                          *)

\* Less is unread, and nothing more is owed.
LEMMA LessHeard ==
  ASSUME UNCHANGED <<owed, sentBy>>, Heard' \subseteq Heard
  PROVE  (Debt => Debt') /\ (Clear => Clear') /\ (Chatted => Chatted')
BY DEF Debt, Clear, Chatted, Final

\* What a final line tells: that nothing else is owed.
LEMMA FinalClears ==
  ASSUME Debt, NEW l \in Heard, Final(l), owed' = owed, Heard' = {}
  PROVE  Clear'
BY DEF Debt, Clear, Chatted

LEMMA ReplyBetween ==
  ASSUME ReplyInv, LineTypeOK, LateQuiet \/ IdleRead \/ DelayEnd \/ DelayFail \/ Done
  PROVE  ReplyInv'
<1>0. /\ UNCHANGED <<owed, sentBy>> /\ decoder' = <<>> /\ wire' \in {wire, <<>>}
      /\ txn'.replies = txn.replies \/ txn' = NewTxn
  BY DEF LateQuiet, IdleRead, DelayEnd, DelayFail, Done, Failing, line, LineTypeOK
<1>1. Heard' \subseteq Heard
  <2>1. Heard = Range(decoder) \cup Range(wire)
    BY HeardIs DEF Heard, LineTypeOK
  <2>2. Heard' = Range(wire')
    <3>1. decoder' \in Seq(LineSet) /\ wire' \in Seq(LineSet)
      <4>1. wire \in Seq(LineSet) /\ <<>> \in Seq(LineSet)
        BY DEF LineTypeOK
      <4>2. QED BY <1>0, <4>1
    <3>2. Heard' = Range(decoder') \cup Range(wire')
      BY <3>1, HeardIs DEF Heard
    <3>3. QED BY <1>0, <3>2, HeardEmpty
  <2>3. QED BY <1>0, <2>1, <2>2, HeardEmpty
<1>2. Debt' /\ (Clear => Clear') /\ (Chatted => Chatted')
  BY <1>0, <1>1, LessHeard DEF ReplyInv
<1>3. NoForeignReply'
  BY <1>0 DEF NoForeignReply, NewTxn, ReplyInv
<1>4. CASE LateQuiet
  <2>1. pc = "select" /\ sync.late /\ sync' = NewSync /\ pc' = pc
    BY <1>4 DEF LateQuiet
  <2>2. Clear'
    BY <1>2, <2>1 DEF ReplyInv, Synchronized
  <2>3. QED BY <1>2, <1>3, <2>1, <2>2 DEF ReplyInv, Synchronized, Exchanged, Transacting, NewSync
<1>5. CASE IdleRead
  <2>1. /\ pc = "select" /\ pc' = pc /\ Heard' = {}
    BY <1>5, HeardEmpty DEF IdleRead, Heard
  <2>2. PICK lines \in Seen(<<>>) :
          sync' = [sync EXCEPT !.late = @ \/ (sync.pending /\ \E l \in Range(lines) : Final(l))]
    BY <1>5 DEF IdleRead
  <2>3. Range(lines) \subseteq Heard
    BY HeardEmpty DEF Seen, Heard
  <2>4. /\ sync'.on = sync.on /\ sync'.pending = sync.pending
        /\ sync'.late => sync.late \/ (sync.pending /\ \E l \in Range(lines) : Final(l))
    BY <2>2 DEF LineTypeOK
  <2>5. sync'.late => Clear'
    <3>1. (\E l \in Range(lines) : Final(l)) => Clear'
      BY <2>1, <2>3, <1>0, FinalClears DEF ReplyInv
    <3>2. QED BY <3>1, <2>4, <1>2 DEF ReplyInv, Synchronized
  <2>6. QED BY <1>2, <1>3, <2>1, <2>4, <2>5 DEF ReplyInv, Synchronized, Exchanged, Transacting
<1>6. CASE DelayEnd
  <2>1. pc = "delay" /\ pc' = "next" /\ sync' = sync
    BY <1>6 DEF DelayEnd
  <2>2. Clear'
    BY <1>2, <2>1 DEF ReplyInv, Exchanged
  <2>3. Chatted' /\ owed' = {}
    BY <2>2 DEF Clear
  <2>4. QED BY <1>2, <1>3, <2>1, <2>2, <2>3 DEF ReplyInv, Synchronized, Exchanged, Transacting
<1>7. CASE DelayFail
  <2>1. pc = "delay" /\ pc' = "fail" /\ sync' = sync
    BY <1>7 DEF DelayFail, Failing
  <2>2. QED BY <1>2, <1>3, <2>1 DEF ReplyInv, Synchronized, Exchanged, Transacting
<1>8. CASE Done
  <2>1. pc = "done" /\ pc' = "select" /\ sync' = sync
    BY <1>8 DEF Done
  <2>2. QED BY <1>2, <1>3, <2>1 DEF ReplyInv, Synchronized, Exchanged, Transacting
<1>9. QED BY <1>4, <1>5, <1>6, <1>7, <1>8

\* Recovery ends with a synchronized port only when it has read the one final line.
LEMMA ReplyRecovery ==
  ASSUME ReplyInv, LineTypeOK, RecoverRead \/ RecoverEnd
  PROVE  ReplyInv'
<1>1. CASE RecoverRead
  <2>1. /\ UNCHANGED <<owed, sentBy>> /\ Heard' = {} /\ pc = "recover"
        /\ (pc' = pc /\ sync' = sync) \/ (pc' = "settle" /\ sync' = [on |-> FALSE, pending |-> ~FALSE, late |-> FALSE])
    BY <1>1, HeardEmpty DEF RecoverRead, SettleAs, Heard
  <2>2. Debt' /\ (Clear => Clear')
    BY <2>1, LessHeard DEF ReplyInv
  <2>3. PICK lines \in Seen(decoder) :
          txn' = [txn EXCEPT !.terminal = @ \/ \E l \in Range(lines) : Final(l)]
    BY <1>1 DEF RecoverRead
  <2>4. Range(lines) \subseteq Heard
    <3>1. Heard = Range(decoder) \cup Range(wire)
      BY HeardIs DEF Heard, LineTypeOK
    <3>2. QED BY <3>1 DEF Seen, Heard
  <2>5. /\ txn'.replies = txn.replies
        /\ txn'.terminal => txn.terminal \/ \E l \in Range(lines) : Final(l)
    BY <2>3 DEF LineTypeOK
  <2>6. txn'.terminal => Clear'
    <3>1. (\E l \in Range(lines) : Final(l)) => Clear'
      BY <2>1, <2>4, FinalClears DEF ReplyInv
    <3>2. QED BY <3>1, <2>1, <2>2, <2>5 DEF ReplyInv, Synchronized
  <2>7. NoForeignReply'
    BY <2>1, <2>5 DEF NoForeignReply, ReplyInv
  <2>8. Synchronized' /\ Exchanged'
    BY <2>1, <2>2, <2>6 DEF ReplyInv, Synchronized, Exchanged, Transacting
  <2>9. QED BY <2>2, <2>7, <2>8 DEF ReplyInv
<1>2. CASE RecoverEnd
  <2>1. /\ pc = "recover" /\ pc' = "settle" /\ txn' = txn /\ UNCHANGED line
        /\ sync'.on => txn.terminal
        /\ sync'.late = FALSE /\ sync'.pending = ~sync'.on
    BY <1>2 DEF RecoverEnd, SettleAs
  <2>2. Debt' /\ Clear' = Clear
    BY <2>1, SameLine DEF ReplyInv
  <2>3. NoForeignReply'
    BY <2>1, <2>2 DEF NoForeignReply, ReplyInv
  <2>4. QED BY <2>1, <2>2, <2>3 DEF ReplyInv, Synchronized, Exchanged, Transacting
<1>3. QED BY <1>1, <1>2

-----------------------------------------------------------------------------
(* The exchange of a command.                                                *)

LEMMA HeardWire ==
  ASSUME LineTypeOK, decoder' = <<>>, UNCHANGED wire
  PROVE  Heard' = Range(wire) /\ Heard' \subseteq Heard
<1>1. wire \in Seq(LineSet) /\ decoder \in Seq(LineSet) /\ <<>> \in Seq(LineSet)
  BY DEF LineTypeOK
<1>2. Heard = Range(decoder) \cup Range(wire)
  BY <1>1, HeardIs DEF Heard
<1>3. Heard' = Range(<<>>) \cup Range(wire)
  BY <1>1, HeardIs DEF Heard
<1>4. QED BY <1>2, <1>3, HeardEmpty

\* The command takes the place of a shown prompt.
LEMMA SentAlone ==
  ASSUME NEW n, NEW prompt \in BOOLEAN, \A d \in owed : d.asks = "shown"
  PROVE  Sent(owed, n, prompt) = {[cmd |-> n, asks |-> IF prompt THEN "yes" ELSE "no"]}
BY DEF Sent

\* What follows a line is read as it was sent.
LEMMA RestOf ==
  ASSUME NEW S, NEW s \in Seq(S), NEW n \in DOMAIN s, NEW r, r = SubSeq(s, n + 1, Len(s))
  PROVE  \A i \in DOMAIN r : i \in Nat \ {0} /\ i + n \in DOMAIN s /\ r[i] = s[i + n]
<1>1. n \in Nat /\ n >= 1 /\ n <= Len(s) /\ Len(s) \in Nat /\ DOMAIN s = 1..Len(s)
  BY LenProperties
<1>2. \A i \in (n + 1)..Len(s) : s[i] \in S
  BY <1>1, ElementOfSeq
<1>3. /\ r \in Seq(S) /\ Len(r) = IF n + 1 <= Len(s) THEN Len(s) - (n + 1) + 1 ELSE 0
      /\ \A i \in 1..(Len(s) - (n + 1) + 1) : r[i] = s[(n + 1) + i - 1]
  BY <1>1, <1>2, SubSeqProperties
<1>4. DOMAIN r = 1..(Len(s) - n)
  BY <1>1, <1>3, LenProperties
<1>5. \A i \in 1..(Len(s) - n) : r[i] = s[i + n]
  BY <1>1, <1>3
<1>6. QED BY <1>1, <1>4, <1>5

LEMMA ReplyWrite ==
  ASSUME ReplyInv, LineTypeOK, LineTypeOK', Write \/ WriteFail
  PROVE  ReplyInv'
<1>0. /\ pc = "write" /\ decoder' = <<>> /\ UNCHANGED <<wire, sync>>
      /\ sentBy' = Append(sentBy, job)
      /\ owed' \in {owed, Sent(owed, Len(sentBy'), txn.prompt)}
      /\ txn'.replies = txn.replies
  BY DEF Write, WriteFail, Failing, LineTypeOK
<1>1. Heard' \subseteq Heard
  BY <1>0, HeardWire
<1>2. Chatted /\ \A d \in owed : d.asks = "shown"
  BY <1>0 DEF ReplyInv, Exchanged
<1>3. Chatted'
  BY <1>1, <1>2 DEF Chatted
<1>4. PICK d : d = [cmd |-> Len(sentBy'), asks |-> IF txn.prompt THEN "yes" ELSE "no"]
  OBVIOUS
<1>5. txn.prompt \in BOOLEAN
  BY DEF LineTypeOK
<1>6. owed' = owed \/ owed' = {d}
  BY <1>0, <1>2, <1>4, <1>5, SentAlone
<1>7. d.cmd = Len(sentBy') /\ d.asks # "shown"
  BY <1>4
<1>8. Debt'
  BY <1>2, <1>3, <1>6, <1>7 DEF Debt, Chatted, Final, ReplyInv
<1>9. NoForeignReply'
  BY <1>0 DEF NoForeignReply, ReplyInv
<1>10. CASE Write
  <2>1. pc' = "reply" /\ owed' = {d}
    BY <1>0, <1>2, <1>4, <1>5, <1>10, SentAlone DEF Write
  <2>2. OneAnswer'
    <3>1. \A i \in DOMAIN (decoder' \o wire') : (decoder' \o wire')[i].kind = "urc"
      BY <1>3 DEF Chatted, Heard, Range
    <3>2. QED BY <3>1 DEF OneAnswer
  <2>3. Exchanged'
    BY <1>3, <1>7, <2>1, <2>2 DEF Exchanged, Chatted
  <2>4. Synchronized'
    BY <1>0, <2>1 DEF ReplyInv, Synchronized, Transacting
  <2>5. QED BY <1>8, <1>9, <2>3, <2>4 DEF ReplyInv
<1>11. CASE WriteFail
  <2>1. pc' = "fail"
    BY <1>11 DEF WriteFail, Failing
  <2>2. Exchanged' /\ Synchronized'
    BY <1>0, <2>1 DEF ReplyInv, Exchanged, Synchronized, Transacting
  <2>3. QED BY <1>8, <1>9, <2>2 DEF ReplyInv
<1>12. QED BY <1>10, <1>11

\* A timeout, an overflow or an I/O error: what is unread is left to recovery.
LEMMA ReplyLost ==
  ASSUME ReplyInv, LineTypeOK, LineTypeOK', ReplyTimeout \/ ReplyOverflow \/ ReplyIo
  PROVE  ReplyInv'
<1>0. /\ pc = "reply" /\ pc' = "fail" /\ UNCHANGED <<sync, sentBy>>
      /\ owed' \in {owed, Escaped(owed)}
      /\ txn'.replies = txn.replies
  BY DEF ReplyTimeout, ReplyOverflow, ReplyIo, Failing, Escape, line, LineTypeOK
<1>1. Heard' \subseteq Heard
  <2>1. /\ wire \in Seq(LineSet) /\ decoder \in Seq(LineSet) /\ <<>> \in Seq(LineSet)
        /\ decoder' \in Seq(LineSet) /\ wire' \in Seq(LineSet)
    BY DEF LineTypeOK
  <2>2. Heard = Range(decoder) \cup Range(wire) /\ Heard' = Range(decoder') \cup Range(wire')
    BY <2>1, HeardIs DEF Heard
  <2>3. CASE ReplyTimeout \/ ReplyIo
    BY <2>3 DEF ReplyTimeout, ReplyIo, line, Heard
  <2>4. CASE ReplyOverflow
    <3>1. wire' = <<>>
      BY <2>4 DEF ReplyOverflow
    <3>2. CASE decoder' = <<>>
      BY <3>1, <3>2, <2>2, HeardEmpty
    <3>3. ASSUME NEW n \in DOMAIN wire, decoder' = SubSeq(wire, n + 1, Len(wire))
          PROVE  Heard' \subseteq Heard
      <4>1. \A i \in DOMAIN decoder' : i + n \in DOMAIN wire /\ decoder'[i] = wire[i + n]
        <5>1. PICK r : r = SubSeq(wire, n + 1, Len(wire))
          OBVIOUS
        <5>2. wire \in Seq(LineSet)
          BY <2>1
        <5>3. \A i \in DOMAIN r : i + n \in DOMAIN wire /\ r[i] = wire[i + n]
          BY <5>1, <5>2, RestOf
        <5>4. QED BY <3>3, <5>1, <5>3
      <4>2. Range(decoder') \subseteq Range(wire)
        BY <4>1 DEF Range
      <4>3. QED BY <2>2, <3>1, <4>2, HeardEmpty
    <3>4. QED BY <2>4, <3>2, <3>3 DEF ReplyOverflow
  <2>5. QED BY <2>3, <2>4
<1>2. \A d \in owed : d.cmd = Len(sentBy)
  BY <1>0 DEF ReplyInv, Exchanged
<1>3. /\ \A d \in owed' : d.cmd = Len(sentBy')
      /\ \A d, e \in owed' : d = e
      /\ owed = {} => owed' = {}
  <2>1. \A d, e \in owed : d = e
    BY DEF ReplyInv, Debt
  <2>2. CASE owed' = owed
    BY <1>0, <1>2, <2>1, <2>2
  <2>3. CASE owed' = Escaped(owed)
    <3>1. \A d \in owed : [d EXCEPT !.asks = IF @ = "shown" THEN "no" ELSE @].cmd = d.cmd
      BY DEF LineTypeOK
    <3>2. \A x \in owed' : \E d \in owed : x = [d EXCEPT !.asks = IF @ = "shown" THEN "no" ELSE @]
      BY <2>3 DEF Escaped
    <3>3. \A x \in owed' : x.cmd = Len(sentBy')
      BY <1>0, <1>2, <3>1, <3>2
    <3>4. \A x, y \in owed' : x = y
      BY <2>1, <3>2
    <3>5. QED BY <3>2, <3>3, <3>4
  <2>4. QED BY <1>0, <2>2, <2>3
<1>4. Debt'
  BY <1>0, <1>1, <1>3 DEF Debt, Final, ReplyInv
<1>5. Synchronized' /\ Exchanged'
  BY <1>0 DEF ReplyInv, Synchronized, Exchanged, Transacting
<1>6. NoForeignReply'
  BY <1>0 DEF NoForeignReply, ReplyInv
<1>7. QED BY <1>4, <1>5, <1>6 DEF ReplyInv

\* The line that ends a step is the answer to its command, and nothing is left but chatter.
LEMMA ReplyRead ==
  ASSUME ReplyInv, LineTypeOK, LineTypeOK', ReadReply
  PROVE  ReplyInv'
<1> DEFINE lines == decoder \o wire
           ends == {i \in DOMAIN lines : EndsStep(lines[i])}
<1>0. /\ pc = "reply" /\ wire' = <<>> /\ UNCHANGED <<sync, owed, sentBy>>
  BY DEF ReadReply
<1>1. /\ wire \in Seq(LineSet) /\ decoder \in Seq(LineSet) /\ decoder' \in Seq(LineSet)
      /\ <<>> \in Seq(LineSet)
  BY DEF LineTypeOK
<1>2. lines \in Seq(LineSet) /\ Len(lines) \in Nat /\ DOMAIN lines = 1..Len(lines)
  BY <1>1, ConcatProperties, LenProperties
<1>3. Heard' = Range(decoder')
  <2>1. Heard' = Range(decoder') \cup Range(<<>>)
    BY <1>0, <1>1, HeardIs DEF Heard
  <2>2. QED BY <2>1, HeardEmpty
<1>4. CASE ends = {}
  <2>1. decoder' = <<>> /\ UNCHANGED <<pc, txn>>
    BY <1>4 DEF ReadReply
  <2>2. Heard' = {}
    BY <1>3, <2>1, HeardEmpty
  <2>3. Debt'
    BY <1>0, <2>2, LessHeard DEF ReplyInv
  <2>4. OneAnswer'
    <3>1. decoder' \o wire' = <<>>
      BY <1>0, <1>1, <2>1, ConcatEmptySeq
    <3>2. QED BY <3>1 DEF OneAnswer
  <2>5. Synchronized'
    BY <1>0, <2>1 DEF ReplyInv, Synchronized, Transacting
  <2>6. Exchanged'
    BY <1>0, <2>1, <2>2, <2>4 DEF ReplyInv, Exchanged
  <2>7. NoForeignReply'
    BY <2>1 DEF NoForeignReply, ReplyInv
  <2>8. QED BY <2>3, <2>5, <2>6, <2>7 DEF ReplyInv
<1>5. CASE ends # {}
  <2>1. PICK at : at = CHOOSE i \in ends : \A k \in ends : i <= k
    OBVIOUS
  <2>2. at \in ends
    <3>1. ends \subseteq Nat
      BY <1>2
    <3> HIDE DEF ends
    <3>2. \E i \in ends : \A k \in ends : i <= k
      BY <1>5, <3>1, FirstOf
    <3>3. QED BY <2>1, <3>2
  <2>3. PICK l : l = lines[at]
    OBVIOUS
  <2>4. at \in 1..Len(lines) /\ l \in Heard /\ l.kind \in {"ok", "error", "prompt"}
    BY <1>2, <2>2, <2>3 DEF EndsStep, Heard, Range
  <2>5. PICK reply2 : reply2 = [sent |-> Len(sentBy), got |-> l.cmd, kind |-> l.kind]
    OBVIOUS
  <2>6. /\ decoder' = SubSeq(lines, at + 1, Len(lines)) /\ pc' = "next"
        /\ txn' = [txn EXCEPT !.ok = @ /\ l.kind # "error", !.replies = Append(@, reply2)]
    BY <1>5, <2>1, <2>3, <2>5 DEF ReadReply
  <2>7. l.cmd = Len(sentBy)
    BY <2>4 DEF ReplyInv, Debt
  <2>8. Heard' \subseteq Heard /\ Chatted'
    <3> HIDE DEF ends, lines
    <3>1. \A i \in DOMAIN decoder' : i + at \in DOMAIN lines /\ decoder'[i] = lines[i + at] /\ i \in Nat \ {0}
      BY <1>2, <2>4, <2>6, RestOf
    <3>2. OneAnswer
      BY <1>0 DEF ReplyInv, Exchanged
    <3>3. \A i \in DOMAIN decoder' : decoder'[i].kind = "urc"
      <4>1. \A i \in DOMAIN decoder' : lines[i + at].kind # "urc" => i + at = at
        BY <2>3, <2>4, <1>2, <3>1, <3>2 DEF OneAnswer, lines
      <4>2. \A i \in DOMAIN decoder' : i + at # at
        BY <1>2, <2>4, <3>1
      <4>3. QED BY <3>1, <4>1, <4>2
    <3>4. Range(decoder') \subseteq Heard
      BY <3>1 DEF Heard, Range, lines
    <3>5. QED BY <1>3, <3>3, <3>4 DEF Chatted, Range
  <2>9. \A d \in owed : d.asks = "shown"
    <3>1. l.kind = "prompt" => \A d \in owed : d.asks = "shown"
      BY <1>0, <2>4 DEF ReplyInv, Exchanged
    <3>2. Final(l) => owed = {}
      BY <2>4 DEF ReplyInv, Debt
    <3>3. QED BY <2>4, <3>1, <3>2 DEF Final
  <2>10. /\ txn'.replies \in Seq([sent : Nat, got : Nat, kind : Kinds]) /\ Len(txn.replies) \in Nat
         /\ Len(txn'.replies) = Len(txn.replies) + 1 /\ txn'.replies[Len(txn.replies) + 1] = reply2
         /\ \A i \in 1..Len(txn.replies) : txn'.replies[i] = txn.replies[i]
         /\ DOMAIN txn'.replies = 1..(Len(txn.replies) + 1) /\ DOMAIN txn.replies = 1..Len(txn.replies)
    <3>1. txn.replies \in Seq([sent : Nat, got : Nat, kind : Kinds]) /\ Len(txn.replies) \in Nat
      BY LenProperties DEF LineTypeOK
    <3>2. reply2 \in [sent : Nat, got : Nat, kind : Kinds]
      <4>1. l \in LineSet
        BY <1>2, <2>3, <2>4, ElementOfSeq
      <4>2. Len(sentBy) \in Nat
        BY LenProperties DEF LineTypeOK
      <4>3. QED BY <2>5, <4>1, <4>2 DEF LineSet
    <3>3. txn'.replies = Append(txn.replies, reply2)
      BY <2>6 DEF LineTypeOK
    <3>4. QED BY <3>1, <3>2, <3>3, AppendProperties, LenProperties
  <2>11. NoForeignReply'
    <3>1. reply2.sent = reply2.got
      BY <2>5, <2>7
    <3>2. \A i \in 1..Len(txn.replies) : txn.replies[i].sent = txn.replies[i].got
      BY <2>10 DEF ReplyInv, NoForeignReply
    <3>3. ASSUME NEW i \in DOMAIN txn'.replies
          PROVE  txn'.replies[i].sent = txn'.replies[i].got
      <4>1. i \in 1..Len(txn.replies) \/ i = Len(txn.replies) + 1
        BY <2>10, <3>3
      <4>2. QED BY <2>10, <3>1, <3>2, <4>1
    <3>4. QED BY <3>3 DEF NoForeignReply
  <2>12. ~AfterPrompt' => owed' = {}
    <3>1. Last(txn'.replies) = reply2 /\ txn'.replies # <<>>
      BY <2>10, EmptySeq DEF Last
    <3>2. ~AfterPrompt' => reply2.kind # "prompt"
      BY <3>1 DEF AfterPrompt
    <3>3. ~AfterPrompt' => Final(l)
      BY <2>4, <2>5, <3>2 DEF Final
    <3>4. QED BY <1>0, <2>4, <3>3 DEF ReplyInv, Debt
  <2>13. Debt'
    BY <1>0, <2>8, LessHeard DEF ReplyInv
  <2>14. Exchanged'
    BY <1>0, <2>6, <2>8, <2>9, <2>12 DEF Exchanged
  <2>15. Synchronized'
    BY <1>0, <2>6 DEF ReplyInv, Synchronized, Transacting
  <2>16. QED BY <2>11, <2>13, <2>14, <2>15 DEF ReplyInv
<1>6. QED BY <1>4, <1>5

-----------------------------------------------------------------------------
(* The modem adds a line.                                                    *)

LEMMA HeardMore ==
  ASSUME LineTypeOK, NEW l \in LineSet, wire' = Append(wire, l), UNCHANGED decoder
  PROVE  /\ Heard' = Heard \cup {l}
         /\ (OneAnswer /\ (l.kind = "urc" \/ Chatted)) => OneAnswer'
<1> DEFINE old == decoder \o wire
           new == decoder' \o wire'
<1>1. wire \in Seq(LineSet) /\ decoder \in Seq(LineSet)
  BY DEF LineTypeOK
<1>2. old \in Seq(LineSet) /\ Len(old) \in Nat /\ DOMAIN old = 1..Len(old)
  BY <1>1, ConcatProperties, LenProperties
<1>3. new = Append(old, l)
  <2>1. Append(wire, l) = wire \o <<l>> /\ Append(old, l) = old \o <<l>> /\ <<l>> \in Seq(LineSet)
    BY <1>1, <1>2, AppendIsConcat
  <2>2. (decoder \o wire) \o <<l>> = decoder \o (wire \o <<l>>)
    BY <1>1, <2>1, ConcatAssociative
  <2>3. QED BY <2>1, <2>2
<1>4. /\ new \in Seq(LineSet) /\ Len(new) = Len(old) + 1 /\ new[Len(old) + 1] = l
      /\ \A i \in 1..Len(old) : new[i] = old[i]
  BY <1>2, <1>3, AppendProperties
<1>5. DOMAIN new = 1..(Len(old) + 1)
  BY <1>4, LenProperties
<1>6. Heard = {old[i] : i \in DOMAIN old} /\ Heard' = {new[i] : i \in DOMAIN new}
  BY DEF Heard, Range
<1>7. OneAnswer = \A i, j \in DOMAIN old : old[i].kind # "urc" /\ old[j].kind # "urc" => i = j
  BY DEF OneAnswer
<1>8. OneAnswer' = \A i, j \in DOMAIN new : new[i].kind # "urc" /\ new[j].kind # "urc" => i = j
  BY DEF OneAnswer
<1>9. Chatted => \A i \in DOMAIN old : old[i].kind = "urc"
  BY <1>6 DEF Chatted
<1> HIDE DEF old, new
<1>10. Heard' = Heard \cup {l}
  BY <1>2, <1>4, <1>5, <1>6
<1>11. ASSUME OneAnswer, l.kind = "urc" \/ Chatted PROVE OneAnswer'
  <2>1. \A i \in DOMAIN new : (i \in DOMAIN old /\ new[i] = old[i]) \/ (i = Len(old) + 1 /\ new[i] = l)
    BY <1>2, <1>4, <1>5
  <2>2. QED BY <1>7, <1>8, <1>9, <1>11, <2>1
<1>12. QED BY <1>10, <1>11

LEMMA ReplyModem ==
  ASSUME ReplyInv, LineTypeOK, Modem
  PROVE  ReplyInv'
<1>0. UNCHANGED <<pc, txn, sync, sentBy, decoder>>
  BY DEF Modem, Answer, Chatter, Unplug
<1>1. NoForeignReply'
  BY <1>0 DEF ReplyInv, NoForeignReply
<1>2. CASE Unplug
  BY <1>0, <1>2, ReplyStutter DEF Unplug, replyVars
<1>3. CASE Chatter
  <2>1. PICK l : l = [cmd |-> 0, kind |-> "urc"]
    OBVIOUS
  <2>2. l \in LineSet /\ l.kind = "urc" /\ wire' = Append(wire, l) /\ owed' = owed
    BY <1>3, <2>1 DEF Chatter, LineSet, Kinds
  <2>3. Heard' = Heard \cup {l} /\ (OneAnswer => OneAnswer')
    BY <1>0, <2>2, HeardMore
  <2>4. Debt'
    BY <1>0, <2>2, <2>3 DEF ReplyInv, Debt, Final
  <2>5. (Chatted => Chatted') /\ (Clear => Clear')
    BY <2>2, <2>3 DEF Chatted, Clear
  <2>6. Synchronized'
    BY <1>0, <2>5 DEF ReplyInv, Synchronized
  <2>7. Exchanged'
    BY <1>0, <2>2, <2>3, <2>5 DEF ReplyInv, Exchanged, AfterPrompt
  <2>8. QED BY <1>1, <2>4, <2>6, <2>7 DEF ReplyInv
<1>4. ASSUME NEW d \in owed, NEW kind \in {"ok", "error", "prompt"}, Answer(d, kind)
      PROVE  ReplyInv'
  <2>1. PICK l : l = [cmd |-> d.cmd, kind |-> kind]
    OBVIOUS
  <2>2. PICK s : s = [d EXCEPT !.asks = "shown"]
    OBVIOUS
  <2>3. /\ d.asks # "shown" /\ wire' = Append(wire, l)
        /\ owed' = IF kind = "prompt" THEN (owed \ {d}) \cup {s} ELSE owed \ {d}
    BY <1>4, <2>1, <2>2 DEF Answer
  <2>4. d \in [cmd : Nat, asks : {"no", "yes", "shown"}]
    BY DEF LineTypeOK
  <2>5. l \in LineSet /\ l.cmd = d.cmd /\ l.kind = kind /\ s.cmd = d.cmd /\ s.asks = "shown"
    BY <2>1, <2>2, <2>4 DEF LineSet, Kinds
  <2>6. /\ owed = {d} /\ d.cmd = Len(sentBy) /\ \A m \in Heard : ~Final(m)
    BY <2>3 DEF ReplyInv, Debt
  <2>7. owed' = IF kind = "prompt" THEN {s} ELSE {}
    BY <2>3, <2>6
  <2>8. Heard' = Heard \cup {l} /\ (OneAnswer /\ Chatted => OneAnswer')
    BY <1>0, <2>3, <2>5, HeardMore
  <2>9. Debt'
    BY <1>0, <2>5, <2>6, <2>7, <2>8 DEF ReplyInv, Debt, Final
  <2>10. ~Clear
    BY <2>6 DEF Clear
  <2>11. Synchronized'
    BY <1>0, <2>10 DEF ReplyInv, Synchronized
  <2>12. pc \notin {"next", "write", "delay", "done", "program_error"}
    BY <2>3, <2>6, <2>10 DEF ReplyInv, Exchanged
  <2>13. ASSUME pc = "reply"
         PROVE  /\ \A e \in owed' : e.cmd = Len(sentBy')
                /\ \A m \in Heard' : m.kind = "prompt" => \A e \in owed' : e.asks = "shown"
                /\ OneAnswer'
    <3>1. \A m \in Heard : m.kind # "prompt"
      BY <2>3, <2>6, <2>13 DEF ReplyInv, Exchanged
    <3>2. Chatted
      <4>1. \A m \in Heard : m.kind \in Kinds
        <5>1. decoder \o wire \in Seq(LineSet)
          BY ConcatProperties DEF LineTypeOK
        <5>2. Range(decoder \o wire) \in SUBSET LineSet
          BY <5>1, RangeOfSeq
        <5>3. QED BY <5>2 DEF Heard, LineSet
      <4>2. QED BY <2>6, <3>1, <4>1 DEF Chatted, Final, Kinds
    <3>3. OneAnswer'
      BY <2>8, <2>13, <3>2 DEF ReplyInv, Exchanged
    <3>4. QED BY <1>0, <2>5, <2>6, <2>7, <3>3
  <2>14. Exchanged'
    BY <1>0, <2>12, <2>13 DEF Exchanged
  <2>15. QED BY <1>1, <2>9, <2>11, <2>14 DEF ReplyInv
<1>5. QED BY <1>2, <1>3, <1>4 DEF Modem

LEMMA ReplyStep == ReplyInv /\ LineTypeOK /\ LineTypeOK' /\ [Next]_vars => ReplyInv'
<1> SUFFICES ASSUME ReplyInv, LineTypeOK, LineTypeOK', [Next]_vars PROVE ReplyInv'
  OBVIOUS
<1>1. CASE Callers \/ Close \/ UNCHANGED vars
  <2>1. UNCHANGED replyVars
    BY <1>1 DEF Callers, Accept, RejectFull, Leave, Close, Freeze, TakeTask, Join, MarkClosed, DropClose,
                line, vars, replyVars
  <2>2. QED BY <2>1, ReplyStutter
<1>2. CASE Modem
  BY <1>2, ReplyModem
<1>3. CASE Worker
  BY <1>3, ReplyMoves, ReplyProgram, ReplyBetween, ReplyRecovery, ReplyWrite, ReplyLost, ReplyRead
     DEF Worker
<1>4. QED BY <1>1, <1>2, <1>3 DEF Next

LEMMA ReplyInvariant == Spec => []ReplyInv
<1>1. ReplyInv /\ PortInv /\ PortInv' /\ [Next]_vars => ReplyInv'
  BY ReplyStep DEF PortInv
<1>2. QED BY <1>1, ReplyInit, PortInvariant, PTL DEF Spec

\* However late the modem answers, however its lines are lost and whenever a transaction fails,
\* no transaction takes a line that answers another one's command for its own.
THEOREM RepliesAreOwn == Spec => []NoForeignReply
<1>1. ReplyInv => NoForeignReply
  BY DEF ReplyInv
<1>2. QED BY <1>1, ReplyInvariant, PTL

\* The worker writes a command only when no earlier one can still be answered.
THEOREM WritesWhenQuiet == Spec => []QuietBeforeCommand
<1>1. ReplyInv => QuietBeforeCommand
  <2> SUFFICES ASSUME ReplyInv, pc = "write"
               PROVE  /\ \A d \in owed : d.asks = "shown"
                      /\ \A i \in DOMAIN (decoder \o wire) : ~Final((decoder \o wire)[i])
    BY DEF QuietBeforeCommand
  <2>1. Chatted /\ \A d \in owed : d.asks = "shown"
    BY DEF ReplyInv, Exchanged
  <2>2. QED BY <2>1 DEF Chatted, Heard, Range, Final
<1>2. QED BY <1>1, ReplyInvariant, PTL

-----------------------------------------------------------------------------
(* The port is a serial executor.                                            *)

\* An id is given an entry in reply when it is handed out, and only then; a transaction fails
\* for a reason.
Issued ==
  /\ \A j \in Jobs : reply[j] # "none" => j < mon.nextId
  /\ \A j \in Range(chan) : reply[j] # "none"
  /\ job # None => reply[job] # "none"
  /\ pc \in {"fail", "failed"} => txn.error # "none"

LEMMA NextIds ==
  ASSUME NEW m \in MonSet, NEW x, NEW y \in BOOLEAN
  PROVE  /\ m.nextId \in Nat
         /\ InPhase(m, x).nextId = m.nextId /\ Finished(m, x).nextId = m.nextId
         /\ Begun(m, x, y).nextId = m.nextId
         /\ Frozen(m).nextId = m.nextId /\ Closed(m).nextId = m.nextId
         /\ Enqueued(m).nextId = m.nextId + 1 /\ Rejected(m).nextId = m.nextId + 1
<1>1. Begun(m, x, y).nextId = m.nextId
  BY DEF Begun, MonSet
<1>2. Finished(m, x).nextId = m.nextId
  BY DEF Finished, MonSet
<1>3. QED BY <1>1, <1>2 DEF InPhase, Frozen, Closed, Enqueued, Rejected, MonSet

\* Nothing is handed out, and no entry is taken back.
LEMMA IssuedKept ==
  ASSUME Issued, mon'.nextId = mon.nextId, Range(chan') \subseteq Range(chan),
         \A j \in Jobs : reply'[j] = "none" <=> reply[j] = "none",
         Range(chan) \subseteq Jobs, job \in Jobs \cup {None},
         job' \in {job, None} \cup Range(chan), pc' \in {"fail", "failed"} => txn'.error # "none"
  PROVE  Issued'
<1>1. \A j \in Jobs : reply'[j] # "none" => j < mon'.nextId
  BY DEF Issued
<1>2. \A j \in Range(chan') : reply'[j] # "none"
  BY DEF Issued
<1>3. job' # None => reply'[job'] # "none"
  BY DEF Issued
<1>4. QED BY <1>1, <1>2, <1>3 DEF Issued

LEMMA ChanIds ==
  ASSUME SchedTypeOK
  PROVE  /\ Range(chan) \subseteq Jobs /\ job \in Jobs \cup {None} /\ mon \in MonSet
         /\ reply \in [Jobs -> Replies] /\ None \notin Jobs
BY RangeOfSeq, PortAssumption DEF SchedTypeOK, Jobs, None

LEMMA IssuedInit == Init => Issued
BY DEF Init, Issued, NewMonitor, Range, None

LEMMA IssuedCallers ==
  ASSUME Issued, SchedTypeOK, Callers
  PROVE  Issued'
<1>0. /\ Range(chan) \subseteq Jobs /\ mon \in MonSet /\ reply \in [Jobs -> Replies] /\ chan \in Seq(Jobs)
      /\ UNCHANGED <<pc, txn, job>> /\ mon.nextId \in Nat
  BY ChanIds, NextIds DEF Callers, Accept, RejectFull, Leave, SchedTypeOK
<1>1. ASSUME mon.nextId \in Jobs, mon'.nextId = mon.nextId + 1,
             \E v \in {"awaiting", "queue_full"} : reply' = [reply EXCEPT ![mon.nextId] = v],
             Range(chan') \subseteq Range(chan) \cup {mon.nextId}
      PROVE  Issued'
  <2>1. reply'[mon.nextId] # "none" /\ \A j \in Jobs : j # mon.nextId => reply'[j] = reply[j]
    BY <1>0, <1>1
  <2>2. \A j \in Jobs : reply'[j] # "none" => j < mon'.nextId
    <3>1. ASSUME NEW j \in Jobs, reply'[j] # "none" PROVE j < mon'.nextId
      <4>1. j \in Nat /\ (j = mon.nextId \/ j < mon.nextId)
        BY <2>1, <3>1 DEF Issued, Jobs
      <4>2. QED BY <1>0, <1>1, <4>1
    <3>2. QED BY <3>1
  <2>3. \A j \in Range(chan') : reply'[j] # "none"
    BY <1>0, <1>1, <2>1 DEF Issued
  <2>4. job' # None => reply'[job'] # "none"
    <3>1. job \in Jobs \cup {None}
      BY ChanIds
    <3>2. QED BY <1>0, <2>1, <3>1 DEF Issued
  <2>5. QED BY <1>0, <2>2, <2>3, <2>4 DEF Issued
<1>2. CASE Accept
  <2>1. Range(Append(chan, mon.nextId)) \subseteq Range(chan) \cup {mon.nextId}
    <3>1. mon.nextId \in Jobs
      BY <1>2 DEF Accept
    <3>2. Append(chan, mon.nextId) = chan \o <<mon.nextId>> /\ <<mon.nextId>> \in Seq(Jobs)
      BY <1>0, <3>1, AppendIsConcat
    <3>3. Range(Append(chan, mon.nextId)) = Range(chan) \cup Range(<<mon.nextId>>)
      BY <1>0, <3>2, RangeConcatenation
    <3>4. Range(<<mon.nextId>>) = {mon.nextId}
      BY DEF Range
    <3>5. QED BY <3>3, <3>4
  <2>2. mon'.nextId = mon.nextId + 1 /\ mon.nextId \in Jobs
    BY <1>0, <1>2, NextIds DEF Accept
  <2>3. chan' = Append(chan, mon.nextId) /\ reply' = [reply EXCEPT ![mon.nextId] = "awaiting"]
    BY <1>2 DEF Accept
  <2>4. QED BY <1>1, <2>1, <2>2, <2>3
<1>3. CASE RejectFull
  <2>1. /\ mon'.nextId = mon.nextId + 1 /\ mon.nextId \in Jobs /\ chan' = chan
        /\ reply' = [reply EXCEPT ![mon.nextId] = "queue_full"]
    BY <1>0, <1>3, NextIds DEF RejectFull
  <2>2. QED BY <1>1, <2>1
<1>4. CASE \E j \in Jobs : Leave(j)
  <2>1. PICK j \in Jobs : Leave(j)
    BY <1>4
  <2>2. /\ mon' = mon /\ chan' = chan /\ reply[j] = "awaiting"
        /\ reply' = [reply EXCEPT ![j] = "detached"]
    BY <2>1 DEF Leave
  <2>3. \A i \in Jobs : reply'[i] = "none" <=> reply[i] = "none"
    BY <1>0, <2>2
  <2>4. QED BY <1>0, <2>2, <2>3, IssuedKept, ChanIds DEF Issued
<1>5. QED BY <1>2, <1>3, <1>4 DEF Callers

\* An answer is none of "none".
LEMMA DeliverIssued ==
  ASSUME SchedTypeOK, job \in Jobs, reply[job] # "none", NEW r, r # "none", Deliver(job, r)
  PROVE  \A j \in Jobs : reply'[j] = "none" <=> reply[j] = "none"
BY DEF Deliver, SchedTypeOK

LEMMA IssuedWorker ==
  ASSUME Issued, SchedInv, LineTypeOK, Worker
  PROVE  Issued'
<1>0. /\ Range(chan) \subseteq Jobs /\ mon \in MonSet /\ reply \in [Jobs -> Replies] /\ chan \in Seq(Jobs)
      /\ job \in Jobs \cup {None} /\ None \notin Jobs /\ SchedTypeOK
  BY ChanIds DEF SchedInv, SchedTypeOK
<1>1. CASE Recv
  <2>1. /\ chan # <<>> /\ job' = Head(chan) /\ chan' = Tail(chan) /\ pc' \in {"skip", "begin"}
        /\ UNCHANGED <<mon, reply>>
    BY <1>1 DEF Recv
  <2>2. Head(chan) \in Range(chan) /\ Range(Tail(chan)) \subseteq Range(chan)
    <3>1. chan = <<Head(chan)>> \o Tail(chan) /\ Head(chan) \in Jobs /\ Tail(chan) \in Seq(Jobs)
      BY <1>0, <2>1, HeadFirst
    <3>2. PICK h \in Jobs, t \in Seq(Jobs) : h = Head(chan) /\ t = Tail(chan)
      BY <3>1
    <3>3. Range(<<h>> \o t) = Range(<<h>>) \cup Range(t)
      <4>1. <<h>> \in Seq(Jobs)
        OBVIOUS
      <4>2. QED BY <4>1, RangeConcatenation
    <3>4. Range(<<h>>) = {h}
      BY DEF Range
    <3>5. QED BY <3>1, <3>2, <3>3, <3>4
  <2>3. QED BY <1>0, <2>1, <2>2, IssuedKept
<1>2. CASE WorkerClose \/ Aborted
  <2>1. PICK js : js \subseteq Range(chan) \cup ({job} \ {None}) /\ reply' = Dropped(js)
    BY <1>2 DEF WorkerClose, Aborted
  <2>2. /\ chan' = <<>> /\ pc' = "dead" /\ job' \in {job, None} /\ mon' \in {mon, Closed(mon)}
    BY <1>2 DEF WorkerClose, Aborted
  <2>3. \A j \in js : reply[j] # "none"
    BY <2>1 DEF Issued
  <2>4. \A j \in Jobs : reply'[j] = "none" <=> reply[j] = "none"
    BY <2>1, <2>3 DEF Dropped
  <2>5. Range(chan') = {} /\ mon'.nextId = mon.nextId
    BY <1>0, <2>2, NextIds, HeardEmpty
  <2>6. QED BY <1>0, <2>2, <2>4, <2>5, IssuedKept
<1>3. CASE Skip
  <2>1. /\ mon' = Begun(mon, job, TRUE) /\ reply' = [reply EXCEPT ![job] = "gone"]
        /\ job' = None /\ pc' = "select" /\ chan' = chan /\ job # None
    BY <1>3 DEF Skip, SchedInv, InHand
  <2>2. \A j \in Jobs : reply'[j] = "none" <=> reply[j] = "none"
    BY <1>0, <2>1 DEF Issued
  <2>3. mon'.nextId = mon.nextId
    BY <1>0, <2>1, NextIds
  <2>4. QED BY <1>0, <2>1, <2>2, <2>3, IssuedKept
<1>4. CASE Begin
  <2>1. /\ mon' = Begun(mon, job, FALSE) /\ UNCHANGED <<reply, job, chan>> /\ pc' \in {"next", "refuse"}
    BY <1>4 DEF Begin
  <2>2. mon'.nextId = mon.nextId
    BY <1>0, <2>1, NextIds
  <2>3. QED BY <1>0, <2>1, <2>2, IssuedKept
<1>5. CASE RefuseFinish \/ FailFinish
  <2>1. /\ UNCHANGED <<reply, job, chan, txn>> /\ (pc' = "failed" => pc = "fail")
        /\ pc' \in {"refused", "failed"} /\ \E o : mon' = Finished(mon, o)
    BY <1>5 DEF RefuseFinish, FailFinish
  <2>2. PICK o : mon' = Finished(mon, o)
    BY <2>1
  <2>3. Finished(mon, o).nextId = mon.nextId
    BY <1>0, NextIds
  <2>4. QED BY <1>0, <2>1, <2>2, <2>3, IssuedKept DEF Issued
<1>6. CASE RefuseReply \/ Done \/ ProgramError \/ FailReply
  <2>1. job # None
    BY <1>6 DEF RefuseReply, Done, ProgramError, FailReply, SchedInv, InHand
  <2>2. /\ chan' = chan /\ job' = None /\ pc' \in {"select", "recover", "settle"}
        /\ \E o : mon' = Finished(mon, o) \/ mon' = InPhase(mon, o)
    BY <1>6 DEF RefuseReply, Done, ProgramError, FailReply
  <2>3. \E r : r # "none" /\ Deliver(job, r)
    BY <1>6 DEF RefuseReply, Done, ProgramError, FailReply, Issued
  <2>4. \A j \in Jobs : reply'[j] = "none" <=> reply[j] = "none"
    BY <1>0, <2>1, <2>3, DeliverIssued DEF Issued
  <2>5. PICK o : mon' = Finished(mon, o) \/ mon' = InPhase(mon, o)
    BY <2>2
  <2>6. Finished(mon, o).nextId = mon.nextId /\ InPhase(mon, o).nextId = mon.nextId
    BY <1>0, NextIds
  <2>7. mon'.nextId = mon.nextId
    BY <2>5, <2>6
  <2>8. QED BY <1>0, <2>2, <2>4, <2>7, IssuedKept
<1>7. ASSUME WorkerMoves, pc' \in {"fail", "failed"} => txn'.error # "none"
      PROVE  Issued'
  <2>1. UNCHANGED <<reply, job, chan>> /\ (mon' = mon \/ \E p : mon' = InPhase(mon, p))
    BY <1>7 DEF WorkerMoves
  <2>2. PICK p : mon' = mon \/ mon' = InPhase(mon, p)
    BY <2>1
  <2>3. InPhase(mon, p).nextId = mon.nextId
    BY <1>0, NextIds
  <2>4. mon'.nextId = mon.nextId
    BY <2>2, <2>3
  <2>5. QED BY <1>0, <1>7, <2>1, <2>4, IssuedKept
<1>8. CASE DelayFail \/ WriteFail \/ ReplyTimeout \/ ReplyOverflow \/ ReplyIo
  <2>1. \E error \in {"timeout", "io", "overflow"}, flags \in BOOLEAN : Failing(error, flags)
    BY <1>8 DEF DelayFail, WriteFail, ReplyTimeout, ReplyOverflow, ReplyIo
  <2>2. txn'.error # "none"
    BY <2>1 DEF Failing, LineTypeOK
  <2>3. QED BY <1>7, <1>8, <2>2, TransactionMoves
<1>9. CASE ProgramFinish \/ ProgramFail \/ ProgramWait \/ (\E prompt \in BOOLEAN : ProgramCommand(prompt))
           \/ DelayEnd \/ Write \/ ReadReply
  <2>1. WorkerMoves
    BY <1>9, TransactionMoves
  <2>2. CASE ReadReply
    <3>1. pc' \notin {"fail", "failed"}
      BY <2>2 DEF ReadReply
    <3>2. QED BY <1>7, <2>1, <3>1
  <2>3. CASE ~ReadReply
    <3>1. pc' \notin {"fail", "failed"}
      BY <1>9, <2>3 DEF ProgramFinish, ProgramFail, ProgramWait, ProgramCommand, Act, DelayEnd, Write
    <3>2. QED BY <1>7, <2>1, <3>1
  <2>4. QED BY <2>2, <2>3
<1>10. CASE LateQuiet \/ IdleRead \/ Disconnect \/ RecoverRead \/ RecoverEnd \/ Settle
  <2>1. WorkerMoves
    BY <1>10, BetweenMoves
  <2>2. pc' \notin {"fail", "failed"}
    BY <1>10 DEF LateQuiet, IdleRead, Disconnect, RecoverRead, RecoverEnd, SettleAs, Settle
  <2>3. QED BY <1>7, <2>1, <2>2
<1>11. QED BY <1>1, <1>2, <1>3, <1>4, <1>5, <1>6, <1>8, <1>9, <1>10 DEF Worker

LEMMA IssuedStep == Issued /\ PortInv /\ [Next]_vars => Issued'
<1> SUFFICES ASSUME Issued, PortInv, [Next]_vars PROVE Issued'
  OBVIOUS
<1>0. SchedInv /\ SchedTypeOK /\ LineTypeOK
  BY DEF PortInv, SchedInv
<1>1. CASE Callers
  BY <1>0, <1>1, IssuedCallers
<1>2. CASE Close
  <2>1. /\ UNCHANGED <<chan, reply, pc, job, txn>> /\ mon' \in {mon, Frozen(mon), Closed(mon)}
    BY <1>2 DEF Close, Freeze, TakeTask, Join, MarkClosed, DropClose
  <2>2. mon'.nextId = mon.nextId
    BY <1>0, <2>1, NextIds, ChanIds
  <2>3. QED BY <1>0, <2>1, <2>2, IssuedKept, ChanIds DEF Issued
<1>3. CASE Modem \/ UNCHANGED vars
  <2>1. UNCHANGED <<mon, chan, reply, pc, job, txn>>
    BY <1>3 DEF Modem, Answer, Chatter, Unplug, vars
  <2>2. QED BY <2>1 DEF Issued
<1>4. CASE Worker
  BY <1>0, <1>4, IssuedWorker
<1>5. QED BY <1>1, <1>2, <1>3, <1>4 DEF Next

-----------------------------------------------------------------------------
(* The steps of the port are steps of TxnQueue, or leave its state alone.    *)

Active == IF pc \in {"skip", "begin"} THEN None ELSE job

\* What a caller's entry says of its transaction.
Verdict(r) == CASE r = "none"                      -> "none"
                [] r \in {"awaiting", "detached"} -> "pending"
                [] r = "queue_full"               -> "refused"
                [] OTHER                          -> "resolved"

LEMMA Verdicts ==
  /\ Verdict("none") = "none" /\ Verdict("awaiting") = "pending" /\ Verdict("detached") = "pending"
  /\ Verdict("queue_full") = "refused" /\ \A r \in Answers : Verdict(r) = "resolved"
BY DEF Verdict, Answers

LEMMA ResultIs == Result = [j \in Jobs |-> Verdict(reply[j])]
BY DEF Result, Verdict

LEMMA ResultSame == UNCHANGED reply => Result' = Result
BY DEF Result

LEMMA ResultExcept ==
  ASSUME reply \in [Jobs -> Replies], NEW j \in Jobs, NEW v, reply' = [reply EXCEPT ![j] = v],
         NEW w, w = Verdict(v)
  PROVE  Result' = [Result EXCEPT ![j] = w]
<1>1. Result = [k \in Jobs |-> Verdict(reply[k])] /\ Result' = [k \in Jobs |-> Verdict(reply'[k])]
  BY DEF Result, Verdict
<1>2. \A k \in Jobs : Verdict(reply'[k]) = IF k = j THEN Verdict(v) ELSE Verdict(reply[k])
  OBVIOUS
<1>3. QED BY <1>1, <1>2

LEMMA ResultDelivered ==
  ASSUME reply \in [Jobs -> Replies], NEW j \in Jobs, NEW r \in Answers, Deliver(j, r)
  PROVE  Result' = [Result EXCEPT ![j] = "resolved"]
<1>1. PICK v : v = IF reply[j] = "awaiting" THEN r ELSE "gone"
  OBVIOUS
<1>2. v \in Answers /\ reply' = [reply EXCEPT ![j] = v]
  BY <1>1 DEF Deliver, Answers
<1>3. Verdict(v) = "resolved"
  BY <1>2, Verdicts
<1>4. QED BY <1>2, <1>3, ResultExcept

LEMMA QueueStutter ==
  ASSUME mon'.accepting = mon.accepting, mon'.waiting = mon.waiting, Active' = Active,
         sentBy' = sentBy, Result' = Result
  PROVE  UNCHANGED Queue!vars
BY DEF Queue!vars, Active

LEMMA QueueInit == Init => Queue!Init
BY ResultIs, Verdicts DEF Init, Queue!Init, NewMonitor

\* Accept, Refuse and the caller that leaves.
LEMMA QueueCallers ==
  ASSUME SchedTypeOK, Issued, Callers
  PROVE  [Queue!Next]_(Queue!vars)
<1>0. /\ mon \in MonSet /\ reply \in [Jobs -> Replies] /\ Active' = Active /\ sentBy' = sentBy
  BY ChanIds DEF Callers, Accept, RejectFull, Leave, Active, line
<1>1. mon.nextId \in Jobs => reply[mon.nextId] = "none"
  <2>1. mon.nextId \in Nat => ~(mon.nextId < mon.nextId)
    OBVIOUS
  <2>2. QED BY <1>0, <2>1, NextIds DEF Issued
<1>2. mon.nextId \in Jobs => Result[mon.nextId] = "none"
  BY <1>1, ResultIs, Verdicts
<1>3. CASE Accept
  <2>1. /\ mon.accepting /\ mon.nextId \in Jobs /\ mon' = Enqueued(mon)
        /\ reply' = [reply EXCEPT ![mon.nextId] = "awaiting"]
    BY <1>3 DEF Accept
  <2>2. mon'.waiting = Append(mon.waiting, mon.nextId) /\ mon'.accepting = mon.accepting
    BY <1>0, <2>1, EnqueuedData
  <2>3. Result' = [Result EXCEPT ![mon.nextId] = "pending"]
    <3>1. PICK w : w = Verdict("awaiting")
      OBVIOUS
    <3>2. Result' = [Result EXCEPT ![mon.nextId] = w]
      BY <1>0, <2>1, <3>1, ResultExcept
    <3>3. QED BY <3>1, <3>2, Verdicts
  <2>4. Queue!Accept(mon.nextId)
    BY <1>0, <1>2, <2>1, <2>2, <2>3 DEF Queue!Accept, Active
  <2>5. QED BY <2>1, <2>4 DEF Queue!Next
<1>4. CASE RejectFull
  <2>1. /\ mon.accepting /\ mon.nextId \in Jobs /\ mon' = Rejected(mon)
        /\ reply' = [reply EXCEPT ![mon.nextId] = "queue_full"]
    BY <1>4 DEF RejectFull
  <2>2. mon'.waiting = mon.waiting /\ mon'.accepting = mon.accepting
    BY <1>0, <2>1, RejectedData
  <2>3. Result' = [Result EXCEPT ![mon.nextId] = "refused"]
    <3>1. PICK w : w = Verdict("queue_full")
      OBVIOUS
    <3>2. Result' = [Result EXCEPT ![mon.nextId] = w]
      BY <1>0, <2>1, <3>1, ResultExcept
    <3>3. QED BY <3>1, <3>2, Verdicts
  <2>4. Queue!Refuse(mon.nextId)
    BY <1>0, <1>2, <2>1, <2>2, <2>3 DEF Queue!Refuse, Active
  <2>5. QED BY <2>1, <2>4 DEF Queue!Next
<1>5. CASE \E j \in Jobs : Leave(j)
  <2>1. PICK j \in Jobs : Leave(j)
    BY <1>5
  <2>2. mon' = mon /\ reply[j] = "awaiting" /\ reply' = [reply EXCEPT ![j] = "detached"]
    BY <2>1 DEF Leave
  <2>3. Result' = [Result EXCEPT ![j] = "pending"] /\ Result[j] = "pending"
    BY <1>0, <2>2, ResultExcept, ResultIs, Verdicts
  <2>4. Result' = Result
    BY <2>3, ResultIs
  <2>5. QED BY <1>0, <2>2, <2>4, QueueStutter
<1>6. QED BY <1>3, <1>4, <1>5 DEF Callers

\* Close, once freeze() has seen an empty list.
LEMMA QueueClose ==
  ASSUME SchedInv, Close
  PROVE  [Queue!Next]_(Queue!vars)
<1>0. /\ mon \in MonSet /\ Active' = Active /\ sentBy' = sentBy /\ Result' = Result
  <2>1. UNCHANGED <<reply, pc, job, sentBy>>
    BY DEF Close, Freeze, TakeTask, Join, MarkClosed, DropClose, line
  <2>2. QED BY <2>1, ResultSame, ChanIds DEF Active, SchedInv
<1>1. CASE Freeze
  <2>1. mon.waiting = <<>> /\ mon' = Frozen(mon)
    BY <1>1 DEF Freeze, CanFreeze
  <2>2. mon'.waiting = mon.waiting /\ mon'.accepting = FALSE
    <3>1. Frozen(mon).waiting = mon.waiting /\ Frozen(mon).accepting = FALSE
      BY <1>0 DEF Frozen, MonSet
    <3>2. QED BY <2>1, <3>1
  <2>3. CASE mon.accepting
    <3>1. Queue!Close
      BY <1>0, <2>1, <2>2, <2>3 DEF Queue!Close, Active
    <3>2. QED BY <3>1 DEF Queue!Next
  <2>4. CASE ~mon.accepting
    <3>1. mon.accepting = FALSE
      BY <1>0, <2>4 DEF MonSet
    <3>2. QED BY <1>0, <2>2, <3>1, QueueStutter
  <2>5. QED BY <2>3, <2>4
<1>2. CASE MarkClosed
  <2>1. mon.waiting = <<>> /\ ~mon.accepting /\ mon' = Closed(mon)
    BY <1>2 DEF MarkClosed, SchedInv, ClosedIsEmpty
  <2>2. /\ Closed(mon).waiting = <<>> /\ Closed(mon).accepting = FALSE /\ mon.accepting = FALSE
    BY <1>0, <2>1 DEF Closed, MonSet
  <2>3. QED BY <1>0, <2>1, <2>2, QueueStutter
<1>3. CASE TakeTask \/ Join \/ DropClose
  <2>1. mon' = mon
    BY <1>3 DEF TakeTask, Join, DropClose
  <2>2. QED BY <1>0, <2>1, QueueStutter
<1>4. QED BY <1>1, <1>2, <1>3 DEF Close

\* The phase moves and nothing that TxnQueue knows of, a command excepted.
LEMMA QueueMoves ==
  ASSUME SchedInv, WorkerMoves, sentBy' = sentBy
  PROVE  UNCHANGED Queue!vars
<1>1. mon \in MonSet /\ Result' = Result
  BY ResultSame, ChanIds DEF WorkerMoves, SchedInv
<1>2. Active' = Active
  BY DEF WorkerMoves, Active, Running
<1>3. mon'.accepting = mon.accepting /\ mon'.waiting = mon.waiting
  BY <1>1, PhaseData DEF WorkerMoves
<1>4. QED BY <1>1, <1>2, <1>3, QueueStutter

LEMMA QueueWorker ==
  ASSUME SchedInv, LineTypeOK, Issued, Worker
  PROVE  [Queue!Next]_(Queue!vars)
<1>0. /\ Range(chan) \subseteq Jobs /\ mon \in MonSet /\ reply \in [Jobs -> Replies] /\ chan \in Seq(Jobs)
      /\ job \in Jobs \cup {None} /\ None \notin Jobs /\ SchedTypeOK
  BY ChanIds DEF SchedInv, SchedTypeOK
<1>1. CASE Recv
  <2>1. pc = "select" /\ pc' \in {"skip", "begin"} /\ UNCHANGED <<mon, reply, sentBy>>
    BY <1>1 DEF Recv, line
  <2>2. Active' = Active
    BY <2>1 DEF Active, SchedInv, InHand
  <2>3. QED BY <2>1, <2>2, ResultSame, QueueStutter
<1>2. CASE Skip \/ Begin
  <2>1. /\ pc \in {"skip", "begin"} /\ job \in Jobs /\ mon.waiting = <<job>> \o chan
        /\ mon.current = None
    BY <1>0, <1>2 DEF Skip, Begin, SchedInv, InHand, WaitingIsChannel, Running
  <2>2. mon.accepting
    <3>1. <<job>> \o chan # <<>>
      <4>1. <<job>> \in Seq(Jobs) /\ Len(<<job>>) = 1
        BY <2>1
      <4>2. Len(<<job>> \o chan) = 1 + Len(chan) /\ Len(chan) \in Nat
        BY <1>0, <4>1, ConcatProperties, LenProperties
      <4>3. QED BY <4>2
    <3>2. QED BY <2>1, <3>1 DEF SchedInv, ClosedIsEmpty
  <2>3. mon.waiting # <<>> /\ Head(mon.waiting) = job /\ Tail(mon.waiting) = chan
    <3>1. PICK q \in Seq(Jobs), j \in Jobs : q = chan /\ j = job
      BY <1>0, <2>1
    <3>2. <<j>> \o q # <<>> /\ Head(<<j>> \o q) = j /\ Tail(<<j>> \o q) = q
      <4>1. <<j>> \in Seq(Jobs)
        OBVIOUS
      <4>2. QED BY <4>1, HeadTailProperties, ConcatProperties
    <3>3. QED BY <2>1, <3>1, <3>2
  <2>4. CASE Skip
    <3>1. /\ mon' = Begun(mon, job, TRUE) /\ reply' = [reply EXCEPT ![job] = "gone"]
          /\ pc' = "select" /\ job' = None /\ sentBy' = sentBy
      BY <2>4 DEF Skip, line
    <3>2. mon'.waiting = chan /\ mon'.accepting = mon.accepting
      <4>1. mon \in MonSet /\ chan \in Seq(Jobs)
        BY <1>0
      <4>2. QED BY <2>1, <2>4, <4>1, BegunData DEF Skip
    <3>3. Result' = [Result EXCEPT ![job] = "resolved"]
      <4>1. PICK w : w = Verdict("gone")
        OBVIOUS
      <4>2. Result' = [Result EXCEPT ![job] = w]
        BY <1>0, <2>1, <3>1, <4>1, ResultExcept
      <4>3. QED BY <4>1, <4>2, Verdicts DEF Answers
    <3>4. Queue!Skip
      BY <2>1, <2>2, <2>3, <3>1, <3>2, <3>3 DEF Queue!Skip
    <3>5. QED BY <3>4 DEF Queue!Next
  <2>5. CASE Begin
    <3>1. /\ mon' = Begun(mon, job, FALSE) /\ UNCHANGED <<reply, job, sentBy>>
          /\ pc' \in {"next", "refuse"}
      BY <2>5 DEF Begin, line
    <3>2. mon'.waiting = chan /\ mon'.accepting = mon.accepting
      <4>1. mon \in MonSet /\ chan \in Seq(Jobs)
        BY <1>0
      <4>2. QED BY <2>1, <2>5, <4>1, BegunData DEF Begin
    <3>3. Queue!Start
      BY <2>1, <2>2, <2>3, <3>1, <3>2, ResultSame DEF Queue!Start
    <3>4. QED BY <3>3 DEF Queue!Next
  <2>6. QED BY <1>2, <2>4, <2>5
<1>3. CASE RefuseReply \/ Done \/ ProgramError \/ FailReply
  <2>1. /\ job \in Jobs /\ pc \notin {"skip", "begin"}
    BY <1>0, <1>3 DEF RefuseReply, Done, ProgramError, FailReply, SchedInv, InHand
  <2>2. /\ job' = None /\ sentBy' = sentBy
        /\ \E o : mon' = Finished(mon, o) \/ (o \in {"recovering", "quarantined"} /\ mon' = InPhase(mon, o))
    BY <1>3 DEF RefuseReply, Done, ProgramError, FailReply, line
  <2>3. mon'.accepting = mon.accepting /\ mon'.waiting = mon.waiting
    <3>1. PICK o : mon' = Finished(mon, o) \/ (o \in {"recovering", "quarantined"} /\ mon' = InPhase(mon, o))
      BY <2>2
    <3>2. Finished(mon, o).accepting = mon.accepting /\ Finished(mon, o).waiting = mon.waiting
      BY <1>0, FinishedData
    <3>3. QED BY <1>0, <3>1, <3>2, PhaseData
  <2>4. \E r \in Answers : Deliver(job, r)
    <3>1. txn.error \in {"none", "timeout", "io", "overflow"}
      BY DEF LineTypeOK
    <3>2. QED BY <1>3, <3>1 DEF RefuseReply, Done, ProgramError, FailReply, Answers, Issued
  <2>5. Result' = [Result EXCEPT ![job] = "resolved"]
    BY <1>0, <2>1, <2>4, ResultDelivered
  <2>6. Active' = None
    BY <2>2 DEF Active
  <2>7. Queue!Resolve
    BY <1>0, <2>1, <2>2, <2>3, <2>5, <2>6 DEF Queue!Resolve, Active
  <2>8. QED BY <2>7 DEF Queue!Next
<1>4. CASE RefuseFinish \/ FailFinish
  <2>1. /\ UNCHANGED <<reply, job, sentBy>> /\ pc \notin {"skip", "begin"} /\ pc' \notin {"skip", "begin"}
        /\ \E o : mon' = Finished(mon, o)
    BY <1>4 DEF RefuseFinish, FailFinish, line
  <2>2. PICK o : mon' = Finished(mon, o)
    BY <2>1
  <2>3. Finished(mon, o).accepting = mon.accepting /\ Finished(mon, o).waiting = mon.waiting
    BY <1>0, FinishedData
  <2>4. QED BY <2>1, <2>2, <2>3, ResultSame, QueueStutter DEF Active
<1>5. CASE WorkerClose
  <2>1. /\ pc = "closing" /\ pc' = "dead" /\ mon' = Closed(mon) /\ reply' = Dropped(Range(chan))
        /\ UNCHANGED <<job, sentBy>>
    BY <1>5 DEF WorkerClose, line
  <2>2. job = None /\ mon.waiting = chan
    BY <2>1 DEF SchedInv, InHand, WaitingIsChannel
  <2>3. mon'.waiting = <<>> /\ mon'.accepting = FALSE
    <3>1. Closed(mon).waiting = <<>> /\ Closed(mon).accepting = FALSE
      BY <1>0 DEF Closed, MonSet
    <3>2. QED BY <2>1, <3>1
  <2>4. Result' = [j \in Jobs |-> IF j \in Range(mon.waiting) THEN "resolved" ELSE Result[j]]
    <3>1. \A j \in Jobs : Verdict(reply'[j]) = IF j \in Range(chan) THEN "resolved" ELSE Verdict(reply[j])
      <4>1. "closed" \in Answers /\ "gone" \in Answers
        BY DEF Answers
      <4>2. QED BY <2>1, <4>1, Verdicts DEF Dropped
    <3>2. \A j \in Jobs : Result[j] = Verdict(reply[j])
      BY ResultIs
    <3>3. Result' = [j \in Jobs |-> Verdict(reply'[j])]
      BY DEF Result, Verdict
    <3>4. QED BY <2>2, <3>1, <3>2, <3>3
  <2>5. Queue!Lose
    BY <2>1, <2>2, <2>3, <2>4 DEF Queue!Lose, Queue!Range, Range
  <2>6. QED BY <2>5 DEF Queue!Next
<1>6. CASE Aborted
  <2>1. /\ pc \in Awaiting /\ pc \notin Running /\ chan = <<>> /\ job = None
        /\ reply' = Dropped(Range(chan) \cup ({job} \ {None})) /\ job' = None /\ UNCHANGED <<mon, sentBy>>
    BY <1>6 DEF Aborted, Awaiting, SchedInv, InHand, ClosedIsEmpty, WaitingIsChannel, Running, line
  <2>2. Range(chan) \cup ({job} \ {None}) = {}
    BY <2>1 DEF Range
  <2>3. reply' = reply
    BY <1>0, <2>1, <2>2 DEF Dropped
  <2>4. QED BY <2>1, <2>3, ResultSame, QueueStutter DEF Active
<1>7. CASE Write \/ WriteFail
  <2>1. sentBy' = Append(sentBy, job) /\ pc = "write"
    BY <1>7 DEF Write, WriteFail
  <2>2. pc' \in {"reply", "fail"} /\ UNCHANGED <<mon, reply, job>>
    BY <1>7 DEF Write, WriteFail, Failing
  <2>3. job # None /\ mon.accepting
    BY <2>1 DEF SchedInv, InHand, ClosedIsEmpty, Running
  <2>4. Queue!Command
    BY <2>1, <2>2, <2>3, ResultSame DEF Queue!Command
  <2>5. QED BY <2>4 DEF Queue!Next
<1>8. CASE ProgramFinish \/ ProgramFail \/ ProgramWait \/ (\E prompt \in BOOLEAN : ProgramCommand(prompt))
           \/ DelayEnd \/ DelayFail \/ ReadReply \/ ReplyTimeout \/ ReplyOverflow \/ ReplyIo
  <2>1. sentBy' = sentBy
    BY <1>8 DEF ProgramFinish, ProgramFail, ProgramWait, ProgramCommand, Act, DelayEnd, DelayFail, ReadReply,
                ReplyTimeout, ReplyOverflow, ReplyIo, line
  <2>2. QED BY <1>8, <2>1, TransactionMoves, QueueMoves
<1>9. CASE LateQuiet \/ IdleRead \/ Disconnect \/ RecoverRead \/ RecoverEnd \/ Settle
  <2>1. sentBy' = sentBy
    BY <1>9 DEF LateQuiet, IdleRead, Disconnect, RecoverRead, RecoverEnd, Settle, line
  <2>2. QED BY <1>9, <2>1, BetweenMoves, QueueMoves
<1>10. QED BY <1>1, <1>2, <1>3, <1>4, <1>5, <1>6, <1>7, <1>8, <1>9 DEF Worker

LEMMA QueueStep == PortInv /\ Issued /\ [Next]_vars => [Queue!Next]_(Queue!vars)
<1> SUFFICES ASSUME PortInv, Issued, [Next]_vars PROVE [Queue!Next]_(Queue!vars)
  OBVIOUS
<1>0. SchedInv /\ SchedTypeOK /\ LineTypeOK
  BY DEF PortInv, SchedInv
<1>1. CASE Callers
  BY <1>0, <1>1, QueueCallers
<1>2. CASE Close
  BY <1>0, <1>2, QueueClose
<1>3. CASE Worker
  BY <1>0, <1>3, QueueWorker
<1>4. CASE Modem \/ UNCHANGED vars
  <2>1. UNCHANGED <<mon, reply, pc, job, sentBy>>
    BY <1>4 DEF Modem, Answer, Chatter, Unplug, vars
  <2>2. QED BY <2>1, ResultSame, QueueStutter DEF Active
<1>5. QED BY <1>1, <1>2, <1>3, <1>4 DEF Next

\* The port implements TxnQueue: transactions are executed one at a time and in the order of
\* acceptance, their commands are not mixed, each is resolved once, and a closed port writes
\* nothing any more.
THEOREM PortImplementsQueue == Spec => Implements
<1>1. Spec => []Issued
  BY IssuedInit, IssuedStep, PortInvariant, PTL DEF Spec
<1>2. QED BY <1>1, QueueInit, QueueStep, PortInvariant, PTL DEF Spec, Implements, Queue!Spec
=============================================================================
