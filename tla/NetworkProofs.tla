--------------------------- MODULE NetworkProofs ----------------------------
(***************************************************************************)
(* Proofs about the mobile connection of one modem, for any number of      *)
(* operations at a time, any configurations, any number of edits, calls,   *)
(* replugs and crashes, and any set of commands a dial sends.              *)
(***************************************************************************)
EXTENDS Network, SequenceTheorems, TLAPS

-----------------------------------------------------------------------------
(* Sequences of which one entry is taken out.                                *)

\* What is left of s when its entry k is gone.
IsWithout(r, s, k) ==
  /\ Len(r) = Len(s) - 1 /\ DOMAIN r = 1..(Len(s) - 1)
  /\ \A i \in DOMAIN r : r[i] = IF i < k THEN s[i] ELSE s[i + 1]

LEMMA RemovedAt ==
  ASSUME NEW S, NEW s \in Seq(S), NEW k \in 1..Len(s)
  PROVE  RemoveAt(s, k) \in Seq(S) /\ IsWithout(RemoveAt(s, k), s, k)
<1> DEFINE a == SubSeq(s, 1, k - 1)
           b == SubSeq(s, k + 1, Len(s))
<1>0. Len(s) \in Nat /\ \A i \in 1..Len(s) : s[i] \in S
  BY LenProperties, ElementOfSeq
<1>1. a \in Seq(S) /\ Len(a) = k - 1 /\ \A i \in 1..(k - 1) : a[i] = s[i]
  <2>1. \A i \in 1..(k - 1) : s[i] \in S
    BY <1>0
  <2>2. QED BY <1>0, <2>1, SubSeqProperties
<1>2. b \in Seq(S) /\ Len(b) = Len(s) - k /\ \A i \in 1..(Len(s) - k) : b[i] = s[k + i]
  <2>1. \A i \in (k + 1)..Len(s) : s[i] \in S
    BY <1>0
  <2>2. /\ b \in Seq(S)
        /\ Len(b) = IF k + 1 <= Len(s) THEN Len(s) - (k + 1) + 1 ELSE 0
        /\ \A i \in 1..(Len(s) - (k + 1) + 1) : b[i] = s[(k + 1) + i - 1]
    BY <1>0, <2>1, SubSeqProperties
  <2>3. QED BY <2>2, <1>0
<1> HIDE DEF a, b
<1>3. /\ a \o b \in Seq(S) /\ Len(a \o b) = Len(s) - 1
      /\ \A i \in 1..(Len(s) - 1) : (a \o b)[i] = IF i <= k - 1 THEN a[i] ELSE b[i - (k - 1)]
  BY <1>0, <1>1, <1>2, ConcatProperties
<1>4. RemoveAt(s, k) = a \o b
  BY DEF RemoveAt, a, b
<1>5. DOMAIN (a \o b) = 1..(Len(s) - 1)
  BY <1>3, LenProperties
<1>6. ASSUME NEW i \in 1..(Len(s) - 1)
      PROVE  (a \o b)[i] = IF i < k THEN s[i] ELSE s[i + 1]
  <2>1. CASE i < k
    BY <2>1, <1>0, <1>1, <1>3
  <2>2. CASE ~(i < k)
    <3>1. i - (k - 1) \in 1..(Len(s) - k) /\ k + (i - (k - 1)) = i + 1
      BY <2>2, <1>0
    <3>2. QED BY <2>2, <3>1, <1>0, <1>2, <1>3
  <2>3. QED BY <2>1, <2>2
<1>7. QED BY <1>3, <1>4, <1>5, <1>6 DEF IsWithout

\* Removing the one entry that is e.
LEMMA RemovedFirst ==
  ASSUME NEW S, NEW s \in Seq(S), NEW e,
         \A i, j \in DOMAIN s : s[i] = s[j] => i = j
  PROVE  \/ RemoveFirst(s, e) = s /\ \A i \in DOMAIN s : s[i] # e
         \/ \E k \in 1..Len(s) : /\ s[k] = e /\ RemoveFirst(s, e) \in Seq(S)
                                 /\ IsWithout(RemoveFirst(s, e), s, k)
<1>0. DOMAIN s = 1..Len(s) /\ Len(s) \in Nat
  BY LenProperties
<1>1. CASE \A i \in 1..Len(s) : s[i] # e
  BY <1>0, <1>1 DEF RemoveFirst
<1>2. CASE \E i \in 1..Len(s) : s[i] = e
  <2>1. PICK k \in 1..Len(s) : s[k] = e
    BY <1>2
  <2>2. {i \in 1..Len(s) : s[i] = e} = {k}
    BY <1>0, <2>1
  <2>3. Min({k}) = k
    BY <1>0 DEF Min
  <2>4. SelectInSeq(s, LAMBDA v : v = e) = k
    BY <2>2, <2>3 DEF SelectInSeq
  <2>5. RemoveFirst(s, e) = RemoveAt(s, k)
    BY <1>2, <2>4 DEF RemoveFirst
  <2>6. QED BY <2>1, <2>5, RemovedAt
<1>3. QED BY <1>1, <1>2

LEMMA RemovedMatch ==
  ASSUME NEW s \in Seq(JobSet), NEW e,
         \A i, j \in DOMAIN s : s[i].t = s[j].t => i = j
  PROVE  LET r == RemoveFirstMatch(s, LAMBDA j : j.t = e)
         IN  \/ r = s /\ \A i \in DOMAIN s : s[i].t # e
             \/ \E k \in 1..Len(s) : s[k].t = e /\ r \in Seq(JobSet) /\ IsWithout(r, s, k)
<1>0. DOMAIN s = 1..Len(s) /\ Len(s) \in Nat
  BY LenProperties
<1>1. CASE \A i \in 1..Len(s) : s[i].t # e
  BY <1>0, <1>1 DEF RemoveFirstMatch
<1>2. CASE \E i \in 1..Len(s) : s[i].t = e
  <2>1. PICK k \in 1..Len(s) : s[k].t = e
    BY <1>2
  <2>2. {i \in 1..Len(s) : s[i].t = e} = {k}
    BY <1>0, <2>1
  <2>3. Min({k}) = k
    BY <1>0 DEF Min
  <2>4. SelectInSeq(s, LAMBDA j : j.t = e) = k
    BY <2>2, <2>3 DEF SelectInSeq
  <2>5. RemoveFirstMatch(s, LAMBDA j : j.t = e) = RemoveAt(s, k)
    BY <1>2, <2>4 DEF RemoveFirstMatch
  <2>6. QED BY <2>1, <2>5, RemovedAt
<1>3. QED BY <1>1, <1>2

-----------------------------------------------------------------------------
(* The invariant.                                                            *)

MgrStates == Started \cup {"none", "connecting", "disconnected", "failed"}
OffSet == [cfg : Configs, kept : BOOLEAN]
MgrSet == [queue : Seq(Slots), state : MgrStates, off : OffSet \cup {None}]
DogSet == [cfg : Configs \cup {None}, task : Slots \cup {0}]
SessionSet == [cid : {c.dials : c \in Configs}, creds : 1..2, known : BOOLEAN, on : 1..2]
ModemSet == [slot : 1..2, sim : {"ready", "pin", "puk"}, left : 0..PinTries, sessions : SUBSET SessionSet]
NetifSet == [name : {c.name : c \in Configs}, child : BOOLEAN, device : {DataDevice(c) : c \in Configs}]

\* The lock's queue holds the operations that exist, each of them once.
OnePlace ==
  /\ \A i, j \in DOMAIN mgr.queue : mgr.queue[i] = mgr.queue[j] => i = j
  /\ \A t \in Slots : task[t].at # "free" <=> \E i \in DOMAIN mgr.queue : mgr.queue[i] = t

\* An operation that waits for the lock, or has it and has done nothing with it.
Parked(t) == task[t].at = FirstStep(task[t].op) /\ task[t].slot = 0

\* Of the interfaces of a configuration only the child may still be up, and that only if the
\* configuration does not have one, or netifd refused (kept) to take it down.
ParentDown(c) == \A i \in netif : i.name = c.name => i.child
BothDown(c, kept) == \A i \in netif : i.name = c.name => i.child /\ (c.dual => kept)

\* The operation that has the lock.  The slot it read is the modem's, the reported state says
\* that it runs, and what a disconnect has put down stays down.
Steps == {"check", "down", "down6", "hang", "dial", "add", "add6", "report"}
Active(t) ==
  /\ Holds(t) /\ task[t].at \in Steps /\ task[t].op # "switch"
  /\ task[t].slot \in {0, modem.slot}
  /\ task[t].at # "check" => mgr.state \in Started
  /\ task[t].at \in {"dial", "add", "add6", "report"} => task[t].op # "disconnect"
  /\ task[t].op = "disconnect" /\ task[t].ok =>
       /\ task[t].at = "down6" => ParentDown(task[t].cfg)
       /\ task[t].at = "hang" => BothDown(task[t].cfg, task[t].kept)

Tasks == \A t \in Slots : task[t].at = "free" \/ Parked(t) \/ Active(t)

\* A program at the port is that of the operation with the lock, or a dial that began for an
\* operation that is gone.
JobOK(j) ==
  /\ j.t # 0 => Holds(j.t) /\ task[j.t].at = j.prog /\ j.cfg = task[j.t].cfg
  /\ j.t = 0 => j.prog = "dial"
  /\ j.prog = "dial" => j.slot \in {0, modem.slot}
  /\ j.prog # "dial" => j.stage = 0
  /\ j.pins <= 1 /\ (~j.pinned => j.pins = 0)
  /\ j.stage \in {2, 3} => j.pinned
  /\ j.stage = 1 /\ j.reply = "pin" /\ ~j.pinned => modem.sim = "pin"

\* Only the first program has begun, and only it can be an orphan.
Programs ==
  /\ \A i \in DOMAIN line : JobOK(line[i])
  /\ \A i \in DOMAIN line : i > 1 => line[i].t # 0 /\ line[i].stage = 0
  /\ \A i, j \in DOMAIN line : line[i].t = line[j].t => i = j

SimAlive == modem.sim # "puk" => modem.left > 0

\* What a disconnect was to turn off is off.
TurnedOff(off) ==
  (\A s \in modem.sessions : s.cid # off.cfg.hangs) /\ BothDown(off.cfg, off.kept)

\* So it is with the disconnect that is reported, and no dial is left that could change it.
OffIsOff ==
  mgr.state = "disconnected" => TurnedOff(mgr.off) /\ \A i \in DOMAIN line : line[i].t # 0

NetInv == TypeOK /\ OnePlace /\ Tasks /\ Programs /\ SimAlive /\ CredentialsMatchSim /\ OffIsOff

-----------------------------------------------------------------------------
(* What the invariant says of the line, the lock and the tasks.              *)

LEMMA Types ==
  ASSUME TypeOK
  PROVE  /\ cfg \in Configs /\ mgr \in MgrSet /\ mgr.queue \in Seq(Slots) /\ mgr.state \in MgrStates
         /\ mgr.off \in OffSet \cup {None}
         /\ task \in [Slots -> Task \cup {Free}] /\ line \in Seq(JobSet)
         /\ DOMAIN line = 1..Len(line) /\ Len(line) \in Nat
         /\ DOMAIN mgr.queue = 1..Len(mgr.queue) /\ Len(mgr.queue) \in Nat
         /\ auto \in Configs \cup {None} /\ dog \in DogSet /\ modem \in ModemSet
         /\ netif \subseteq NetifSet /\ used \in 0..MaxEvents
<1>1. /\ cfg \in Configs /\ mgr \in MgrSet /\ task \in [Slots -> Task \cup {Free}]
      /\ line \in Seq(JobSet) /\ auto \in Configs \cup {None} /\ dog \in DogSet
      /\ modem \in ModemSet /\ netif \subseteq NetifSet /\ used \in 0..MaxEvents
  BY DEF TypeOK, MgrSet, MgrStates, OffSet, DogSet, ModemSet, SessionSet, NetifSet
<1>2. mgr.queue \in Seq(Slots) /\ mgr.state \in MgrStates /\ mgr.off \in OffSet \cup {None}
  BY <1>1 DEF MgrSet
<1>3. QED BY <1>1, <1>2, LenProperties

LEMMA Typed ==
  ASSUME cfg \in Configs, mgr \in MgrSet, task \in [Slots -> Task \cup {Free}],
         line \in Seq(JobSet), auto \in Configs \cup {None}, dog \in DogSet, modem \in ModemSet,
         netif \subseteq NetifSet, used \in 0..MaxEvents
  PROVE  TypeOK
BY DEF TypeOK, MgrSet, MgrStates, OffSet, DogSet, ModemSet, SessionSet, NetifSet

\* An operation is a Task.
LEMMA TaskIs ==
  ASSUME NetInv, NEW t \in Slots
  PROVE  /\ task[t].at # "free" => task[t] \in Task
         /\ task[t] \in Task => task[t].at \in Places /\ task[t].at # "free"
         /\ task[t] \in Task => task[t].slot \in 0..2 /\ task[t].cfg \in Configs
         /\ t \in Nat /\ t # 0
<1>1. task[t] \in Task \cup {Free}
  BY Types DEF NetInv
<1>2. t \in Nat /\ t # 0
  BY NetworkAssumption
<1>3. QED BY <1>1, <1>2 DEF Task, Free, Places

LEMMA Holder ==
  ASSUME NetInv, NEW t, Holds(t)
  PROVE  /\ t \in Slots /\ task[t].at # "free" /\ mgr.queue[1] = t /\ 1 \in DOMAIN mgr.queue
         /\ \A u \in Slots : u # t => task[u].at = "free" \/ Parked(u)
<1>1. mgr.queue \in Seq(Slots) /\ mgr.queue # <<>> /\ Head(mgr.queue) = t
  BY Types DEF NetInv, Holds
<1>2. Len(mgr.queue) \in Nat \ {0} /\ DOMAIN mgr.queue = 1..Len(mgr.queue)
  BY <1>1, EmptySeq, LenProperties
<1>3. t \in Slots /\ mgr.queue[1] = t /\ 1 \in DOMAIN mgr.queue
  BY <1>1, <1>2, HeadTailProperties
<1>4. task[t].at # "free"
  BY <1>3 DEF NetInv, OnePlace
<1>5. \A u \in Slots : u # t => ~Active(u)
  BY <1>1 DEF Active, Holds
<1>6. QED BY <1>3, <1>4, <1>5 DEF NetInv, Tasks

LEMMA LineFacts ==
  ASSUME NetInv, line # <<>>
  PROVE  /\ 1 \in DOMAIN line /\ Job \in JobSet /\ JobOK(Job)
         /\ Job.t # 0 => /\ Job.t \in Slots /\ Holds(Job.t) /\ task[Job.t].at = Job.prog
                         /\ line = <<Job>> /\ Tail(line) = <<>>
         /\ Job.t = 0 => Job.prog = "dial"
         /\ Tail(line) \in Seq(JobSet) /\ DOMAIN Tail(line) \subseteq {1}
         /\ \A i \in DOMAIN Tail(line) :
              i = 1 /\ 2 \in DOMAIN line /\ Tail(line)[i] = line[2]
              /\ JobOK(line[2]) /\ line[2].t # 0 /\ line[2].stage = 0 /\ line[2].t # Job.t
<1>1. line \in Seq(JobSet) /\ DOMAIN line = 1..Len(line) /\ Len(line) \in Nat \ {0}
  BY Types, EmptySeq DEF NetInv
<1>2. /\ Tail(line) \in Seq(JobSet) /\ Len(Tail(line)) = Len(line) - 1
      /\ \A i \in 1..Len(Tail(line)) : Tail(line)[i] = line[i + 1]
      /\ DOMAIN Tail(line) = 1..(Len(line) - 1)
  BY <1>1, HeadTailProperties, LenProperties
<1>3. 1 \in DOMAIN line /\ Job \in JobSet /\ JobOK(Job)
  BY <1>1, ElementOfSeq DEF Job, NetInv, Programs
<1>4. \A i \in DOMAIN line : line[i].t # 0 => line[i].t = Head(mgr.queue)
  BY DEF NetInv, Programs, JobOK, Holds
<1>5. Len(line) <= 2
  <2>1. ASSUME 3 \in DOMAIN line PROVE FALSE
    <3>1. 2 \in DOMAIN line
      BY <1>1, <2>1
    <3>2. line[2].t # 0 /\ line[3].t # 0
      BY <2>1, <3>1 DEF NetInv, Programs
    <3>3. QED BY <1>4, <2>1, <3>1, <3>2 DEF NetInv, Programs
  <2>2. QED BY <1>1, <2>1
<1>6. ASSUME 2 \in DOMAIN line
      PROVE  JobOK(line[2]) /\ line[2].t # 0 /\ line[2].stage = 0 /\ line[2].t # Job.t
  BY <1>3, <1>6 DEF NetInv, Programs, Job
<1>7. ASSUME Job.t # 0
      PROVE  Job.t \in Slots /\ Len(line) = 1 /\ line = <<Job>> /\ Tail(line) = <<>>
  <2>1. Job.t \in Slots
    BY <1>3, <1>7 DEF JobSet
  <2>2. 2 \notin DOMAIN line
    BY <1>3, <1>4, <1>6, <1>7 DEF Job
  <2>3. Len(line) = 1
    BY <1>1, <2>2
  <2>4. QED BY <1>1, <1>2, <2>1, <2>3, EmptySeq DEF Job
<1>8. /\ Job.t # 0 => Holds(Job.t) /\ task[Job.t].at = Job.prog
      /\ Job.t = 0 => Job.prog = "dial"
  BY <1>3 DEF JobOK
<1>9. DOMAIN Tail(line) \subseteq {1}
  BY <1>1, <1>2, <1>5
<1>10. ASSUME NEW i \in DOMAIN Tail(line)
       PROVE  i = 1 /\ 2 \in DOMAIN line /\ Tail(line)[i] = line[2]
  BY <1>1, <1>2, <1>9, <1>10
<1>11. ASSUME NEW i \in DOMAIN Tail(line)
       PROVE  /\ i = 1 /\ 2 \in DOMAIN line /\ Tail(line)[i] = line[2]
              /\ JobOK(line[2]) /\ line[2].t # 0 /\ line[2].stage = 0 /\ line[2].t # Job.t
  BY <1>6, <1>10
<1>12. Job.t # 0 => Job.t \in Slots /\ line = <<Job>> /\ Tail(line) = <<>>
  BY <1>7
<1> HIDE DEF Job
<1>13. QED BY <1>2, <1>3, <1>8, <1>9, <1>11, <1>12

\* Nothing but the operation with the lock is under way, and while it dials the modem is not
\* reported as disconnected.
LEMMA DialIsReported ==
  ASSUME NetInv, Running("dial")
  PROVE  mgr.state # "disconnected"
<1>1. line # <<>> /\ Job.prog = "dial"
  BY DEF Running, Job
<1>2. CASE Job.t = 0
  BY <1>1, <1>2, LineFacts DEF NetInv, OffIsOff, Job
<1>3. CASE Job.t # 0
  <2>1. Job.t \in Slots /\ task[Job.t].at = "dial"
    BY <1>1, <1>3, LineFacts
  <2>2. Active(Job.t)
    BY <2>1 DEF NetInv, Tasks, Parked, FirstStep
  <2>3. QED BY <2>1, <2>2 DEF Active, Started
<1>4. QED BY <1>2, <1>3

-----------------------------------------------------------------------------
(* An operation comes and goes.                                              *)

LEMMA SpawnKeeps ==
  ASSUME NetInv, NEW t \in Slots, NEW op \in {"connect", "disconnect", "redial", "switch"},
         NEW by \in {"client", "auto", "dog", "task"}, NEW c \in Configs,
         Spawn(t, op, by, c), UNCHANGED <<modem, netif, line>>
  PROVE  /\ task' \in [Slots -> Task \cup {Free}] /\ mgr' \in MgrSet
         /\ mgr'.state = mgr.state /\ mgr'.off = mgr.off
         /\ OnePlace' /\ Tasks' /\ Programs'
<1> DEFINE k == [at |-> FirstStep(op), op |-> op, by |-> by, cfg |-> c, slot |-> 0, ok |-> TRUE,
                 kept |-> FALSE]
           q == mgr.queue
<1>0. /\ task \in [Slots -> Task \cup {Free}] /\ mgr \in MgrSet /\ q \in Seq(Slots)
      /\ DOMAIN q = 1..Len(q) /\ Len(q) \in Nat /\ task[t].at = "free"
  BY Types DEF NetInv, Spawn
<1>1. k \in Task /\ k.at = FirstStep(k.op) /\ k.slot = 0 /\ k.at # "free"
  BY DEF Task, Places, FirstStep
<1>2. task' = [task EXCEPT ![t] = k] /\ mgr' = [mgr EXCEPT !.queue = Append(q, t)]
  BY DEF Spawn
<1> HIDE DEF k
<1>3. /\ task' \in [Slots -> Task \cup {Free}] /\ task'[t] = k
      /\ \A u \in Slots : u # t => task'[u] = task[u]
  BY <1>0, <1>1, <1>2
<1>4. /\ Append(q, t) \in Seq(Slots) /\ Append(q, t) # <<>>
      /\ DOMAIN Append(q, t) = 1..(Len(q) + 1)
      /\ \A i \in 1..Len(q) : Append(q, t)[i] = q[i]
      /\ Append(q, t)[Len(q) + 1] = t
      /\ q # <<>> => Head(Append(q, t)) = Head(q)
  BY <1>0, AppendProperties, HeadTailAppend, LenProperties
<1>5. /\ mgr'.queue = Append(q, t) /\ mgr'.state = mgr.state /\ mgr'.off = mgr.off
      /\ mgr' \in MgrSet
  BY <1>0, <1>2, <1>4 DEF MgrSet
<1>6. OnePlace'
  <2>1. \A i \in 1..Len(q) : q[i] # t
    BY <1>0 DEF NetInv, OnePlace
  <2>2. \A i, j \in DOMAIN mgr'.queue : mgr'.queue[i] = mgr'.queue[j] => i = j
    BY <2>1, <1>0, <1>4, <1>5 DEF NetInv, OnePlace
  <2>3. ASSUME NEW u \in Slots
        PROVE  task'[u].at # "free" <=> \E i \in DOMAIN mgr'.queue : mgr'.queue[i] = u
    <3>1. CASE u = t
      BY <3>1, <1>0, <1>1, <1>3, <1>4, <1>5
    <3>2. CASE u # t
      <4>1. task[u].at # "free" <=> \E i \in 1..Len(q) : q[i] = u
        BY <1>0 DEF NetInv, OnePlace
      <4>2. (\E i \in 1..Len(q) : q[i] = u) <=> \E i \in 1..(Len(q) + 1) : Append(q, t)[i] = u
        BY <3>2, <1>0, <1>4
      <4>3. QED BY <3>2, <4>1, <4>2, <1>3, <1>4, <1>5
    <3>3. QED BY <3>1, <3>2
  <2>4. QED BY <2>2, <2>3 DEF OnePlace
<1>7. \A u : Holds(u) => Holds(u)'
  BY <1>4, <1>5 DEF Holds
<1>8. Tasks'
  <2>1. Parked(t)'
    BY <1>1, <1>3 DEF Parked
  <2>2. ASSUME NEW u \in Slots, u # t, Active(u) PROVE Active(u)'
    BY <2>2, <1>3, <1>5, <1>7 DEF Active, ParentDown, BothDown
  <2>3. ASSUME NEW u \in Slots, u # t, Parked(u) PROVE Parked(u)'
    BY <2>3, <1>3 DEF Parked
  <2>4. QED BY <2>1, <2>2, <2>3, <1>3 DEF Tasks, NetInv
<1>9. Programs'
  <2>1. ASSUME NEW j \in JobSet, JobOK(j) PROVE JobOK(j)'
    <3>1. j.t # 0 => j.t \in Slots /\ j.t # t /\ Holds(j.t)
      <4>1. j.prog # "free" /\ j.t \in Slots \cup {0}
        BY DEF JobSet
      <4>2. QED BY <2>1, <4>1, <1>0 DEF JobOK
    <3>2. j.t # 0 => Holds(j.t)' /\ task'[j.t] = task[j.t]
      BY <3>1, <1>3, <1>7
    <3>3. QED BY <2>1, <3>2 DEF JobOK
  <2>2. \A i \in DOMAIN line : line[i] \in JobSet
    BY Types, ElementOfSeq DEF NetInv
  <2>3. QED BY <2>1, <2>2 DEF NetInv, Programs
<1>10. QED BY <1>3, <1>5, <1>6, <1>8, <1>9

\* The queue without one operation: the others keep their places.
LEMMA QueueWithout ==
  ASSUME NetInv, NEW t \in Slots
  PROVE  LET q == mgr.queue
             r == RemoveFirst(q, t)
         IN  /\ r \in Seq(Slots)
             /\ \A i, j \in DOMAIN r : r[i] = r[j] => i = j
             /\ \A u \in Slots : (\E i \in DOMAIN r : r[i] = u) <=> u # t /\ \E i \in DOMAIN q : q[i] = u
             /\ (q = <<>> \/ Head(q) # t) => (r # <<>> <=> q # <<>>) /\ (q # <<>> => Head(r) = Head(q))
<1> DEFINE q == mgr.queue
           r == RemoveFirst(q, t)
<1>0. /\ q \in Seq(Slots) /\ DOMAIN q = 1..Len(q) /\ Len(q) \in Nat
      /\ \A i, j \in DOMAIN q : q[i] = q[j] => i = j
  BY Types DEF NetInv, OnePlace
<1> HIDE DEF q
<1>1. CASE r = q /\ \A i \in DOMAIN q : q[i] # t
  BY <1>0, <1>1 DEF q
<1>2. CASE \E k \in 1..Len(q) : q[k] = t /\ r \in Seq(Slots) /\ IsWithout(r, q, k)
  <2>1. PICK k \in 1..Len(q) : q[k] = t /\ r \in Seq(Slots) /\ IsWithout(r, q, k)
    BY <1>2
  <2> HIDE DEF r
  <2>2. /\ DOMAIN r = 1..(Len(q) - 1) /\ Len(r) = Len(q) - 1
        /\ \A i \in DOMAIN r : r[i] = IF i < k THEN q[i] ELSE q[i + 1]
    BY <2>1 DEF IsWithout
  <2>3. \A i, j \in DOMAIN r : r[i] = r[j] => i = j
    BY <1>0, <2>2
  <2>4. ASSUME NEW u \in Slots
        PROVE  (\E i \in DOMAIN r : r[i] = u) <=> u # t /\ \E i \in DOMAIN q : q[i] = u
    <3>1. ASSUME NEW i \in DOMAIN r, r[i] = u PROVE u # t /\ \E m \in DOMAIN q : q[m] = u
      <4>1. CASE i < k
        BY <4>1, <3>1, <1>0, <2>1, <2>2
      <4>2. CASE ~(i < k)
        <5>1. i + 1 \in DOMAIN q /\ q[i + 1] = u /\ i + 1 # k
          BY <4>2, <3>1, <1>0, <2>2
        <5>2. QED BY <5>1, <1>0, <2>1
      <4>3. QED BY <4>1, <4>2
    <3>2. ASSUME NEW m \in DOMAIN q, q[m] = u, u # t PROVE \E i \in DOMAIN r : r[i] = u
      <4>1. CASE m < k
        <5>1. m \in DOMAIN r /\ r[m] = u
          BY <4>1, <3>2, <1>0, <2>2
        <5>2. QED BY <5>1
      <4>2. CASE m > k
        <5>1. m - 1 \in DOMAIN r /\ r[m - 1] = u
          BY <4>2, <3>2, <1>0, <2>2
        <5>2. QED BY <5>1
      <4>3. QED BY <4>1, <4>2, <3>2, <1>0, <2>1
    <3>3. QED BY <3>1, <3>2
  <2>5. ASSUME q = <<>> \/ Head(q) # t
        PROVE  (r # <<>> <=> q # <<>>) /\ (q # <<>> => Head(r) = Head(q))
    <3>1. q # <<>> /\ Head(q) = q[1]
      BY <1>0, <2>1, EmptySeq
    <3>2. k # 1 /\ 1 \in DOMAIN r /\ r[1] = q[1]
      BY <3>1, <1>0, <2>1, <2>2, <2>5
    <3>3. r # <<>> /\ Head(r) = r[1]
      BY <3>2, <2>1, <2>2
    <3>4. QED BY <3>1, <3>2, <3>3
  <2>6. QED BY <2>1, <2>3, <2>4, <2>5 DEF q, r
<1>3. QED BY <1>0, <1>1, <1>2, RemovedFirst

\* When the operation with the lock ends, all that is left waits.
LEMMA LeavesKeeps ==
  ASSUME NetInv, NEW t, Holds(t), NEW state \in MgrStates, NEW off \in OffSet \cup {None},
         Leaves(t, state, off)
  PROVE  /\ task' \in [Slots -> Task \cup {Free}] /\ mgr' \in MgrSet
         /\ mgr'.state = state /\ mgr'.off = off /\ dog' \in DogSet /\ OnePlace' /\ Tasks'
<1> DEFINE r == RemoveFirst(mgr.queue, t)
<1>0. /\ t \in Slots /\ task \in [Slots -> Task \cup {Free}] /\ dog \in DogSet
      /\ \A u \in Slots : u # t => task[u].at = "free" \/ Parked(u)
  BY Types, Holder DEF NetInv
<1>1. /\ task' = [task EXCEPT ![t] = Free] /\ mgr' = [queue |-> r, state |-> state, off |-> off]
      /\ dog' = IF dog.task = t THEN [dog EXCEPT !.task = 0] ELSE dog
  BY DEF Leaves
<1>2. /\ r \in Seq(Slots)
      /\ \A i, j \in DOMAIN r : r[i] = r[j] => i = j
      /\ \A u \in Slots : (\E i \in DOMAIN r : r[i] = u) <=> u # t /\ \E i \in DOMAIN mgr.queue : mgr.queue[i] = u
  BY <1>0, QueueWithout
<1> HIDE DEF r
<1>3. /\ task' \in [Slots -> Task \cup {Free}] /\ task'[t] = Free
      /\ \A u \in Slots : u # t => task'[u] = task[u]
  BY <1>0, <1>1
<1>4. mgr' \in MgrSet /\ mgr'.state = state /\ mgr'.off = off /\ mgr'.queue = r
  BY <1>1, <1>2 DEF MgrSet
<1>5. dog' \in DogSet
  BY <1>0, <1>1 DEF DogSet
<1>6. Free.at = "free"
  BY DEF Free
<1>7. OnePlace'
  <2>1. \A u \in Slots : task'[u].at # "free" <=> \E i \in DOMAIN r : r[i] = u
    BY <1>2, <1>3, <1>6 DEF NetInv, OnePlace
  <2>2. QED BY <2>1, <1>2, <1>4 DEF OnePlace
<1>8. Tasks'
  <2>1. ASSUME NEW u \in Slots PROVE task'[u].at = "free" \/ Parked(u)'
    BY <1>0, <1>3, <1>6 DEF Parked
  <2>2. QED BY <2>1 DEF Tasks
<1>9. QED BY <1>3, <1>4, <1>5, <1>7, <1>8

\* The operation with the lock goes on: what is left is to show of it and of the line.
LEMMA ActiveKeeps ==
  ASSUME NetInv, NEW t, Holds(t), NEW k \in Task, task' = [task EXCEPT ![t] = k],
         mgr' \in MgrSet, mgr'.queue = mgr.queue, Parked(t)' \/ Active(t)'
  PROVE  task' \in [Slots -> Task \cup {Free}] /\ OnePlace' /\ Tasks' /\ Holds(t)'
<1>0. /\ t \in Slots /\ task \in [Slots -> Task \cup {Free}] /\ task[t].at # "free"
      /\ \A u \in Slots : u # t => task[u].at = "free" \/ Parked(u)
  BY Types, Holder DEF NetInv
<1>1. k.at # "free"
  BY DEF Task, Places
<1>2. /\ task' \in [Slots -> Task \cup {Free}] /\ task'[t] = k
      /\ \A u \in Slots : u # t => task'[u] = task[u]
  BY <1>0
<1>3. OnePlace'
  <2>1. \A u \in Slots : task'[u].at # "free" <=> task[u].at # "free"
    BY <1>0, <1>1, <1>2
  <2>2. QED BY <2>1 DEF NetInv, OnePlace
<1>4. Tasks'
  <2>1. \A u \in Slots : u # t => task'[u].at = "free" \/ Parked(u)'
    BY <1>0, <1>2 DEF Parked
  <2>2. QED BY <2>1 DEF Tasks
<1>5. Holds(t)'
  BY DEF Holds
<1>6. QED BY <1>2, <1>3, <1>4, <1>5

-----------------------------------------------------------------------------
(* A program of the line ends.                                               *)

\* What is left of the line is sound once the front program is gone.
LEMMA TailPrograms ==
  ASSUME NetInv, line # <<>>, line' = Tail(line),
         \/ Job.t # 0
         \/ UNCHANGED mgr /\ UNCHANGED task /\ modem'.slot = modem.slot
  PROVE  line' \in Seq(JobSet) /\ Programs' /\ \A i \in DOMAIN line' : line'[i].t # 0
<1>1. CASE Job.t # 0
  <2>1. line' = <<>>
    BY <1>1, LineFacts
  <2>2. <<>> \in Seq(JobSet) /\ DOMAIN <<>> = {}
    OBVIOUS
  <2>3. QED BY <2>1, <2>2 DEF Programs
<1>2. CASE Job.t = 0
  <2>1. /\ line' \in Seq(JobSet) /\ DOMAIN line' \subseteq {1}
        /\ \A i \in DOMAIN line' : /\ i = 1 /\ line'[i] = line[2] /\ JobOK(line[2])
                                   /\ line[2].t # 0 /\ line[2].stage = 0
    BY LineFacts
  <2>2. UNCHANGED <<mgr, task>> /\ modem'.slot = modem.slot
    BY <1>2
  <2>3. \A i \in DOMAIN line' : JobOK(line[i])'
    BY <2>1, <2>2 DEF JobOK, Holds
  <2>4. QED BY <2>1, <2>3 DEF Programs
<1>3. QED BY <1>1, <1>2

LEMMA ContinuedTask ==
  ASSUME NEW k \in Task, NEW prog \in {"query", "hang", "dial", "switch"}, NEW slot \in 0..2
  PROVE  LET n == Continued(k, prog, slot)
         IN  /\ n \in Task /\ n.cfg = k.cfg
             /\ prog = "query" => n.at = "check" /\ n.op = k.op /\ n.slot = slot
             /\ prog = "switch" => n.at = "query" /\ n.op = "redial" /\ n.slot = k.slot
             /\ prog = "hang" => n.at = "dial" /\ n.op = k.op /\ n.slot = k.slot
             /\ prog = "dial" => n.at = "add" /\ n.op = k.op /\ n.slot = 0
<1>0. 0 \in 0..2 /\ {"check", "query", "dial", "add"} \subseteq Places
  BY DEF Places
<1>1. CASE prog = "query"
  <2>1. Continued(k, prog, slot) = [k EXCEPT !.at = "check", !.slot = slot]
    BY <1>1 DEF Continued
  <2>2. QED BY <1>0, <1>1, <2>1 DEF Task
<1>2. CASE prog = "switch"
  <2>1. Continued(k, prog, slot) = [k EXCEPT !.at = "query", !.op = "redial"]
    BY <1>2 DEF Continued
  <2>2. QED BY <1>0, <1>2, <2>1 DEF Task
<1>3. CASE prog = "hang"
  <2>1. Continued(k, prog, slot) = [k EXCEPT !.at = "dial", !.ok = TRUE]
    BY <1>3 DEF Continued
  <2>2. QED BY <1>0, <1>3, <2>1 DEF Task
<1>4. CASE prog = "dial"
  <2>1. Continued(k, prog, slot) = [k EXCEPT !.at = "add", !.slot = 0]
    BY <1>4 DEF Continued
  <2>2. QED BY <1>0, <1>4, <2>1 DEF Task
<1>5. QED BY <1>1, <1>2, <1>3, <1>4

\* What is under way when a program runs: a query or a switch of a parked operation, or the
\* hang up or dial of an active one.
LEMMA Owner ==
  ASSUME NetInv, line # <<>>, Job.t # 0
  PROVE  /\ Job.t \in Slots /\ Holds(Job.t) /\ task[Job.t] \in Task /\ task[Job.t].at = Job.prog
         /\ Job.prog \in {"query", "switch"} =>
              /\ task[Job.t].slot = 0
              /\ Job.prog = "query" => task[Job.t].op \notin {"switch", "disconnect"}
         /\ Job.prog \in {"hang", "dial"} => Active(Job.t)
         /\ Job.cfg = task[Job.t].cfg
<1> DEFINE t == Job.t
<1>1. t \in Slots /\ Holds(t) /\ task[t].at = Job.prog /\ Job \in JobSet /\ Job.cfg = task[t].cfg
  BY LineFacts DEF JobOK
<1>2. Job.prog \in {"query", "hang", "dial", "switch"}
  BY <1>1 DEF JobSet
<1>3. task[t] \in Task /\ (Parked(t) \/ Active(t))
  BY <1>1, <1>2, TaskIs DEF NetInv, Tasks
<1> HIDE DEF t
<1>4. CASE Job.prog \in {"query", "switch"}
  BY <1>1, <1>3, <1>4 DEF Active, Steps, Parked, FirstStep, t
<1>5. CASE Job.prog \in {"hang", "dial"}
  BY <1>1, <1>3, <1>5 DEF Parked, FirstStep, t
<1>6. QED BY <1>1, <1>2, <1>3, <1>4, <1>5 DEF t

LEMMA DeliverContinues ==
  ASSUME NetInv, line # <<>>, NEW slot \in 0..2, NEW t, t = Job.t, t # 0,
         ~(Job.prog = "hang" /\ task[t].op = "disconnect"),
         task' = [task EXCEPT ![t] = Continued(@, Job.prog, slot)], UNCHANGED mgr,
         modem'.slot = modem.slot \/ Job.prog = "switch",
         Job.prog = "query" => slot \in {0, modem.slot}
  PROVE  task' \in [Slots -> Task \cup {Free}] /\ OnePlace' /\ Tasks'
<1> DEFINE k == Continued(task[t], Job.prog, slot)
<1>0. /\ t \in Slots /\ Holds(t) /\ task[t] \in Task /\ task[t].at = Job.prog
      /\ Job.prog \in {"query", "hang", "dial", "switch"} /\ mgr \in MgrSet
      /\ task \in [Slots -> Task \cup {Free}]
  BY Owner, LineFacts, Types DEF NetInv, JobSet
<1>1. k \in Task /\ task' = [task EXCEPT ![t] = k] /\ task'[t] = k
  BY <1>0, ContinuedTask
<1>2. Holds(t)'
  BY <1>0 DEF Holds
<1> HIDE DEF k
<1>3. Parked(t)' \/ Active(t)'
  <2>1. CASE Job.prog = "query"
    <3>1. task[t].op \notin {"switch", "disconnect"}
      BY <2>1, Owner
    <3>2. k.at = "check" /\ k.slot = slot /\ k.op = task[t].op
      BY <1>0, <2>1, <3>1, ContinuedTask DEF k
    <3>3. QED BY <1>1, <1>2, <2>1, <3>1, <3>2 DEF Active, Steps
  <2>2. CASE Job.prog = "switch"
    <3>1. task[t].slot = 0
      BY <2>2, Owner
    <3>2. k.at = "query" /\ k.op = "redial" /\ k.slot = 0
      BY <1>0, <2>2, <3>1, ContinuedTask DEF k
    <3>3. QED BY <1>1, <3>2 DEF Parked, FirstStep
  <2>3. CASE Job.prog = "hang"
    <3>1. Active(t) /\ task[t].op # "disconnect"
      BY <2>3, Owner
    <3>2. k.at = "dial" /\ k.op = task[t].op /\ k.slot = task[t].slot
      BY <1>0, <2>3, <3>1, ContinuedTask DEF k
    <3>3. QED BY <1>0, <1>1, <1>2, <2>3, <3>1, <3>2 DEF Active, Steps
  <2>4. CASE Job.prog = "dial"
    <3>1. Active(t)
      BY <2>4, Owner
    <3>2. k.at = "add" /\ k.op = task[t].op /\ k.slot = 0
      BY <1>0, <2>4, <3>1, ContinuedTask DEF k
    <3>3. QED BY <1>0, <1>1, <1>2, <2>4, <3>1, <3>2 DEF Active, Steps
  <2>5. QED BY <1>0, <2>1, <2>2, <2>3, <2>4
<1>4. QED BY <1>0, <1>1, <1>3, ActiveKeeps

LEMMA DeliverKeeps ==
  ASSUME NetInv, line # <<>>, NEW ok \in BOOLEAN, NEW slot \in 0..2, Deliver(ok, slot),
         UNCHANGED <<cfg, auto, netif, used>>,
         modem' \in ModemSet, SimAlive', CredentialsMatchSim',
         modem'.slot = modem.slot \/ Job.prog = "switch",
         modem'.sessions \subseteq modem.sessions,
         Job.prog = "hang" /\ ok => \A s \in modem'.sessions : s.cid # Job.cfg.hangs,
         ok /\ Job.prog = "query" => slot \in {0, modem.slot}
  PROVE  NetInv'
<1> PICK t : t = Job.t
  OBVIOUS
<1>0. /\ cfg \in Configs /\ mgr \in MgrSet /\ mgr.state \in MgrStates
      /\ mgr.off \in OffSet \cup {None}
      /\ task \in [Slots -> Task \cup {Free}] /\ auto \in Configs \cup {None} /\ dog \in DogSet
      /\ netif \subseteq NetifSet /\ used \in 0..MaxEvents
  BY Types DEF NetInv
<1>1. line' = Tail(line)
  BY DEF Deliver
<1>2. \/ t = 0 /\ UNCHANGED <<mgr, task, dog>>
      \/ /\ t # 0 /\ (~ok \/ (Job.prog = "hang" /\ task[t].op = "disconnect"))
         /\ IF Job.prog \in {"query", "switch"} THEN End(t) ELSE Report(t, Outcome(t, ok))
      \/ /\ t # 0 /\ ok /\ ~(Job.prog = "hang" /\ task[t].op = "disconnect")
         /\ task' = [task EXCEPT ![t] = Continued(@, Job.prog, slot)]
         /\ UNCHANGED <<mgr, dog>>
  BY DEF Deliver
<1>3. \/ t # 0
      \/ UNCHANGED mgr /\ UNCHANGED task /\ modem'.slot = modem.slot
  BY <1>2, LineFacts
<1>4. line' \in Seq(JobSet) /\ Programs' /\ \A i \in DOMAIN line' : line'[i].t # 0
  BY <1>1, <1>3, TailPrograms
<1>5. ASSUME mgr' \in MgrSet, dog' \in DogSet, task' \in [Slots -> Task \cup {Free}],
             OnePlace', Tasks',
             mgr'.state = "disconnected" => TurnedOff(mgr.off)'
      PROVE  NetInv'
  <2>1. TypeOK'
    BY <1>0, <1>4, <1>5, Typed DEF TypeOK, MgrSet, MgrStates, OffSet, DogSet, ModemSet, SessionSet, NetifSet
  <2>2. OffIsOff'
    BY <1>4, <1>5 DEF OffIsOff
  <2>3. QED BY <1>4, <1>5, <2>1, <2>2 DEF NetInv
<1>6. mgr.state = "disconnected" =>
        /\ \A s \in modem'.sessions : s.cid # mgr.off.cfg.hangs
        /\ \A i \in netif' : i.name = mgr.off.cfg.name => i.child /\ (mgr.off.cfg.dual => mgr.off.kept)
  BY DEF NetInv, OffIsOff, TurnedOff, BothDown
<1>7. mgr.state = "disconnected" /\ mgr'.off = mgr.off => TurnedOff(mgr.off)'
  BY <1>6 DEF TurnedOff, BothDown
<1>8. CASE t = 0 /\ UNCHANGED <<mgr, task, dog>>
  <2>1. modem'.slot = modem.slot
    BY <1>8, LineFacts
  <2>2. Tasks'
    BY <1>8, <2>1 DEF NetInv, Tasks, Parked, Active, Holds, ParentDown, BothDown
  <2>3. OnePlace'
    BY <1>8 DEF NetInv, OnePlace
  <2>4. QED BY <1>0, <1>5, <1>8, <1>7, <2>2, <2>3
<1>9. CASE /\ t # 0 /\ (~ok \/ (Job.prog = "hang" /\ task[t].op = "disconnect"))
           /\ IF Job.prog \in {"query", "switch"} THEN End(t) ELSE Report(t, Outcome(t, ok))
  <2>1. Holds(t) /\ task[t] \in Task /\ task[t].at = Job.prog
    BY <1>9, Owner
  <2>2. CASE End(t)
    <3>1. Leaves(t, mgr.state, mgr.off)
      BY <2>2 DEF End
    <3>2. QED BY <1>0, <1>5, <1>7, <2>1, <3>1, LeavesKeeps
  <2>3. CASE Report(t, Outcome(t, ok)) /\ Job.prog \notin {"query", "switch"}
    <3>1. "failed" \in MgrStates /\ "connecting" \in MgrStates /\ "disconnected" \in MgrStates
      BY DEF MgrStates
    <3>2. CASE Leaves(t, "failed", None) \/ Leaves(t, "connecting", None)
      <4>1. PICK s \in {"failed", "connecting"} : Leaves(t, s, None)
        BY <3>2
      <4>2. QED BY <1>5, <2>1, <3>1, <4>1, LeavesKeeps
    <3>3. CASE /\ ok /\ task[t].ok /\ task[t].op = "disconnect"
               /\ Leaves(t, "disconnected", [cfg |-> task[t].cfg, kept |-> task[t].kept])
      <4>1. PICK o : o = [cfg |-> task[t].cfg, kept |-> task[t].kept]
        OBVIOUS
      <4>2. o \in OffSet /\ o.cfg = task[t].cfg /\ o.kept = task[t].kept
        BY <2>1, <4>1 DEF OffSet, Task
      <4>3. Job.prog = "hang"
        BY <1>9, <3>3
      <4>4. Active(t) /\ Job.cfg = o.cfg
        BY <1>9, <4>2, <4>3, Owner
      <4>5. BothDown(o.cfg, o.kept)
        BY <2>1, <3>3, <4>2, <4>3, <4>4 DEF Active
      <4>6. /\ \A s \in modem'.sessions : s.cid # o.cfg.hangs
            /\ \A i \in netif' : i.name = o.cfg.name => i.child /\ (o.cfg.dual => o.kept)
        BY <3>3, <4>3, <4>4, <4>5 DEF BothDown
      <4>7. mgr'.off = o => TurnedOff(mgr.off)'
        BY <4>6 DEF TurnedOff, BothDown
      <4>8. QED BY <1>5, <2>1, <3>1, <3>3, <4>1, <4>2, <4>7, LeavesKeeps
    <3>4. QED BY <2>3, <3>2, <3>3 DEF Report, Outcome
  <2>4. QED BY <1>9, <2>2, <2>3
<1>10. CASE /\ t # 0 /\ ok /\ ~(Job.prog = "hang" /\ task[t].op = "disconnect")
           /\ task' = [task EXCEPT ![t] = Continued(@, Job.prog, slot)]
           /\ UNCHANGED <<mgr, dog>>
  <2>1. task' \in [Slots -> Task \cup {Free}] /\ OnePlace' /\ Tasks'
    BY <1>10, DeliverContinues
  <2>2. QED BY <1>0, <1>5, <1>10, <1>7, <2>1
<1>11. QED BY <1>2, <1>8, <1>9, <1>10

\* LineFails, RunQuery, RunHang and RunSwitch.
LEMMA ProgramEnds ==
  ASSUME NetInv, LineFails \/ RunQuery \/ RunHang \/ RunSwitch
  PROVE  NetInv'
<1>0. /\ modem \in ModemSet /\ modem.slot \in 1..2 /\ modem.sessions \subseteq SessionSet
      /\ SimAlive /\ CredentialsMatchSim
  BY Types DEF NetInv, ModemSet
<1>1. CASE LineFails
  <2>1. line # <<>> /\ Deliver(FALSE, 0) /\ UNCHANGED <<cfg, auto, modem, netif, used>>
    BY <1>1 DEF LineFails
  <2>2. SimAlive' /\ CredentialsMatchSim'
    BY <1>0, <2>1 DEF SimAlive, CredentialsMatchSim
  <2>3. FALSE \in BOOLEAN /\ 0 \in 0..2
    OBVIOUS
  <2>4. QED BY <1>0, <2>1, <2>2, <2>3, DeliverKeeps
<1>2. CASE RunQuery
  <2>1. /\ line # <<>> /\ UNCHANGED <<cfg, auto, modem, netif, used>> /\ Job.prog = "query"
        /\ \E slot \in {modem.slot, 0} : Deliver(TRUE, slot)
    BY <1>2 DEF RunQuery, Running, Job
  <2>2. PICK slot \in {0, modem.slot} : Deliver(TRUE, slot)
    BY <2>1
  <2>3. SimAlive' /\ CredentialsMatchSim'
    BY <1>0, <2>1 DEF SimAlive, CredentialsMatchSim
  <2>4. TRUE \in BOOLEAN /\ slot \in 0..2
    BY <1>0
  <2>5. QED BY <1>0, <2>1, <2>2, <2>3, <2>4, DeliverKeeps
<1>3. CASE RunHang
  <2>1. /\ line # <<>> /\ UNCHANGED <<cfg, auto, netif, used>> /\ Job.prog = "hang"
        /\ \E ok \in BOOLEAN : Deliver(ok, 0)
        /\ modem' = [modem EXCEPT !.sessions = {s \in @ : s.cid # Job.cfg.hangs}]
    BY <1>3 DEF RunHang, Running, Job
  <2>2. PICK left : left = {s \in modem.sessions : s.cid # Job.cfg.hangs}
    OBVIOUS
  <2>3. left \subseteq modem.sessions /\ \A s \in left : s.cid # Job.cfg.hangs
    BY <2>2
  <2>4. modem' = [modem EXCEPT !.sessions = left]
    BY <2>1, <2>2
  <2>5. /\ modem' \in ModemSet /\ modem'.sessions = left /\ modem'.slot = modem.slot
        /\ modem'.sim = modem.sim /\ modem'.left = modem.left
    BY <1>0, <2>3, <2>4 DEF ModemSet
  <2>6. SimAlive' /\ CredentialsMatchSim'
    BY <1>0, <2>3, <2>5 DEF SimAlive, CredentialsMatchSim
  <2>7. PICK ok \in BOOLEAN : Deliver(ok, 0)
    BY <2>1
  <2>8. 0 \in 0..2
    OBVIOUS
  <2>9. QED BY <2>1, <2>3, <2>5, <2>6, <2>7, <2>8, DeliverKeeps
<1>4. CASE RunSwitch
  <2>1. /\ line # <<>> /\ UNCHANGED <<cfg, auto, netif, used>> /\ Job.prog = "switch"
        /\ \E confirmed \in BOOLEAN : Deliver(confirmed, 0)
        /\ modem' = [modem EXCEPT !.slot = 3 - modem.slot, !.sim = SimOn, !.left = PinTries, !.sessions = {}]
    BY <1>4 DEF RunSwitch, Running, Job
  <2>2. 3 - modem.slot \in 1..2 /\ SimOn \in {"ready", "pin", "puk"} /\ PinTries \in 0..PinTries /\ PinTries > 0
    BY <1>0, NetworkAssumption DEF SimOn
  <2>3. modem' \in ModemSet /\ modem'.sessions = {} /\ modem'.left = PinTries
    BY <1>0, <2>1, <2>2 DEF ModemSet
  <2>4. SimAlive' /\ CredentialsMatchSim'
    BY <2>2, <2>3 DEF SimAlive, CredentialsMatchSim
  <2>5. PICK confirmed \in BOOLEAN : Deliver(confirmed, 0)
    BY <2>1
  <2>6. 0 \in 0..2
    OBVIOUS
  <2>7. QED BY <2>1, <2>3, <2>4, <2>5, <2>6, DeliverKeeps
<1>5. QED BY <1>1, <1>2, <1>3, <1>4

-----------------------------------------------------------------------------
(* The dial.                                                                 *)

LEMMA ShortSeq ==
  ASSUME NEW S, NEW s \in Seq(S), DOMAIN s \subseteq {1}
  PROVE  Len(s) \in {0, 1} /\ DOMAIN s = 1..Len(s)
<1>1. DOMAIN s = 1..Len(s) /\ Len(s) \in Nat
  BY LenProperties
<1>2. 2 \notin DOMAIN s
  OBVIOUS
<1>3. QED BY <1>1, <1>2

\* A dial goes on: what is left is to show of its program.
LEMMA StepKeeps ==
  ASSUME NetInv, Running("dial"), NEW j \in JobSet, Step(j), UNCHANGED Rest,
         j.t = Job.t, j.prog = "dial", j.slot = Job.slot, j.cfg = Job.cfg,
         j.pins <= 1, ~j.pinned => j.pins = 0, j.stage \in {2, 3} => j.pinned,
         j.stage = 1 /\ j.reply = "pin" /\ ~j.pinned => modem'.sim = "pin",
         modem' \in ModemSet, modem'.slot = modem.slot, SimAlive', CredentialsMatchSim'
  PROVE  NetInv'
<1>0. /\ line # <<>> /\ Job.prog = "dial" /\ line \in Seq(JobSet)
      /\ UNCHANGED <<cfg, mgr, task, auto, dog, netif, used>>
  BY Types DEF Running, Job, Rest, NetInv
<1> PICK rest : rest = Tail(line)
  OBVIOUS
<1>1. /\ Job \in JobSet /\ JobOK(Job) /\ rest \in Seq(JobSet)
      /\ DOMAIN rest \subseteq {1}
      /\ \A i \in DOMAIN rest :
           /\ i = 1 /\ rest[i] = line[2] /\ JobOK(line[2]) /\ line[2].t # 0
           /\ line[2].stage = 0 /\ line[2].t # Job.t
  BY <1>0, LineFacts
<1> DEFINE l == <<j>> \o rest
<1>2. <<j>> \in Seq(JobSet) /\ Len(<<j>>) = 1 /\ <<j>>[1] = j
  OBVIOUS
<1>3. /\ l \in Seq(JobSet) /\ Len(l) = 1 + Len(rest) /\ DOMAIN l = 1..Len(l)
      /\ \A i \in 1..(1 + Len(rest)) : l[i] = IF i <= 1 THEN <<j>>[i] ELSE rest[i - 1]
  BY <1>1, <1>2, ConcatProperties, LenProperties
<1>4. Len(rest) \in {0, 1} /\ DOMAIN rest = 1..Len(rest)
  BY <1>1, ShortSeq
<1>5. line' = l
  BY DEF Step
<1> HIDE DEF l
<1>6. /\ DOMAIN l \subseteq {1, 2} /\ 1 \in DOMAIN l /\ l[1] = j
      /\ 2 \in DOMAIN l => /\ l[2] = line[2] /\ JobOK(line[2]) /\ line[2].t # 0
                           /\ line[2].stage = 0 /\ line[2].t # Job.t
  <2>1. DOMAIN l \subseteq {1, 2} /\ 1 \in DOMAIN l /\ l[1] = j
    BY <1>2, <1>3, <1>4
  <2>2. 2 \in DOMAIN l => 1 \in DOMAIN rest /\ l[2] = rest[1]
    BY <1>3, <1>4
  <2>3. QED BY <1>1, <2>1, <2>2
<1>7. JobOK(j)'
  BY <1>0, <1>1 DEF JobOK, Holds
<1>8. Programs'
  <2>1. ASSUME NEW k, JobOK(k), k.stage = 0 PROVE JobOK(k)'
    BY <1>0, <2>1 DEF JobOK, Holds
  <2>2. PICK k : k = line[2]
    OBVIOUS
  <2>3. 2 \in DOMAIN l => JobOK(k)'
    BY <1>6, <2>1, <2>2
  <2>4. \A i \in DOMAIN l : l[i] = IF i = 1 THEN j ELSE k
    BY <1>6, <2>2
  <2>5. \A i \in DOMAIN line' : JobOK(line[i])'
    BY <1>5, <1>6, <1>7, <2>3, <2>4 DEF JobOK, Holds
  <2>6. \A i \in DOMAIN l : i > 1 => l[i].t # 0 /\ l[i].stage = 0
    BY <1>6
  <2>7. \A i, m \in DOMAIN l : l[i].t = l[m].t => i = m
    BY <1>6
  <2>8. QED BY <1>5, <2>5, <2>6, <2>7 DEF Programs
<1>9. Tasks' /\ OnePlace'
  BY <1>0 DEF NetInv, Tasks, Parked, Active, Holds, ParentDown, BothDown, OnePlace
<1>10. OffIsOff'
  BY <1>0, DialIsReported DEF OffIsOff
<1>11. TypeOK'
  BY <1>0, <1>3, <1>5 DEF NetInv, TypeOK, ModemSet, SessionSet
<1>12. QED BY <1>8, <1>9, <1>10, <1>11 DEF NetInv

LEMMA DialIsOver ==
  ASSUME NetInv, DialStops \/ DialEnd
  PROVE  NetInv'
<1>1. /\ Running("dial") /\ line # <<>> /\ Job.prog = "dial"
      /\ UNCHANGED <<cfg, auto, modem, netif, used>>
      /\ Deliver(FALSE, 0) \/ Deliver(TRUE, 0)
  BY DEF DialStops, DialEnd, Running, Job
<1>2. modem \in ModemSet /\ SimAlive' /\ CredentialsMatchSim'
  BY <1>1, Types DEF NetInv, SimAlive, CredentialsMatchSim
<1>3. TRUE \in BOOLEAN /\ FALSE \in BOOLEAN /\ 0 \in 0..2
  OBVIOUS
<1>4. QED BY <1>1, <1>2, <1>3, DeliverKeeps

\* The fields of the program that dials, and the modem's.
LEMMA DialJob ==
  ASSUME NetInv, Running("dial")
  PROVE  /\ Job \in JobSet /\ JobOK(Job) /\ Job.prog = "dial"
         /\ Job.slot \in 0..2 /\ Job.slot \in {0, modem.slot} /\ Job.stage \in 0..6
         /\ Job.tail \in 0..Setup /\ Job.pinned \in BOOLEAN /\ Job.pins \in 0..2
         /\ Job.pins <= 1 /\ (~Job.pinned => Job.pins = 0)
         /\ modem \in ModemSet /\ modem.slot \in 1..2 /\ modem.sim \in {"ready", "pin", "puk"}
         /\ modem.left \in 0..PinTries /\ SimAlive /\ CredentialsMatchSim
         /\ PinTries \in Nat \ {0} /\ Setup \in Nat
<1>1. line # <<>> /\ Job.prog = "dial" /\ modem \in ModemSet
  BY Types DEF Running, Job, NetInv
<1>2. Job \in JobSet /\ JobOK(Job)
  BY <1>1, LineFacts
<1> HIDE DEF Job
<1>3. /\ Job.slot \in 0..2 /\ Job.stage \in 0..6 /\ Job.tail \in 0..Setup
      /\ Job.pinned \in BOOLEAN /\ Job.pins \in 0..2
  BY <1>2 DEF JobSet
<1>4. /\ Job.slot \in {0, modem.slot} /\ Job.pins <= 1 /\ (~Job.pinned => Job.pins = 0)
  BY <1>1, <1>2 DEF JobOK
<1>5. /\ modem.slot \in 1..2 /\ modem.sim \in {"ready", "pin", "puk"} /\ modem.left \in 0..PinTries
  BY <1>1 DEF ModemSet
<1>6. QED BY <1>1, <1>2, <1>3, <1>4, <1>5, NetworkAssumption DEF NetInv

LEMMA DialAsks ==
  ASSUME NetInv, DialAsk
  PROVE  NetInv'
<1>0. Running("dial") /\ UNCHANGED Rest /\ UNCHANGED modem /\ Job.stage \in {0, 3}
  BY DEF DialAsk
<1> PICK o : o = Job
  OBVIOUS
<1>1. /\ o \in JobSet /\ JobOK(o) /\ modem \in ModemSet /\ modem.sim \in {"ready", "pin", "puk"}
      /\ SimAlive /\ CredentialsMatchSim /\ o.prog = "dial" /\ o.pins <= 1 /\ (~o.pinned => o.pins = 0)
  BY <1>0, DialJob
<1>2. PICK r \in {modem.sim, "error"} \cup (IF o.stage = 3 THEN {"pin"} ELSE {}) :
        Step([o EXCEPT !.stage = 1, !.reply = r])
  BY DEF DialAsk
<1> DEFINE j == [o EXCEPT !.stage = 1, !.reply = r]
<1>3. r \in {"none", "ready", "pin", "puk"} \cup Answers /\ 1 \in 0..6
  BY <1>1 DEF Answers
<1>4. /\ j \in JobSet /\ j.t = o.t /\ j.prog = o.prog /\ j.slot = o.slot /\ j.cfg = o.cfg /\ j.pins = o.pins
      /\ j.pinned = o.pinned /\ j.stage = 1 /\ j.reply = r
  BY <1>1, <1>3 DEF JobSet
<1>5. r = "pin" /\ ~o.pinned => modem.sim = "pin"
  <2>1. o.stage = 3 => o.pinned
    BY <1>1 DEF JobOK
  <2>2. QED BY <1>2, <2>1
<1>6. SimAlive' /\ CredentialsMatchSim'
  BY <1>0, <1>1 DEF SimAlive, CredentialsMatchSim
<1>7. Step(j)
  BY <1>2
<1> HIDE DEF j
<1>8. QED BY <1>0, <1>1, <1>4, <1>5, <1>6, <1>7, StepKeeps

LEMMA DialGoesOn ==
  ASSUME NetInv, DialPinTaken \/ DialCops
  PROVE  NetInv'
<1>0. Running("dial") /\ UNCHANGED Rest /\ UNCHANGED modem
  BY DEF DialPinTaken, DialCops
<1> PICK o : o = Job
  OBVIOUS
<1>1. /\ o \in JobSet /\ JobOK(o) /\ modem \in ModemSet
      /\ SimAlive /\ CredentialsMatchSim /\ o.prog = "dial" /\ o.pins <= 1 /\ (~o.pinned => o.pins = 0)
  BY <1>0, DialJob
<1>2. SimAlive' /\ CredentialsMatchSim'
  BY <1>0, <1>1 DEF SimAlive, CredentialsMatchSim
<1>3. CASE DialPinTaken
  <2>1. o.stage = 2 /\ Step([o EXCEPT !.stage = 3])
    BY <1>3 DEF DialPinTaken
  <2>2. PICK j : j = [o EXCEPT !.stage = 3]
    OBVIOUS
  <2>3. 3 \in 0..6
    OBVIOUS
  <2>4. /\ j \in JobSet /\ j.t = o.t /\ j.prog = o.prog /\ j.slot = o.slot /\ j.cfg = o.cfg /\ j.pins = o.pins
        /\ j.pinned = o.pinned /\ j.stage = 3
    BY <1>1, <2>2, <2>3 DEF JobSet
  <2>5. o.pinned
    BY <1>1, <2>1 DEF JobOK
  <2>6. Step(j)
    BY <2>1, <2>2
  <2>7. QED BY <1>0, <1>1, <1>2, <2>4, <2>5, <2>6, StepKeeps
<1>4. CASE DialCops
  <2>1. PICK r \in Answers : Step([o EXCEPT !.stage = 4, !.reply = r])
    BY <1>4 DEF DialCops
  <2>2. PICK j : j = [o EXCEPT !.stage = 4, !.reply = r]
    OBVIOUS
  <2>3. 4 \in 0..6
    OBVIOUS
  <2>4. /\ j \in JobSet /\ j.t = o.t /\ j.prog = o.prog /\ j.slot = o.slot /\ j.cfg = o.cfg /\ j.pins = o.pins
        /\ j.pinned = o.pinned /\ j.stage = 4
    BY <1>1, <2>2, <2>3 DEF JobSet
  <2>5. Step(j)
    BY <2>1, <2>2
  <2>6. QED BY <1>0, <1>1, <1>2, <2>4, <2>5, StepKeeps
<1>5. QED BY <1>3, <1>4

LEMMA DialPins ==
  ASSUME NetInv, DialPin
  PROVE  NetInv'
<1>0. Running("dial") /\ UNCHANGED Rest /\ Job.stage = 1 /\ MaySendPin(Job)
  BY DEF DialPin
<1> PICK o : o = Job
  OBVIOUS
<1>1. /\ o \in JobSet /\ JobOK(o) /\ modem \in ModemSet /\ modem.slot \in 1..2
      /\ modem.sim \in {"ready", "pin", "puk"} /\ modem.left \in 0..PinTries
      /\ SimAlive /\ CredentialsMatchSim /\ o.prog = "dial" /\ o.pins <= 1
      /\ (~o.pinned => o.pins = 0) /\ PinTries \in Nat \ {0}
  BY <1>0, DialJob
<1>2. o.stage = 1 /\ o.reply = "pin" /\ ~o.pinned /\ o.pins = 0
  BY <1>0, <1>1 DEF MaySendPin
<1>3. modem.sim = "pin" /\ modem.left > 0
  BY <1>1, <1>2 DEF JobOK, SimAlive
<1>4. PICK r \in {"ok", "error"} :
        /\ Step([o EXCEPT !.stage = 2, !.pinned = TRUE, !.pins = @ + 1, !.reply = r])
        /\ modem' = IF r = "ok" THEN [modem EXCEPT !.sim = "ready", !.left = PinTries]
                    ELSE [modem EXCEPT !.left = @ - 1, !.sim = IF modem.left = 1 THEN "puk" ELSE "pin"]
  <2>1. CASE o.cfg.pin = "good" /\ modem.sim = "pin"
    BY <2>1 DEF DialPin
  <2>2. CASE ~(o.cfg.pin = "good" /\ modem.sim = "pin")
    BY <2>2 DEF DialPin, Refused
  <2>3. QED BY <2>1, <2>2
<1>5. PICK j : j = [o EXCEPT !.stage = 2, !.pinned = TRUE, !.pins = @ + 1, !.reply = r]
  OBVIOUS
<1>6. 2 \in 0..6 /\ o.pins + 1 = 1 /\ 1 \in 0..2
  BY <1>2
<1>7. /\ j \in JobSet /\ j.t = o.t /\ j.prog = o.prog /\ j.slot = o.slot /\ j.cfg = o.cfg /\ j.pins = 1
      /\ j.pinned = TRUE /\ j.stage = 2
  BY <1>1, <1>5, <1>6 DEF JobSet, Answers
<1>8. modem' \in ModemSet /\ modem'.slot = modem.slot /\ modem'.sessions = modem.sessions /\ SimAlive'
  <2>1. CASE r = "ok"
    <3>1. modem' = [modem EXCEPT !.sim = "ready", !.left = PinTries]
      BY <1>4, <2>1
    <3>2. modem'.left = PinTries /\ modem' \in ModemSet /\ modem'.slot = modem.slot /\ modem'.sessions = modem.sessions
      <4>1. PinTries \in 0..PinTries
        BY <1>1
      <4>2. QED BY <1>1, <3>1, <4>1 DEF ModemSet
    <3>3. QED BY <1>1, <3>2 DEF SimAlive
  <2>2. CASE r # "ok"
    <3>1. PICK sim \in {"puk", "pin"}, left \in 0..PinTries :
            modem' = [modem EXCEPT !.left = left, !.sim = sim] /\ (sim # "puk" => left > 0)
      <4>1. modem.left - 1 \in 0..PinTries /\ (modem.left # 1 => modem.left - 1 > 0)
        BY <1>1, <1>3
      <4>2. QED BY <1>4, <2>2, <4>1
    <3>2. /\ modem'.left = left /\ modem'.sim = sim /\ modem' \in ModemSet /\ modem'.slot = modem.slot
          /\ modem'.sessions = modem.sessions
      BY <1>1, <3>1 DEF ModemSet
    <3>3. QED BY <3>1, <3>2 DEF SimAlive
  <2>3. QED BY <2>1, <2>2
<1>9. CredentialsMatchSim'
  BY <1>1, <1>8 DEF CredentialsMatchSim
<1>10. Step(j)
  BY <1>4, <1>5
<1>11. QED BY <1>0, <1>1, <1>7, <1>8, <1>9, <1>10, StepKeeps

\* The connecting command is sent with the credentials of the SIM that is in use, if the modem
\* has told which one that is.
LEMMA DialCommands ==
  ASSUME NetInv, DialCommand
  PROVE  NetInv'
<1>0. Running("dial") /\ UNCHANGED Rest /\ Job.stage \in {4, 6} /\ Left > 0
  BY DEF DialCommand
<1> PICK o : o = Job
  OBVIOUS
<1>1. /\ o \in JobSet /\ JobOK(o) /\ modem \in ModemSet /\ modem.slot \in 1..2
      /\ o.slot \in {0, modem.slot} /\ o.tail \in 0..Setup /\ Setup \in Nat
      /\ SimAlive /\ CredentialsMatchSim /\ o.prog = "dial" /\ o.pins <= 1
      /\ (~o.pinned => o.pins = 0)
  BY <1>0, DialJob
<1>2. Left - 1 \in 0..Setup
  BY <1>0, <1>1 DEF Left
<1>3. PICK r \in Answers :
        /\ Step([o EXCEPT !.stage = 6, !.tail = Left - 1, !.reply = r])
        /\ \/ modem' = modem
           \/ modem' = [modem EXCEPT !.sessions = Opened(o.cfg.dials)]
  BY DEF DialCommand
<1>4. PICK j : j = [o EXCEPT !.stage = 6, !.tail = Left - 1, !.reply = r]
  OBVIOUS
<1>5. 6 \in 0..6
  OBVIOUS
<1>6. /\ j \in JobSet /\ j.t = o.t /\ j.prog = o.prog /\ j.slot = o.slot /\ j.cfg = o.cfg /\ j.pins = o.pins
      /\ j.pinned = o.pinned /\ j.stage = 6
  BY <1>1, <1>2, <1>4, <1>5 DEF JobSet
<1>7. modem' \in ModemSet /\ modem'.slot = modem.slot /\ SimAlive' /\ CredentialsMatchSim'
  <2>1. CASE modem' = modem
    BY <1>1, <2>1 DEF SimAlive, CredentialsMatchSim
  <2>2. CASE modem' = [modem EXCEPT !.sessions = Opened(o.cfg.dials)]
    <3>1. PICK s : s = [cid |-> o.cfg.dials, creds |-> credentials(o.slot), known |-> o.slot # 0, on |-> modem.slot]
      OBVIOUS
    <3>2. s \in SessionSet /\ (s.known => s.creds = s.on)
      <4>1. credentials(o.slot) \in 1..2 /\ (o.slot # 0 => credentials(o.slot) = modem.slot)
        BY <1>1 DEF credentials
      <4>2. (o.slot # 0) \in BOOLEAN /\ o.cfg.dials \in {c.dials : c \in Configs}
        BY <1>1 DEF JobSet
      <4>3. QED BY <1>1, <3>1, <4>1, <4>2 DEF SessionSet
    <3>3. PICK opened : opened = Opened(o.cfg.dials)
      OBVIOUS
    <3>4. opened \subseteq modem.sessions \cup {s}
      BY <3>1, <3>3 DEF Opened
    <3>5. modem.sessions \subseteq SessionSet
      BY <1>1 DEF ModemSet
    <3>6. opened \in SUBSET SessionSet /\ \A x \in opened : x.known => x.creds = x.on
      BY <1>1, <3>2, <3>4, <3>5 DEF CredentialsMatchSim
    <3>7. /\ modem' \in ModemSet /\ modem'.slot = modem.slot /\ modem'.sessions = opened
          /\ modem'.sim = modem.sim /\ modem'.left = modem.left
      BY <1>1, <2>2, <3>3, <3>6 DEF ModemSet
    <3>8. QED BY <1>1, <3>6, <3>7 DEF SimAlive, CredentialsMatchSim
  <2>3. QED BY <1>3, <2>1, <2>2
<1>8. Step(j)
  BY <1>3, <1>4
<1>9. QED BY <1>0, <1>1, <1>6, <1>7, <1>8, StepKeeps

-----------------------------------------------------------------------------
(* The steps of an operation.                                                *)

\* No program of the operation with the lock is at the port: what is there is an orphan.
LEMMA QuietLine ==
  ASSUME NetInv, NEW t, Holds(t), \A i \in DOMAIN line : line[i].t # t,
         UNCHANGED <<line, modem>>
  PROVE  Programs' /\ \A i \in DOMAIN line : line[i].t = 0
<1>1. \A i \in DOMAIN line : line[i].t = 0
  BY DEF NetInv, Programs, JobOK, Holds
<1>2. \A i \in DOMAIN line' : JobOK(line[i])'
  BY <1>1 DEF NetInv, Programs, JobOK
<1>3. QED BY <1>1, <1>2 DEF NetInv, Programs

LEMMA NotWaiting ==
  ASSUME NetInv, NEW t, Holds(t), task[t].at \notin {"query", "hang", "dial", "switch"}
  PROVE  \A i \in DOMAIN line : line[i].t # t
<1> SUFFICES ASSUME NEW i \in DOMAIN line, line[i].t = t PROVE FALSE
  OBVIOUS
<1>1. t \in Slots /\ t # 0
  BY Holder, TaskIs
<1>2. line[i] \in JobSet /\ JobOK(line[i])
  BY Types, ElementOfSeq DEF NetInv, Programs
<1>3. task[t].at = line[i].prog /\ line[i].prog \in {"query", "hang", "dial", "switch"}
  BY <1>1, <1>2 DEF JobOK, JobSet
<1>4. QED BY <1>3

LEMMA EndKeeps ==
  ASSUME NetInv, NEW t, Holds(t), \A i \in DOMAIN line : line[i].t # t,
         NEW state \in MgrStates, NEW off \in OffSet \cup {None}, Leaves(t, state, off),
         UNCHANGED <<cfg, line, auto, modem, netif, used>>,
         state = "disconnected" => mgr.state = "disconnected" /\ off = mgr.off
  PROVE  NetInv'
<1>1. /\ task' \in [Slots -> Task \cup {Free}] /\ mgr' \in MgrSet /\ mgr'.state = state
      /\ mgr'.off = off /\ dog' \in DogSet /\ OnePlace' /\ Tasks'
  BY LeavesKeeps
<1>2. Programs'
  BY QuietLine
<1>3. TypeOK'
  BY <1>1 DEF NetInv, TypeOK, MgrSet, MgrStates, OffSet, DogSet
<1>4. OffIsOff'
  BY <1>1 DEF NetInv, OffIsOff, TurnedOff, BothDown
<1>5. SimAlive' /\ CredentialsMatchSim'
  BY DEF NetInv, SimAlive, CredentialsMatchSim
<1>6. QED BY <1>1, <1>2, <1>3, <1>4, <1>5 DEF NetInv

LEMMA OperationEnds ==
  ASSUME NetInv, NEW t \in Slots, SubmitFail(t) \/ Decline(t) \/ Record(t)
  PROVE  NetInv'
<1>0. /\ mgr.state \in MgrStates /\ mgr.off \in OffSet \cup {None}
      /\ "failed" \in MgrStates /\ "connecting" \in MgrStates
  BY Types DEF NetInv, MgrStates
<1>1. CASE SubmitFail(t)
  <2>1. /\ Holds(t) /\ \A i \in DOMAIN line : line[i].t # t
        /\ UNCHANGED <<cfg, line, auto, modem, netif, used>>
        /\ End(t) \/ Report(t, FALSE)
    BY <1>1 DEF SubmitFail, At, Waiting
  <2>2. Leaves(t, mgr.state, mgr.off) \/ Leaves(t, "failed", None)
    BY <2>1 DEF End, Report
  <2>3. QED BY <1>0, <2>1, <2>2, EndKeeps
<1>2. CASE Decline(t)
  <2>1. /\ Holds(t) /\ task[t].at = "check" /\ Leaves(t, mgr.state, mgr.off)
        /\ UNCHANGED <<cfg, line, auto, modem, netif, used>>
    BY <1>2 DEF Decline, At, End
  <2>2. \A i \in DOMAIN line : line[i].t # t
    BY <2>1, NotWaiting
  <2>3. QED BY <1>0, <2>1, <2>2, EndKeeps
<1>3. CASE Record(t)
  <2>1. /\ Holds(t) /\ task[t].at = "report" /\ UNCHANGED <<cfg, line, auto, modem, netif, used>>
        /\ Report(t, task[t].ok)
    BY <1>3 DEF Record, At
  <2>2. \A i \in DOMAIN line : line[i].t # t
    BY <2>1, NotWaiting
  <2>3. task[t].op # "disconnect"
    BY <2>1 DEF NetInv, Tasks, Parked, Active, FirstStep
  <2>4. Leaves(t, "failed", None) \/ Leaves(t, "connecting", None)
    BY <2>1, <2>3 DEF Report
  <2>5. QED BY <1>0, <2>1, <2>2, <2>4, EndKeeps
<1>4. QED BY <1>1, <1>2, <1>3

LEMMA Begins ==
  ASSUME NetInv, NEW t \in Slots, Begin(t)
  PROVE  NetInv'
<1>0. /\ Holds(t) /\ task[t].at = "check"
      /\ UNCHANGED <<cfg, line, auto, dog, modem, netif, used>>
      /\ mgr' = [mgr EXCEPT !.state = task[t].op, !.off = None]
  BY DEF Begin, At
<1>1. /\ mgr \in MgrSet /\ task \in [Slots -> Task \cup {Free}] /\ task[t] \in Task
      /\ Parked(t) \/ Active(t)
  BY <1>0, Types, TaskIs DEF NetInv, Tasks
<1>2. task[t].op \in Started /\ task[t].slot \in {0, modem.slot}
  BY <1>0, <1>1 DEF Parked, Active, FirstStep, Task, Started
<1>3. PICK p \in {"dial", "down"} : /\ task' = [task EXCEPT ![t].at = p]
                                    /\ p = "dial" <=> task[t].op = "connect"
  BY DEF Begin, Goto
<1>4. PICK k : k = [task[t] EXCEPT !.at = p]
  OBVIOUS
<1>5. p \in Places
  BY DEF Places
<1>6. k \in Task /\ k.at = p /\ k.op = task[t].op /\ k.slot = task[t].slot /\ k.cfg = task[t].cfg
  BY <1>1, <1>4, <1>5 DEF Task
<1>7. task' = [task EXCEPT ![t] = k] /\ task'[t] = k
  BY <1>1, <1>3, <1>4
<1>8. mgr' \in MgrSet /\ mgr'.queue = mgr.queue /\ mgr'.state = task[t].op
  BY <1>0, <1>1, <1>2 DEF MgrSet, MgrStates, OffSet
<1>9. Active(t)'
  <2>1. Holds(t)'
    BY <1>0, <1>8 DEF Holds
  <2>2. k.at \in {"dial", "down"} /\ k.op # "switch"
    BY <1>2, <1>6 DEF Started
  <2>3. QED BY <1>0, <1>2, <1>3, <1>6, <1>7, <1>8, <2>1, <2>2 DEF Active, Steps
<1>10. task' \in [Slots -> Task \cup {Free}] /\ OnePlace' /\ Tasks'
  BY <1>0, <1>6, <1>7, <1>8, <1>9, ActiveKeeps
<1>11. Programs'
  BY <1>0, NotWaiting, QuietLine
<1>12. TypeOK'
  BY <1>0, <1>8, <1>10 DEF NetInv, TypeOK, MgrSet, MgrStates, OffSet
<1>13. OffIsOff'
  BY <1>2, <1>8 DEF OffIsOff, Started
<1>14. SimAlive' /\ CredentialsMatchSim'
  BY <1>0 DEF NetInv, SimAlive, CredentialsMatchSim
<1>15. QED BY <1>10, <1>11, <1>12, <1>13, <1>14 DEF NetInv

\* The operation with the lock takes a step of netifd: what is left to show is of it alone.
LEMMA NetifdStep ==
  ASSUME NetInv, NEW t \in Slots, Holds(t), NEW k \in Task, task' = [task EXCEPT ![t] = k],
         task[t].at \in {"down", "down6", "add", "add6"}, Active(t)',
         netif' \subseteq NetifSet, UNCHANGED <<cfg, mgr, line, auto, dog, modem, used>>
  PROVE  NetInv'
<1>1. mgr \in MgrSet /\ Active(t)
  BY Types DEF NetInv, Tasks, Parked, FirstStep
<1>2. task' \in [Slots -> Task \cup {Free}] /\ OnePlace' /\ Tasks'
  BY <1>1, ActiveKeeps
<1>3. Programs'
  BY NotWaiting, QuietLine
<1>4. TypeOK'
  BY <1>2 DEF NetInv, TypeOK, NetifSet
<1>5. OffIsOff'
  BY <1>1 DEF OffIsOff, Active, Started
<1>6. SimAlive' /\ CredentialsMatchSim'
  BY DEF NetInv, SimAlive, CredentialsMatchSim
<1>7. QED BY <1>2, <1>3, <1>4, <1>5, <1>6 DEF NetInv

\* What netifd has after a step is of its type.
LEMMA NetifTyped ==
  ASSUME NetInv, NEW t \in Slots, task[t] \in Task, NEW child \in BOOLEAN
  PROVE  netif \subseteq NetifSet /\ Without(t, child) \subseteq NetifSet /\ With(t, child) \subseteq NetifSet
<1>1. netif \subseteq NetifSet /\ task[t].cfg \in Configs
  BY Types DEF NetInv, Task
<1>2. Without(t, child) \subseteq NetifSet
  BY <1>1 DEF Without
<1>3. [name |-> Planned(t), child |-> child, device |-> DataDevice(task[t].cfg)] \in NetifSet
  BY <1>1 DEF NetifSet, Planned
<1>4. QED BY <1>1, <1>2, <1>3 DEF With

\* A task at a step of netifd.
LEMMA NetifdTask ==
  ASSUME NetInv, NEW t \in Slots, Holds(t), task[t].at \in {"down", "down6", "add", "add6"}
  PROVE  /\ task[t] \in Task /\ Active(t) /\ task \in [Slots -> Task \cup {Free}]
         /\ task[t].ok \in BOOLEAN
<1>1. task[t] \in Task /\ task \in [Slots -> Task \cup {Free}]
  BY Types, TaskIs DEF NetInv
<1>2. Active(t)
  BY DEF NetInv, Tasks, Parked, FirstStep
<1>3. QED BY <1>1, <1>2 DEF Task

LEMMA GoesDown ==
  ASSUME NetInv, NEW t \in Slots, Down(t)
  PROVE  NetInv'
<1>0. Holds(t) /\ task[t].at = "down" /\ UNCHANGED <<cfg, mgr, line, auto, dog, modem, used>>
  BY DEF Down, At
<1>1. PICK ok \in BOOLEAN :
        /\ netif' \in {Without(t, FALSE)} \cup (IF ok THEN {} ELSE {netif})
        /\ task' = [task EXCEPT ![t].at = IF task[t].cfg.dual THEN "down6" ELSE "hang", ![t].ok = ok]
  BY DEF Down
<1>2. task[t] \in Task /\ Active(t) /\ task \in [Slots -> Task \cup {Free}]
  BY <1>0, NetifdTask
<1>3. PICK p \in {"down6", "hang"} : p = IF task[t].cfg.dual THEN "down6" ELSE "hang"
  OBVIOUS
<1>4. PICK k : k = [task[t] EXCEPT !.at = p, !.ok = ok]
  OBVIOUS
<1>5. p \in Places
  BY DEF Places
<1>6. /\ k \in Task /\ k.at = p /\ k.ok = ok /\ k.op = task[t].op /\ k.slot = task[t].slot
      /\ k.cfg = task[t].cfg /\ k.kept = task[t].kept
  BY <1>2, <1>4, <1>5 DEF Task
<1>7. task' = [task EXCEPT ![t] = k] /\ task'[t] = k
  BY <1>1, <1>2, <1>3, <1>4
<1>8. ok => \A i \in netif' : i.name = k.cfg.name => i.child # FALSE /\ i \in netif
  BY <1>1, <1>6 DEF Without, Planned
<1>9. netif' \subseteq NetifSet
  BY <1>1, <1>2, NetifTyped
<1>10. ok => ParentDown(k.cfg)'
  BY <1>7, <1>8, <1>9 DEF ParentDown, NetifSet
<1>11. Active(t)'
  <2>1. ok /\ p = "hang" => BothDown(k.cfg, k.kept)'
    BY <1>3, <1>6, <1>10 DEF ParentDown, BothDown
  <2>2. Holds(t)'
    BY <1>0 DEF Holds
  <2>3. ParentDown(task[t].cfg)' <=> ParentDown(k.cfg)'
    BY <1>7
  <2>4. BothDown(task[t].cfg, task[t].kept)' <=> BothDown(k.cfg, k.kept)'
    BY <1>7
  <2>5. QED BY <1>0, <1>2, <1>6, <1>7, <1>10, <2>1, <2>2, <2>3, <2>4 DEF Active, Steps
<1>12. QED BY <1>0, <1>6, <1>7, <1>9, <1>11, NetifdStep

LEMMA ChildGoesDown ==
  ASSUME NetInv, NEW t \in Slots, DownChild(t)
  PROVE  NetInv'
<1>0. Holds(t) /\ task[t].at = "down6" /\ UNCHANGED <<cfg, mgr, line, auto, dog, modem, used>>
  BY DEF DownChild, At
<1>1. PICK ok \in BOOLEAN :
        /\ netif' \in {Without(t, TRUE)} \cup (IF ok THEN {} ELSE {netif})
        /\ task' = [task EXCEPT ![t].at = "hang", ![t].kept = ~ok /\ task[t].op = "disconnect"]
  BY DEF DownChild
<1>2. task[t] \in Task /\ Active(t) /\ task \in [Slots -> Task \cup {Free}]
  BY <1>0, NetifdTask
<1>3. PICK kept \in BOOLEAN : kept = (~ok /\ task[t].op = "disconnect")
  OBVIOUS
<1>4. PICK k : k = [task[t] EXCEPT !.at = "hang", !.kept = kept]
  OBVIOUS
<1>5. "hang" \in Places
  BY DEF Places
<1>6. /\ k \in Task /\ k.at = "hang" /\ k.ok = task[t].ok /\ k.op = task[t].op /\ k.slot = task[t].slot
      /\ k.cfg = task[t].cfg /\ k.kept = kept
  BY <1>2, <1>4, <1>5 DEF Task
<1>7. task' = [task EXCEPT ![t] = k] /\ task'[t] = k
  BY <1>1, <1>2, <1>3, <1>4
<1>8. netif' \subseteq netif
  BY <1>1 DEF Without
<1>9. netif' \subseteq NetifSet
  BY <1>1, <1>2, NetifTyped
<1>10. k.op = "disconnect" /\ k.ok => BothDown(k.cfg, k.kept)'
  <2>1. SUFFICES ASSUME k.op = "disconnect", k.ok, NEW i \in netif', i.name = k.cfg.name
                 PROVE  i.child /\ (k.cfg.dual => kept)
    BY <1>6 DEF BothDown
  <2>2. ParentDown(task[t].cfg)
    BY <1>0, <1>2, <1>6, <2>1 DEF Active
  <2>3. i.child
    BY <1>6, <1>8, <2>1, <2>2 DEF ParentDown
  <2>4. kept
    <3>1. CASE ok
      <4>1. i \in Without(t, TRUE)
        BY <1>1, <3>1
      <4>2. i.child # TRUE
        BY <1>6, <2>1, <4>1 DEF Without, Planned
      <4>3. i.child \in BOOLEAN
        BY <1>9 DEF NetifSet
      <4>4. QED BY <2>3, <4>2, <4>3
    <3>2. CASE ~ok
      BY <1>3, <1>6, <2>1, <3>2
    <3>3. QED BY <3>1, <3>2
  <2>5. QED BY <2>3, <2>4
<1>11. Active(t)'
  <2>1. Holds(t)'
    BY <1>0 DEF Holds
  <2>2. BothDown(task[t].cfg, task[t].kept)' <=> BothDown(k.cfg, k.kept)'
    BY <1>7
  <2>3. QED BY <1>0, <1>2, <1>6, <1>7, <1>10, <2>1, <2>2 DEF Active, Steps
<1>12. QED BY <1>0, <1>6, <1>7, <1>9, <1>11, NetifdStep

\* netifd is given the interface or its child.
LEMMA Adds ==
  ASSUME NetInv, NEW t \in Slots, Add(t) \/ AddChild(t)
  PROVE  NetInv'
<1>0. /\ Holds(t) /\ task[t].at \in {"add", "add6"}
      /\ UNCHANGED <<cfg, mgr, line, auto, dog, modem, used>>
  BY DEF Add, AddChild, At
<1>1. PICK ok \in BOOLEAN, child \in BOOLEAN, p \in {"add6", "report"} :
        /\ AddsTo(t, child, ok)
        /\ task' = [task EXCEPT ![t].at = p, ![t].ok = ok]
  <2>1. CASE Add(t)
    <3>1. PICK ok \in BOOLEAN :
            /\ AddsTo(t, FALSE, ok)
            /\ task' = [task EXCEPT ![t].at = IF ok /\ task[t].cfg.dual THEN "add6" ELSE "report", ![t].ok = ok]
      BY <2>1 DEF Add
    <3>2. PICK p \in {"add6", "report"} : p = IF ok /\ task[t].cfg.dual THEN "add6" ELSE "report"
      OBVIOUS
    <3>3. QED BY <3>1, <3>2
  <2>2. CASE AddChild(t)
    BY <2>2 DEF AddChild
  <2>3. QED BY <2>1, <2>2
<1>2. task[t] \in Task /\ Active(t) /\ task \in [Slots -> Task \cup {Free}]
  BY <1>0, NetifdTask
<1>3. PICK k : k = [task[t] EXCEPT !.at = p, !.ok = ok]
  OBVIOUS
<1>4. p \in Places
  BY DEF Places
<1>5. k \in Task /\ k.at = p /\ k.op = task[t].op /\ k.slot = task[t].slot
  BY <1>2, <1>3, <1>4 DEF Task
<1>6. task' = [task EXCEPT ![t] = k] /\ task'[t] = k
  BY <1>1, <1>2, <1>3
<1>7. netif' \subseteq NetifSet
  BY <1>1, <1>2, NetifTyped DEF AddsTo
<1>8. Active(t)'
  <2>1. Holds(t)'
    BY <1>0 DEF Holds
  <2>2. QED BY <1>0, <1>2, <1>5, <1>6, <2>1 DEF Active, Steps
<1>9. QED BY <1>0, <1>5, <1>6, <1>7, <1>8, NetifdStep

LEMMA Submits ==
  ASSUME NetInv, NEW t \in Slots, Submit(t)
  PROVE  NetInv'
<1>0. UNCHANGED <<cfg, mgr, task, auto, dog, modem, netif, used>> /\ \A i \in DOMAIN line : line[i].t # t
  BY DEF Submit, Waiting
<1>1. PICK p \in {"query", "hang", "dial", "switch"} :
        At(t, p) /\ line' = Append(line, Program(t, p, task[t].cfg, task[t].slot))
  BY DEF Submit
<1>2. /\ Holds(t) /\ task[t].at = p /\ task[t] \in Task /\ t # 0 /\ (Parked(t) \/ Active(t))
      /\ line \in Seq(JobSet) /\ DOMAIN line = 1..Len(line) /\ Len(line) \in Nat
      /\ Setup \in Nat
  BY <1>1, Types, TaskIs, NetworkAssumption DEF At, NetInv, Tasks
<1>3. PICK j : j = Program(t, p, task[t].cfg, task[t].slot)
  OBVIOUS
<1>4. j \in JobSet
  <2>1. /\ 0 \in 0..6 /\ 0 \in 0..Setup /\ 0 \in 0..2 /\ task[t].cfg \in Configs
        /\ task[t].slot \in 0..2
    BY <1>2, TaskIs
  <2>2. QED BY <1>3, <2>1 DEF Program, JobSet
<1>5. /\ j.t = t /\ j.prog = p /\ j.slot = task[t].slot /\ j.cfg = task[t].cfg
      /\ j.stage = 0 /\ j.pins = 0 /\ j.pinned = FALSE
  BY <1>3 DEF Program
<1>6. JobOK(j)
  <2>1. task[t].slot = 0 \/ task[t].slot = modem.slot
    BY <1>2 DEF Parked, Active
  <2>2. QED BY <1>2, <1>5, <2>1 DEF JobOK
<1> DEFINE l == Append(line, j)
<1>7. /\ l \in Seq(JobSet) /\ DOMAIN l = 1..(Len(line) + 1) /\ l[Len(line) + 1] = j
      /\ \A i \in 1..Len(line) : l[i] = line[i]
  BY <1>2, <1>4, AppendProperties, LenProperties
<1>8. line' = l
  BY <1>1, <1>3
<1> HIDE DEF l
<1>9. Programs'
  <2>1. \A i \in DOMAIN l : JobOK(l[i])
    BY <1>2, <1>6, <1>7 DEF NetInv, Programs
  <2>2. \A i \in DOMAIN line' : JobOK(line[i])'
    BY <1>0, <1>8, <2>1 DEF JobOK, Holds
  <2>3. \A i \in DOMAIN l : i > 1 => l[i].t # 0 /\ l[i].stage = 0
    BY <1>2, <1>5, <1>7 DEF NetInv, Programs
  <2>4. \A i, m \in DOMAIN l : l[i].t = l[m].t => i = m
    BY <1>0, <1>2, <1>5, <1>7 DEF NetInv, Programs
  <2>5. QED BY <1>8, <2>2, <2>3, <2>4 DEF Programs
<1>10. Tasks' /\ OnePlace'
  BY <1>0 DEF NetInv, Tasks, Parked, Active, Holds, ParentDown, BothDown, OnePlace
<1>11. OffIsOff'
  BY <1>0, <1>2, <1>5, <1>7, <1>8 DEF NetInv, OffIsOff, TurnedOff, BothDown
<1>12. TypeOK'
  BY <1>0, <1>7, <1>8 DEF NetInv, TypeOK
<1>13. SimAlive' /\ CredentialsMatchSim'
  BY <1>0 DEF NetInv, SimAlive, CredentialsMatchSim
<1>14. QED BY <1>9, <1>10, <1>11, <1>12, <1>13 DEF NetInv

-----------------------------------------------------------------------------
(* Callers, workers and the rest.                                            *)

LEMMA Counted == used \in 0..MaxEvents /\ Event => used' \in 0..MaxEvents
BY NetworkAssumption DEF Event

\* What is left to show of a step that only lets an operation begin.
LEMMA Spawned ==
  ASSUME NetInv, NEW t \in Slots, NEW op \in {"connect", "disconnect", "redial", "switch"},
         NEW by \in {"client", "auto", "dog", "task"}, NEW c \in Configs,
         Spawn(t, op, by, c), UNCHANGED <<cfg, modem, netif, line>>,
         auto' \in Configs \cup {None}, dog' \in DogSet, used' \in 0..MaxEvents
  PROVE  NetInv'
<1>1. /\ task' \in [Slots -> Task \cup {Free}] /\ mgr' \in MgrSet
      /\ mgr'.state = mgr.state /\ mgr'.off = mgr.off /\ OnePlace' /\ Tasks' /\ Programs'
  BY SpawnKeeps
<1>2. TypeOK'
  BY <1>1 DEF NetInv, TypeOK, MgrSet, MgrStates, OffSet, DogSet
<1>3. OffIsOff' /\ SimAlive' /\ CredentialsMatchSim'
  BY <1>1 DEF NetInv, OffIsOff, TurnedOff, BothDown, SimAlive, CredentialsMatchSim
<1>4. QED BY <1>1, <1>2, <1>3 DEF NetInv

LEMMA Spawns ==
  ASSUME NetInv, AutoPass \/ \E t \in Slots : Call(t) \/ Act(t)
  PROVE  NetInv'
<1>0. /\ cfg \in Configs /\ auto \in Configs \cup {None} /\ dog \in DogSet /\ used \in 0..MaxEvents
  BY Types DEF NetInv
<1>1. ASSUME NEW t \in Slots, Call(t) PROVE NetInv'
  <2>1. PICK op \in ClientOps : Spawn(t, op, "client", cfg)
    BY <1>1 DEF Call
  <2>2. op \in {"connect", "disconnect", "redial", "switch"} /\ used' \in 0..MaxEvents
        /\ UNCHANGED <<cfg, line, auto, dog, modem, netif>>
    BY <1>0, <1>1, Counted, NetworkAssumption DEF Call
  <2>3. QED BY <1>0, <2>1, <2>2, Spawned
<1>2. ASSUME NEW t \in Slots, Act(t) PROVE NetInv'
  <2>1. /\ UNCHANGED <<cfg, line, auto, modem, netif, used>> /\ dog.cfg # None
        /\ dog' = [dog EXCEPT !.task = t]
    BY <1>2 DEF Act
  <2>2. dog' \in DogSet /\ dog.cfg \in Configs
    BY <1>0, <2>1 DEF DogSet
  <2>3. Spawn(t, "redial", "dog", dog.cfg) \/ Spawn(t, "switch", "task", cfg)
    BY <1>2 DEF Act
  <2>4. QED BY <1>0, <2>1, <2>2, <2>3, Spawned
<1>3. CASE AutoPass
  <2>1. UNCHANGED <<cfg, line, dog, modem, netif, used>>
    BY <1>3 DEF AutoPass
  <2>2. CASE auto' = cfg /\ \E t \in Slots : Spawn(t, "connect", "auto", cfg)
    BY <1>0, <2>1, <2>2, Spawned
  <2>3. CASE auto' = None /\ UNCHANGED <<mgr, task>>
    <3>1. TypeOK'
      BY <2>1, <2>3 DEF NetInv, TypeOK
    <3>2. OnePlace' /\ Tasks' /\ SimAlive' /\ CredentialsMatchSim' /\ OffIsOff'
      BY <2>1, <2>3 DEF NetInv, OnePlace, Tasks, Parked, Active, Holds, ParentDown, BothDown, SimAlive,
                    CredentialsMatchSim, OffIsOff, TurnedOff
    <3>3. Programs'
      BY <2>1, <2>3 DEF NetInv, Programs, JobOK, Holds
    <3>4. QED BY <3>1, <3>2, <3>3 DEF NetInv
  <2>4. QED BY <1>3, <2>2, <2>3 DEF AutoPass
<1>4. QED BY <1>1, <1>2, <1>3

LEMMA World ==
  ASSUME NetInv, Edit \/ Replug \/ Crash
  PROVE  NetInv'
<1>0. /\ cfg \in Configs /\ auto \in Configs \cup {None} /\ modem \in ModemSet /\ used \in 0..MaxEvents
      /\ None \notin Configs
  BY Types, NetworkAssumption DEF NetInv
<1>1. CASE Edit
  <2>1. /\ cfg' \in Configs /\ used' \in 0..MaxEvents
        /\ UNCHANGED <<mgr, task, line, auto, dog, modem, netif>>
    BY <1>0, <1>1, Counted DEF Edit
  <2>2. TypeOK'
    BY <2>1 DEF NetInv, TypeOK
  <2>3. OnePlace' /\ Tasks' /\ SimAlive' /\ CredentialsMatchSim' /\ OffIsOff'
    BY <2>1 DEF NetInv, OnePlace, Tasks, Parked, Active, Holds, ParentDown, BothDown, SimAlive,
                    CredentialsMatchSim, OffIsOff, TurnedOff
  <2>4. Programs'
    BY <2>1 DEF NetInv, Programs, JobOK, Holds
  <2>5. QED BY <2>2, <2>3, <2>4 DEF NetInv
<1>2. CASE Replug
  <2>1. /\ line = <<>> /\ auto' \in Configs \cup {None} /\ used' \in 0..MaxEvents
        /\ UNCHANGED <<cfg, mgr, task, line, dog, netif>>
        /\ modem' = [modem EXCEPT !.sessions = {}, !.sim = IF modem.sim = "puk" THEN "puk" ELSE SimOn]
    BY <1>0, <1>2, Counted DEF Replug
  <2>2. SimOn \in {"ready", "pin", "puk"} /\ SimOn # "puk"
    BY DEF SimOn
  <2>3. /\ modem' \in ModemSet /\ modem'.sessions = {} /\ modem'.slot = modem.slot
        /\ modem'.left = modem.left /\ modem'.sim = (IF modem.sim = "puk" THEN "puk" ELSE SimOn)
    BY <1>0, <2>1, <2>2 DEF ModemSet
  <2>4. TypeOK'
    BY <2>1, <2>3 DEF NetInv, TypeOK, ModemSet, SessionSet
  <2>5. OnePlace' /\ SimAlive' /\ CredentialsMatchSim' /\ OffIsOff'
    BY <2>1, <2>2, <2>3 DEF NetInv, OnePlace, SimAlive, CredentialsMatchSim, OffIsOff, TurnedOff, BothDown
  <2>6. Tasks'
    BY <2>1, <2>3 DEF NetInv, Tasks, Parked, Active, Holds, ParentDown, BothDown
  <2>7. Programs'
    <3>1. DOMAIN line' = {}
      BY <2>1
    <3>2. QED BY <3>1 DEF Programs
  <2>8. QED BY <2>4, <2>5, <2>6, <2>7 DEF NetInv
<1>3. CASE Crash
  <2>1. /\ mgr' = [queue |-> <<>>, state |-> "none", off |-> None] /\ task' = [t \in Slots |-> Free]
        /\ line' = <<>> /\ auto' = None /\ dog' = NoDog /\ UNCHANGED <<cfg, modem, netif>>
        /\ used' \in 0..MaxEvents
    BY <1>0, <1>3, Counted DEF Crash, Idle
  <2>2. mgr' \in MgrSet /\ mgr'.queue = <<>> /\ mgr'.state = "none" /\ dog' \in DogSet
    BY <2>1 DEF MgrSet, MgrStates, NoDog, DogSet
  <2>3. Free.at = "free" /\ DOMAIN <<>> = {} /\ <<>> \in Seq(JobSet)
    BY DEF Free
  <2>4. TypeOK'
    BY <2>1, <2>2, <2>3 DEF NetInv, TypeOK, MgrSet, MgrStates, OffSet, DogSet
  <2>5. OnePlace' /\ Tasks' /\ Programs'
    BY <2>1, <2>2, <2>3 DEF OnePlace, Tasks, Programs
  <2>6. SimAlive' /\ CredentialsMatchSim' /\ OffIsOff'
    BY <2>1, <2>2 DEF NetInv, SimAlive, CredentialsMatchSim, OffIsOff
  <2>7. QED BY <2>4, <2>5, <2>6 DEF NetInv
<1>4. QED BY <1>1, <1>2, <1>3

\* When the operation with the lock is cut off, at most its begun dial is left at the port.
LEMMA OrphanedLine ==
  ASSUME NetInv, NEW u, Holds(u)
  PROVE  LET r == Orphaned(line, u)
         IN  /\ r \in Seq(JobSet) /\ DOMAIN r \subseteq {1}
             /\ \A i \in DOMAIN r : r[i].t = 0 /\ JobOK(r[i]) /\ mgr.state # "disconnected"
<1>0. /\ line \in Seq(JobSet) /\ DOMAIN line = 1..Len(line) /\ Len(line) \in Nat /\ u \in Slots /\ u # 0
      /\ \A i \in DOMAIN line : line[i] \in JobSet /\ JobOK(line[i])
      /\ \A i, j \in DOMAIN line : line[i].t = line[j].t => i = j
      /\ \A i \in DOMAIN line : i > 1 => line[i].t # 0
  BY Types, Holder, TaskIs, ElementOfSeq DEF NetInv, Programs
<1>1. \A i \in DOMAIN line : line[i].t \in {0, u}
  BY <1>0 DEF JobOK, Holds
<1>2. CASE line # <<>> /\ line[1].t = u /\ line[1].stage > 0
  <2>1. PICK o : o = Job
    OBVIOUS
  <2>2. o \in JobSet /\ JobOK(o) /\ o.t = u /\ o.stage > 0 /\ Tail(line) = <<>>
    BY <1>0, <1>2, <2>1, LineFacts DEF Job
  <2>3. PICK j : j = [o EXCEPT !.t = 0]
    OBVIOUS
  <2>4. o.prog = "dial"
    BY <2>2 DEF JobOK
  <2>5. j \in JobSet /\ j.t = 0 /\ JobOK(j)
    <3>1. 0 \in Slots \cup {0}
      OBVIOUS
    <3>2. /\ j \in JobSet /\ j.t = 0 /\ j.prog = o.prog /\ j.slot = o.slot /\ j.cfg = o.cfg /\ j.pins = o.pins
          /\ j.pinned = o.pinned /\ j.stage = o.stage /\ j.reply = o.reply
      BY <2>2, <2>3, <3>1 DEF JobSet
    <3>3. QED BY <2>2, <2>4, <3>2 DEF JobOK
  <2>6. Orphaned(line, u) = <<j>>
    <3>1. Orphaned(line, u) = <<j>> \o <<>>
      BY <1>2, <2>1, <2>2, <2>3 DEF Orphaned, Job
    <3>2. <<j>> \in Seq(JobSet)
      BY <2>5
    <3>3. QED BY <3>1, <3>2, ConcatEmptySeq
  <2>7. mgr.state # "disconnected"
    BY <1>2, <2>1, <2>4, DialIsReported DEF Running, Job
  <2>8. <<j>> \in Seq(JobSet) /\ DOMAIN <<j>> = {1} /\ <<j>>[1] = j
    BY <2>5
  <2>9. QED BY <2>5, <2>6, <2>7, <2>8
<1>3. CASE ~(line # <<>> /\ line[1].t = u /\ line[1].stage > 0)
  <2> DEFINE r == RemoveFirstMatch(line, LAMBDA j : j.t = u)
  <2>1. Orphaned(line, u) = r
    BY <1>3 DEF Orphaned
  <2>2. \/ r = line /\ \A i \in DOMAIN line : line[i].t # u
        \/ \E k \in 1..Len(line) : line[k].t = u /\ r \in Seq(JobSet) /\ IsWithout(r, line, k)
    BY <1>0, RemovedMatch
  <2> HIDE DEF r
  <2>3. r \in Seq(JobSet) /\ \A i \in DOMAIN r : \E m \in DOMAIN line : r[i] = line[m] /\ line[m].t # u /\ i <= m
    <3>1. CASE r = line /\ \A i \in DOMAIN line : line[i].t # u
      BY <1>0, <3>1
    <3>2. CASE \E k \in 1..Len(line) : line[k].t = u /\ r \in Seq(JobSet) /\ IsWithout(r, line, k)
      <4>1. PICK k \in 1..Len(line) : line[k].t = u /\ r \in Seq(JobSet) /\ IsWithout(r, line, k)
        BY <3>2
      <4>2. ASSUME NEW i \in DOMAIN r
            PROVE  \E m \in DOMAIN line : r[i] = line[m] /\ line[m].t # u /\ i <= m
        <5>1. i \in 1..(Len(line) - 1) /\ r[i] = IF i < k THEN line[i] ELSE line[i + 1]
          BY <4>1, <4>2 DEF IsWithout
        <5>2. PICK m : m = IF i < k THEN i ELSE i + 1
          OBVIOUS
        <5>3. m \in DOMAIN line /\ m # k /\ i <= m /\ r[i] = line[m]
          BY <1>0, <4>1, <5>1, <5>2
        <5>4. QED BY <1>0, <4>1, <5>3
      <4>3. QED BY <4>1, <4>2
    <3>3. QED BY <2>2, <3>1, <3>2
  <2>4. ASSUME NEW i \in DOMAIN r
        PROVE  i = 1 /\ r[i].t = 0 /\ JobOK(r[i]) /\ mgr.state # "disconnected"
    <3>1. PICK m \in DOMAIN line : r[i] = line[m] /\ line[m].t # u /\ i <= m
      BY <2>3
    <3>2. line[m].t = 0 /\ m = 1
      BY <1>0, <1>1, <3>1
    <3>3. i \in Nat /\ i >= 1
      BY <2>3, LenProperties
    <3>4. QED BY <1>0, <3>1, <3>2, <3>3 DEF NetInv, OffIsOff
  <2>5. QED BY <2>1, <2>3, <2>4
<1>4. QED BY <1>2, <1>3

\* An operation that does not have the lock is cut off: the line and the lock stay as they are.
LEMMA CutWaiting ==
  ASSUME NetInv, NEW u \in Slots, ~Holds(u)
  PROVE  Orphaned(line, u) = line /\ \A i \in DOMAIN line : line[i].t # u
<1>1. \A i \in DOMAIN line : line[i].t # u
  <2>1. u # 0
    BY TaskIs
  <2>2. QED BY <2>1 DEF NetInv, Programs, JobOK
<1>2. line \in Seq(JobSet) /\ DOMAIN line = 1..Len(line) /\ Len(line) \in Nat
  BY Types DEF NetInv
<1>3. ~(line # <<>> /\ line[1].t = u)
  BY <1>1, <1>2, EmptySeq
<1>4. ~\E i \in 1..Len(line) : line[i].t = u
  BY <1>1, <1>2
<1>5. RemoveFirstMatch(line, LAMBDA j : j.t = u) = line
  BY <1>4 DEF RemoveFirstMatch
<1>6. QED BY <1>1, <1>3, <1>5 DEF Orphaned

LEMMA CutKeeps ==
  ASSUME NetInv, NEW u \in Slots, mgr' = [mgr EXCEPT !.queue = RemoveFirst(@, u)],
         task' = [task EXCEPT ![u] = Free], line' = Orphaned(line, u),
         UNCHANGED <<cfg, auto, modem, netif, used>>, dog' \in DogSet
  PROVE  NetInv'
<1> DEFINE r == RemoveFirst(mgr.queue, u)
<1>0. mgr \in MgrSet /\ task \in [Slots -> Task \cup {Free}] /\ Free.at = "free"
  BY Types DEF NetInv, Free
<1>1. /\ r \in Seq(Slots)
      /\ \A i, j \in DOMAIN r : r[i] = r[j] => i = j
      /\ \A v \in Slots : (\E i \in DOMAIN r : r[i] = v) <=> v # u /\ \E i \in DOMAIN mgr.queue : mgr.queue[i] = v
      /\ ~Holds(u) => (r # <<>> <=> mgr.queue # <<>>) /\ (mgr.queue # <<>> => Head(r) = Head(mgr.queue))
  BY QueueWithout DEF Holds
<1>2. mgr' \in MgrSet /\ mgr'.queue = r /\ mgr'.state = mgr.state /\ mgr'.off = mgr.off
  BY <1>0, <1>1 DEF MgrSet
<1> HIDE DEF r
<1>3. /\ task' \in [Slots -> Task \cup {Free}] /\ task'[u] = Free
      /\ \A v \in Slots : v # u => task'[v] = task[v]
  BY <1>0
<1>4. OnePlace'
  <2>1. \A v \in Slots : task'[v].at # "free" <=> \E i \in DOMAIN r : r[i] = v
    BY <1>0, <1>1, <1>3 DEF NetInv, OnePlace
  <2>2. QED BY <2>1, <1>1, <1>2 DEF OnePlace
<1>5. SimAlive' /\ CredentialsMatchSim'
  BY DEF NetInv, SimAlive, CredentialsMatchSim
<1>6. ASSUME line' \in Seq(JobSet) PROVE TypeOK'
  BY <1>2, <1>3, <1>6 DEF NetInv, TypeOK, MgrSet, MgrStates, OffSet, DogSet
<1>7. CASE Holds(u)
  <2>1. /\ line' \in Seq(JobSet) /\ DOMAIN line' \subseteq {1}
        /\ \A i \in DOMAIN line' : line'[i].t = 0 /\ JobOK(line'[i]) /\ mgr.state # "disconnected"
    BY <1>7, OrphanedLine
  <2>2. \A i \in DOMAIN line' : JobOK(line[i])'
    BY <2>1 DEF JobOK
  <2>3. Programs'
    BY <2>1, <2>2 DEF Programs
  <2>4. OffIsOff'
    BY <1>2, <2>1 DEF NetInv, OffIsOff, TurnedOff, BothDown
  <2>5. Tasks'
    <3>1. \A v \in Slots : v # u => task[v].at = "free" \/ Parked(v)
      BY <1>7, Holder
    <3>2. \A v \in Slots : task'[v].at = "free" \/ Parked(v)'
      BY <1>0, <1>3, <3>1 DEF Parked
    <3>3. QED BY <3>2 DEF Tasks
  <2>6. QED BY <1>4, <1>5, <1>6, <2>1, <2>3, <2>4, <2>5 DEF NetInv
<1>8. CASE ~Holds(u)
  <2>1. line' = line /\ \A i \in DOMAIN line : line[i].t # u
    BY <1>8, CutWaiting
  <2>2. \A v \in Slots : Holds(v) => Holds(v)' /\ v # u
    BY <1>1, <1>2, <1>8 DEF Holds
  <2>3. Tasks'
    <3>1. ASSUME NEW v \in Slots, v # u, Active(v) PROVE Active(v)'
      BY <1>2, <1>3, <2>2, <3>1 DEF Active, ParentDown, BothDown
    <3>2. ASSUME NEW v \in Slots, v # u, Parked(v) PROVE Parked(v)'
      BY <1>3, <3>2 DEF Parked
    <3>3. QED BY <1>0, <1>3, <3>1, <3>2 DEF NetInv, Tasks
  <2>4. Programs'
    <3>1. ASSUME NEW i \in DOMAIN line PROVE JobOK(line[i])'
      <4>1. PICK j : j = line[i]
        OBVIOUS
      <4>2. j \in JobSet /\ JobOK(j) /\ j.t # u
        BY <2>1, <4>1, Types, ElementOfSeq DEF NetInv, Programs
      <4>3. j.t # 0 => j.t \in Slots /\ Holds(j.t)' /\ task'[j.t] = task[j.t]
        BY <1>3, <2>2, <4>2 DEF JobOK, JobSet
      <4>4. JobOK(j)'
        BY <4>2, <4>3 DEF JobOK
      <4>5. QED BY <2>1, <4>1, <4>4 DEF JobOK, Holds
    <3>2. QED BY <2>1, <3>1 DEF NetInv, Programs
  <2>5. OffIsOff'
    BY <1>2, <2>1 DEF NetInv, OffIsOff, TurnedOff, BothDown
  <2>6. line' \in Seq(JobSet)
    BY <2>1, Types DEF NetInv
  <2>7. QED BY <1>4, <1>5, <1>6, <2>3, <2>4, <2>5, <2>6 DEF NetInv
<1>9. QED BY <1>7, <1>8

LEMMA Supervises ==
  ASSUME NetInv, Supervise
  PROVE  NetInv'
<1>0. UNCHANGED <<cfg, auto, modem, netif, used>> /\ cfg \in Configs /\ dog \in DogSet
  BY Types DEF Supervise, NetInv
<1>1. dog' \in DogSet
  BY <1>0 DEF Supervise, DogSet, NoDog
<1>2. CASE Inline
  <2>1. PICK u : u = dog.task
    OBVIOUS
  <2>2. u \in Slots
    BY <1>0, <1>2, <2>1 DEF Inline, DogSet
  <2>3. /\ mgr' = [mgr EXCEPT !.queue = RemoveFirst(@, u)] /\ task' = [task EXCEPT ![u] = Free]
        /\ line' = Orphaned(line, u)
    BY <1>2, <2>1 DEF Supervise, Cut
  <2>4. QED BY <1>0, <1>1, <2>2, <2>3, CutKeeps
<1>3. CASE ~Inline
  <2>1. UNCHANGED <<mgr, task, line>>
    BY <1>3 DEF Supervise, Cut
  <2>2. TypeOK'
    BY <1>0, <1>1, <2>1 DEF NetInv, TypeOK, DogSet
  <2>3. OnePlace' /\ Tasks' /\ SimAlive' /\ CredentialsMatchSim' /\ OffIsOff'
    BY <1>0, <2>1 DEF NetInv, OnePlace, Tasks, Parked, Active, Holds, ParentDown, BothDown, SimAlive,
                      CredentialsMatchSim, OffIsOff, TurnedOff
  <2>4. Programs'
    BY <1>0, <2>1 DEF NetInv, Programs, JobOK, Holds
  <2>5. QED BY <2>2, <2>3, <2>4 DEF NetInv
<1>4. QED BY <1>2, <1>3

-----------------------------------------------------------------------------
(* The theorems.                                                             *)

LEMMA NetInit == Init => NetInv
<1> SUFFICES ASSUME Init PROVE NetInv
  OBVIOUS
<1>1. Free.at = "free" /\ DOMAIN <<>> = {} /\ <<>> \in Seq(JobSet) /\ <<>> \in Seq(Slots)
  BY DEF Free
<1>2. modem \in ModemSet /\ modem.sessions = {} /\ modem.left > 0
  BY NetworkAssumption DEF Init, ModemSet, SimOn
<1>3. TypeOK
  <2>1. mgr \in MgrSet /\ dog \in DogSet
    BY <1>1 DEF Init, Idle, MgrSet, MgrStates, DogSet, NoDog
  <2>2. task \in [Slots -> Task \cup {Free}] /\ used \in 0..MaxEvents
    BY NetworkAssumption DEF Init
  <2>3. QED BY <1>1, <1>2, <2>1, <2>2, NetworkAssumption, Typed DEF Init
<1>4. OnePlace /\ Tasks /\ Programs
  BY <1>1 DEF Init, Idle, OnePlace, Tasks, Programs
<1>5. SimAlive /\ CredentialsMatchSim /\ OffIsOff
  BY <1>2 DEF Init, Idle, SimAlive, CredentialsMatchSim, OffIsOff
<1>6. QED BY <1>3, <1>4, <1>5 DEF NetInv

LEMMA NetStep == NetInv /\ [Next]_vars => NetInv'
<1> SUFFICES ASSUME NetInv, [Next]_vars PROVE NetInv'
  OBVIOUS
<1>1. CASE UNCHANGED vars
  <2>1. UNCHANGED <<cfg, mgr, task, line, auto, dog, modem, netif, used>>
    BY <1>1 DEF vars
  <2>2. TypeOK'
    BY <2>1 DEF NetInv, TypeOK
  <2>3. OnePlace' /\ Tasks' /\ SimAlive' /\ CredentialsMatchSim' /\ OffIsOff'
    BY <2>1 DEF NetInv, OnePlace, Tasks, Parked, Active, Holds, ParentDown, BothDown, SimAlive,
                CredentialsMatchSim, OffIsOff, TurnedOff
  <2>4. Programs'
    BY <2>1 DEF NetInv, Programs, JobOK, Holds
  <2>5. QED BY <2>2, <2>3, <2>4 DEF NetInv
<1>2. CASE \E t \in Slots : Operation(t)
  BY <1>2, Submits, OperationEnds, Begins, GoesDown, ChildGoesDown, Adds DEF Operation
<1>3. CASE Port
  BY <1>3, ProgramEnds, DialAsks, DialPins, DialIsOver, DialGoesOn, DialCommands DEF Port, Dial
<1>4. QED BY <1>1, <1>2, <1>3, Spawns, Supervises, World DEF Next

LEMMA NetInvariant == Spec => []NetInv
BY NetInit, NetStep, PTL DEF Spec

\* Every variable keeps its type: no PIN is sent to a SIM that is blocked, and no dial sends
\* more commands than its configuration has.
THEOREM TypeCorrect == Spec => []TypeOK
<1>1. NetInv => TypeOK
  BY DEF NetInv
<1>2. QED BY <1>1, NetInvariant, PTL

\* The lock cannot be lost: the operations that exist are those in its queue, each of them once,
\* whatever was aborted.
THEOREM LockIsNotLost == Spec => []OnePlace
<1>1. NetInv => OnePlace
  BY DEF NetInv
<1>2. QED BY <1>1, NetInvariant, PTL

\* At most one program that serves an operation is at the port, that of the operation with the
\* lock; what else is there is a dial that had begun when its operation was aborted.
THEOREM PortServesTheLock == Spec => []Programs
<1>1. NetInv => Programs
  BY DEF NetInv
<1>2. QED BY <1>1, NetInvariant, PTL

\* A dial sends the stored PIN once at most.
THEOREM PinSentOnce == Spec => []PinOncePerDial
<1>1. NetInv => PinOncePerDial
  BY DEF NetInv, Programs, JobOK, PinOncePerDial
<1>2. QED BY <1>1, NetInvariant, PTL

\* When the modem has told its slot, the credentials of one SIM never connect the other one.
THEOREM RightCredentials == Spec => []CredentialsMatchSim
<1>1. NetInv => CredentialsMatchSim
  BY DEF NetInv
<1>2. QED BY <1>1, NetInvariant, PTL

\* While a disconnect is reported, what it was to turn off is off: the context and the interface
\* of the configuration it carried, and the child if that has one and netifd did not refuse it.
THEOREM OffWhenReported == Spec => []DisconnectedIsOff
<1>1. NetInv => DisconnectedIsOff
  BY DEF NetInv, OffIsOff, TurnedOff, BothDown, DisconnectedIsOff
<1>2. QED BY <1>1, NetInvariant, PTL
=============================================================================
