--------------------------- MODULE StartupProofs ----------------------------
(***************************************************************************)
(* Proofs about the start-up and the automatic connection, for any number  *)
(* of settings, edits, plugs and crashes.                                  *)
(***************************************************************************)
EXTENDS Startup, TLAPS

BootSet == [at : {"idle", "pass", "run"}, cfg : Configs \cup {None}, known : Keys \cup {None}, lost : BOOLEAN]
StatusSet == [state : {"none", "pending", "ready", "failed"}, key : Keys \cup {None}]

\* A status says "ready" for settings only after their start-up has ended well.
ReadyIsApplied == status.state = "ready" => status.key \in hist

\* A pass knows which settings it applies.
PassKnows == boot.at # "idle" => boot.cfg \in Configs

StartInv == TypeOK /\ ReadyIsApplied /\ PassKnows

LEMMA Counted == used \in 0..MaxEvents /\ Event => used' \in 0..MaxEvents
BY StartupAssumption DEF Event

LEMMA StartInit == Init => StartInv
BY StartupAssumption DEF Init, StartInv, TypeOK, ReadyIsApplied, PassKnows, Idle, NoStatus, Configs

LEMMA BootMoves ==
  ASSUME StartInv, BootPass \/ BootSkip \/ BootStart
  PROVE  StartInv'
<1>0. /\ boot \in BootSet /\ status \in StatusSet /\ cfg \in Configs
      /\ boot.at # "idle" => boot.cfg \in Configs /\ boot.cfg.key \in Keys
  BY DEF StartInv, TypeOK, BootSet, StatusSet, PassKnows, Configs
<1>1. CASE BootPass
  <2>1. /\ boot' \in BootSet /\ boot'.at = "pass" /\ boot'.cfg = cfg
        /\ UNCHANGED <<cfg, here, status, auto, used, hist>>
    BY <1>0, <1>1 DEF BootPass, BootSet
  <2>2. QED BY <1>0, <2>1 DEF StartInv, TypeOK, BootSet, ReadyIsApplied, PassKnows
<1>2. CASE BootSkip
  <2>1. /\ boot' \in BootSet /\ boot'.at = "idle"
        /\ UNCHANGED <<cfg, here, status, auto, used, hist>>
    BY <1>0, <1>2 DEF BootSkip, BootSet, Idle
  <2>2. QED BY <2>1 DEF StartInv, TypeOK, BootSet, ReadyIsApplied, PassKnows
<1>3. CASE BootStart
  <2>1. /\ boot' \in BootSet /\ boot'.at = "run" /\ boot'.cfg = boot.cfg
        /\ boot'.known = boot.cfg.key /\ boot.cfg \in Configs
        /\ UNCHANGED <<cfg, here, auto, used, hist>>
    BY <1>0, <1>3 DEF BootStart, BootSet
  <2>2. status' \in StatusSet /\ status'.state = "pending"
    BY <1>3 DEF BootStart, StatusSet
  <2>3. QED BY <2>1, <2>2 DEF StartInv, TypeOK, BootSet, StatusSet, ReadyIsApplied, PassKnows
<1>4. QED BY <1>1, <1>2, <1>3

LEMMA BootEnds ==
  ASSUME StartInv, BootReady \/ BootFail
  PROVE  StartInv'
<1>0. boot \in BootSet /\ status \in StatusSet /\ boot.cfg \in Configs /\ boot.cfg.key \in Keys
  BY DEF StartInv, TypeOK, BootSet, StatusSet, PassKnows, Configs, BootReady, BootFail
<1>1. boot' \in BootSet /\ boot'.at = "idle" /\ UNCHANGED <<cfg, here, auto, used>>
  <2>1. boot.known \in Keys \cup {None}
    BY <1>0 DEF BootSet
  <2>2. CASE BootReady
    BY <2>1, <2>2 DEF BootReady, BootSet, Idle
  <2>3. CASE BootFail
    BY <2>3 DEF BootFail, BootSet, Idle
  <2>4. QED BY <2>2, <2>3
<1>2. status' \in StatusSet /\ status'.key = boot.cfg.key
  BY <1>0 DEF BootReady, BootFail, StatusSet, Signed
<1>3. CASE BootReady
  BY <1>0, <1>1, <1>2, <1>3
     DEF BootReady, StartInv, TypeOK, BootSet, StatusSet, ReadyIsApplied, PassKnows
<1>4. CASE BootFail
  BY <1>1, <1>2, <1>4
     DEF BootFail, Signed, StartInv, TypeOK, BootSet, StatusSet, ReadyIsApplied, PassKnows
<1>5. QED BY <1>3, <1>4

LEMMA OthersStep ==
  ASSUME StartInv, AutoPass \/ Edit \/ Unplug \/ Plug \/ Crash
  PROVE  StartInv'
<1>0. boot \in BootSet /\ status \in StatusSet /\ cfg \in Configs
  BY DEF StartInv, TypeOK, BootSet, StatusSet
<1>1. CASE AutoPass
  <2>1. auto' \in Configs \cup {None} /\ UNCHANGED <<cfg, here, boot, status, used, hist>>
    BY <1>0, <1>1 DEF AutoPass, AutoConnect, AutoForget
  <2>2. QED BY <2>1 DEF StartInv, TypeOK, ReadyIsApplied, PassKnows
<1>2. CASE Edit
  BY <1>2, Counted DEF Edit, StartInv, TypeOK, ReadyIsApplied, PassKnows
<1>3. CASE Unplug
  <2>1. boot' \in BootSet /\ boot'.at = boot.at /\ boot'.cfg = boot.cfg /\ boot'.known = boot.known
    BY <1>0, <1>3 DEF Unplug, BootSet
  <2>2. used' \in 0..MaxEvents
    BY <1>3, Counted DEF Unplug, StartInv, TypeOK
  <2>3. QED
    BY <1>3, <2>1, <2>2 DEF Unplug, BootSet, StartInv, TypeOK, ReadyIsApplied, PassKnows
<1>4. CASE Plug
  BY <1>4 DEF Plug, StartInv, TypeOK, ReadyIsApplied, PassKnows
<1>5. CASE Crash
  <2>1. boot' \in BootSet /\ boot'.at = "idle" /\ status' \in StatusSet /\ status'.state = "none"
    BY <1>5 DEF Crash, Idle, NoStatus, BootSet, StatusSet
  <2>2. used' \in 0..MaxEvents
    BY <1>5, Counted DEF Crash, StartInv, TypeOK
  <2>3. QED
    BY <1>5, <2>1, <2>2 DEF Crash, BootSet, StatusSet, StartInv, TypeOK, ReadyIsApplied, PassKnows
<1>6. QED BY <1>1, <1>2, <1>3, <1>4, <1>5

LEMMA StartInvariant == Spec => []StartInv
<1>1. StartInv /\ [Next]_vars => StartInv'
  <2>1. StartInv /\ UNCHANGED vars => StartInv'
    BY DEF vars, StartInv, TypeOK, ReadyIsApplied, PassKnows
  <2>2. QED BY <2>1, BootMoves, BootEnds, OthersStep DEF Next, Boot
<1>2. QED BY <1>1, StartInit, PTL DEF Spec

\* Every variable keeps its type, and a program that runs is the one its status says is pending.
THEOREM TypeCorrect == Spec => []TypeOK
<1>1. StartInv => TypeOK
  BY DEF StartInv
<1>2. QED BY <1>1, StartInvariant, PTL

\* A modem is connected automatically only after the start-up with its present settings has
\* ended well in this life of the daemon.
THEOREM DialsAfterStartup == Spec => AutoAfterStartup
<1>1. StartInv /\ [Next]_vars => [auto' \notin {auto, None} => auto'.key \in hist]_vars
  <2> SUFFICES ASSUME StartInv, Next, auto' \notin {auto, None} PROVE auto'.key \in hist
    BY DEF vars
  <2>1. AutoConnect
    <3>1. ~Boot
      BY DEF Boot, BootPass, BootSkip, BootStart, BootReady, BootFail
    <3>2. ~(Edit \/ Unplug \/ Plug)
      BY DEF Edit, Unplug, Plug
    <3>3. ~(AutoForget \/ Crash)
      BY DEF AutoForget, Crash
    <3>4. QED BY <3>1, <3>2, <3>3 DEF Next, AutoPass
  <2>2. QED BY <2>1 DEF AutoConnect, Due, IsReady, StartInv, ReadyIsApplied
<1>2. QED BY <1>1, StartInvariant, PTL DEF Spec, AutoAfterStartup
=============================================================================
