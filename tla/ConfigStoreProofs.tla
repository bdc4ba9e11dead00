------------------------- MODULE ConfigStoreProofs --------------------------
(***************************************************************************)
(* Proofs about the configuration, for any number of modems, parts, saves, *)
(* errors, clients that leave and crashes.                                 *)
(***************************************************************************)
EXTENDS ConfigStore, TLAPS

Places == {"idle", "lock", "open", "rename", "load", "publish"}
EditSet == [at : Places, id : Modems \cup {None}, value : Modem \cup {None},
            copy : Disk \cup {None}, left : BOOLEAN]
ToolSet == [at : {"idle", "open", "rename"}, value : Value \cup {None}, copy : Disk \cup {None}]

StoreTypeOK ==
  /\ disk \in Disk /\ mem \in Stored
  /\ edit \in [Editors -> EditSet] /\ writer \in Editors \cup {None}
  /\ tool \in ToolSet /\ lock \in Editors \cup {"tool", None}
  /\ used \in Nat /\ hist \in [want : Disk, owed : BOOLEAN]
  /\ \A e \in Editors : edit[e].at # "idle" => edit[e].id \in Modems
  /\ tool.at # "idle" => tool.value \in Value

\* Who is about to rename holds the lock file, and what it read is still what the file has.
Exclusive ==
  /\ \A e \in Editors : edit[e].at = "rename" => lock = e /\ edit[e].copy = disk
  /\ tool.at = "rename" => lock = "tool" /\ tool.copy = disk

\* A handler whose client is there holds config_writer up to its end.
Serial ==
  \A e \in Editors : edit[e].at \in {"open", "rename", "load", "publish"} /\ ~edit[e].left => writer = e

\* Who is about to publish waits for nothing else, and has the modems of the file, unless a
\* save whose client left came after it.
Fresh ==
  \A e \in Editors :
    edit[e].at = "publish" =>
      /\ ~edit[e].left /\ edit[e].copy \in Disk
      /\ hist.owed \/ edit[e].copy.modems = disk.modems

StoreInv == StoreTypeOK /\ OthersKept /\ MemoryFollowsDisk /\ Exclusive /\ Serial /\ Fresh

LEMMA Counted == used \in Nat /\ Event => used' \in Nat
BY DEF Event

LEMMA StoreInit == Init => StoreInv
<1> SUFFICES ASSUME Init PROVE StoreInv
  OBVIOUS
<1>1. disk \in Disk /\ mem \in Stored
  BY DEF Init, Disk, Stored
<1>2. NoEdit \in EditSet /\ NoTool \in ToolSet
  BY DEF NoEdit, NoTool, EditSet, ToolSet, Places
<1>3. StoreTypeOK
  BY <1>1, <1>2 DEF Init, StoreTypeOK, NoEdit, NoTool
<1>4. QED
  BY <1>1, <1>3 DEF Init, StoreInv, OthersKept, MemoryFollowsDisk, Exclusive, Serial, Fresh, NoEdit, NoTool

\* A task begins to save something of the type of a modem, or nothing.
LEMMA SaveStep ==
  ASSUME StoreInv, NEW e \in Editors, NEW m \in Modems, NEW value \in Modem \cup {None},
         Save(e, m, value)
  PROVE  StoreInv'
<1>1. [NoEdit EXCEPT !.at = "lock", !.id = m, !.value = value] \in EditSet
  BY DEF NoEdit, EditSet, Places
<1>2. StoreTypeOK'
  BY <1>1 DEF StoreInv, StoreTypeOK, Save, Event, NoEdit
<1>3. QED
  BY <1>2 DEF StoreInv, StoreTypeOK, Save, NoEdit, OthersKept, MemoryFollowsDisk, Exclusive, Serial, Fresh, At

LEMMA BeginStep ==
  ASSUME StoreInv, NEW e \in Editors, NEW m \in Modems,
         SaveModem(e, m) \/ DeleteModem(e, m) \/ SavePart(e, m) \/ Discover(e, m)
  PROVE  StoreInv'
<1>1. mem[m] # None => mem[m] \in Modem
  BY DEF StoreInv, StoreTypeOK, Stored
<1>2. \E value \in Modem \cup {None} : Save(e, m, value)
  <2>1. CASE SaveModem(e, m)
    BY <2>1 DEF SaveModem
  <2>2. CASE DeleteModem(e, m)
    BY <2>2 DEF DeleteModem
  <2>3. CASE SavePart(e, m)
    <3>1. PICK p \in Parts, v \in Value : Save(e, m, [mem[m] EXCEPT ![p] = v])
      BY <2>3 DEF SavePart
    <3>2. [mem[m] EXCEPT ![p] = v] \in Modem
      BY <1>1, <2>3 DEF SavePart, Modem
    <3>3. QED BY <3>1, <3>2
  <2>4. CASE Discover(e, m)
    <3>1. PICK p \in Parts, v \in Value :
            Save(e, m, IF mem[m] = None THEN [q \in Parts |-> v] ELSE [mem[m] EXCEPT ![p] = v])
      BY <2>4 DEF Discover
    <3>2. [q \in Parts |-> v] \in Modem /\ (mem[m] # None => [mem[m] EXCEPT ![p] = v] \in Modem)
      BY <1>1 DEF Modem
    <3>3. QED BY <3>1, <3>2
  <2>5. QED BY <2>1, <2>2, <2>3, <2>4
<1>3. QED BY <1>2, SaveStep

LEMMA LockStep ==
  ASSUME StoreInv, NEW e \in Editors, Lock(e) \/ Invalid(e)
  PROVE  StoreInv'
<1> USE DEF StoreInv, StoreTypeOK, OthersKept, MemoryFollowsDisk, Exclusive, Serial, Fresh, At, Goto
<1>1. CASE Lock(e)
  <2>1. StoreTypeOK'
    BY <1>1, ConfigAssumption DEF Lock, EditSet, Places
  <2>2. QED BY <1>1, <2>1, ConfigAssumption DEF Lock, EditSet
<1>2. CASE Invalid(e)
  <2>1. NoEdit \in EditSet
    BY DEF NoEdit, EditSet, Places
  <2>2. QED BY <1>2, <2>1 DEF Invalid, Ends, NoEdit
<1>3. QED BY <1>1, <1>2

\* The task reads what the file has, and nobody else may write it until it has renamed.
LEMMA OpenStep ==
  ASSUME StoreInv, NEW e \in Editors, Open(e)
  PROVE  StoreInv'
<1>1. /\ edit[e] \in EditSet /\ edit[e].id \in Modems
      /\ edit' = [edit EXCEPT ![e] = [edit[e] EXCEPT !.at = "rename", !.copy = disk]]
      /\ lock' = e /\ UNCHANGED <<disk, mem, writer, tool, used, hist>>
  BY DEF Open, At, StoreInv, StoreTypeOK
<1>2. [edit[e] EXCEPT !.at = "rename", !.copy = disk] \in EditSet
  BY <1>1 DEF EditSet, Places, StoreInv, StoreTypeOK
<1>3. StoreTypeOK'
  BY <1>1, <1>2 DEF StoreInv, StoreTypeOK, EditSet
<1>4. QED
  BY <1>1, <1>3, ConfigAssumption
     DEF EditSet, StoreInv, StoreTypeOK, OthersKept, MemoryFollowsDisk, Exclusive, Serial, Fresh, Open, At

\* The file is what the task meant: nothing but its modem changes.
LEMMA RenameStep ==
  ASSUME StoreInv, NEW e \in Editors, Rename(e)
  PROVE  StoreInv'
<1> USE DEF StoreInv, StoreTypeOK, At, Goto, Rename
<1>1. /\ edit[e].copy = disk /\ lock = e /\ edit[e].id \in Modems
      /\ edit[e].value \in Modem \cup {None} /\ hist.want = disk
  BY DEF Exclusive, OthersKept, EditSet
<1>2. Patched(e) \in Disk /\ disk' = Patched(e) /\ hist'.want = Patched(e)
  BY <1>1 DEF Patched, Disk, Stored
<1>3. StoreTypeOK'
  BY <1>2 DEF EditSet, Places
<1>4. OthersKept'
  BY <1>2 DEF OthersKept
<1>5. Exclusive'
  BY <1>1, ConfigAssumption DEF Exclusive, EditSet
<1>6. Serial'
  BY DEF Serial, EditSet
<1>7. hist'.owed = (hist.owed \/ edit[e].left)
  OBVIOUS
<1>8. Fresh'
  <2> SUFFICES ASSUME NEW d \in Editors, edit'[d].at = "publish"
               PROVE  ~edit'[d].left /\ edit'[d].copy \in Disk /\ hist'.owed
    BY DEF Fresh
  <2>1. d # e /\ edit'[d] = edit[d] /\ ~edit[d].left /\ edit[d].copy \in Disk
    BY DEF Fresh, EditSet
  <2>2. edit[e].left
    BY <2>1, ConfigAssumption DEF Serial
  <2>3. QED BY <1>7, <2>1, <2>2
<1>9. MemoryFollowsDisk'
  BY <1>7 DEF MemoryFollowsDisk, EditSet
<1>10. QED BY <1>3, <1>4, <1>5, <1>6, <1>8, <1>9

LEMMA LoadStep ==
  ASSUME StoreInv, NEW e \in Editors, Load(e)
  PROVE  StoreInv'
<1> USE DEF StoreInv, StoreTypeOK, At, Load
<1>1. CASE edit[e].left
  <2>1. NoEdit \in EditSet
    BY DEF NoEdit, EditSet, Places
  <2>2. /\ edit' = [edit EXCEPT ![e] = NoEdit] /\ NoEdit.at = "idle"
        /\ UNCHANGED <<disk, mem, writer, tool, lock, used, hist>>
    BY <1>1 DEF Ends, NoEdit
  <2>3. StoreTypeOK'
    BY <2>1, <2>2
  <2>4. OthersKept' /\ Exclusive' /\ Serial' /\ Fresh'
    BY <2>2 DEF OthersKept, Exclusive, Serial, Fresh
  <2>5. MemoryFollowsDisk'
    BY <1>1, <2>2 DEF MemoryFollowsDisk
  <2>6. QED BY <2>3, <2>4, <2>5
<1>2. CASE ~edit[e].left
  <2>0. [edit[e] EXCEPT !.at = "publish", !.copy = disk] \in EditSet
    BY DEF EditSet, Places
  <2>1. StoreTypeOK'
    <3>1. /\ edit' = [edit EXCEPT ![e] = [edit[e] EXCEPT !.at = "publish", !.copy = disk]]
          /\ hist' = [hist EXCEPT !.owed = FALSE] /\ edit[e].id \in Modems
          /\ UNCHANGED <<disk, mem, writer, tool, lock, used>>
      BY <1>2
    <3>2. QED BY <2>0, <3>1 DEF EditSet
  <2>2. edit'[e].at = "publish" /\ edit'[e].copy = disk /\ ~edit'[e].left
    BY <1>2 DEF EditSet
  <2>3. \A d \in Editors : d # e => edit'[d] = edit[d] /\ (edit[d].at = "publish" => edit[d].left)
    BY <1>2, ConfigAssumption DEF Serial
  <2>4. Fresh'
    BY <1>2, <2>2, <2>3 DEF Fresh
  <2>5. QED
    BY <1>2, <2>1, <2>2, <2>3, <2>4 DEF OthersKept, MemoryFollowsDisk, Exclusive, Serial
<1>3. QED BY <1>1, <1>2

LEMMA PublishStep ==
  ASSUME StoreInv, NEW e \in Editors, Publish(e)
  PROVE  StoreInv'
<1> USE DEF StoreInv, StoreTypeOK, At, Publish
<1>1. edit[e].copy \in Disk /\ (hist.owed \/ edit[e].copy.modems = disk.modems)
  BY DEF Fresh
<1>2. mem' \in Stored
  BY <1>1 DEF Disk
<1>3. NoEdit \in EditSet
  BY DEF NoEdit, EditSet, Places
<1>4. StoreTypeOK'
  BY <1>2, <1>3 DEF Ends, Unlocked, NoEdit
<1>5. OthersKept' /\ Exclusive' /\ Fresh'
  BY DEF OthersKept, Exclusive, Fresh, Ends, NoEdit
<1>6. Serial'
  BY ConfigAssumption DEF Serial, Ends, NoEdit, Unlocked
<1>7. MemoryFollowsDisk'
  BY <1>1 DEF MemoryFollowsDisk
<1>8. QED BY <1>4, <1>5, <1>6, <1>7

\* An error or a client that left after the rename is remembered; before it, the file is as it was.
LEMMA FailStep ==
  ASSUME StoreInv, NEW e \in Editors, Fail(e)
  PROVE  StoreInv'
<1> USE DEF StoreInv, StoreTypeOK, Fail, Event
<1>1. NoEdit \in EditSet
  BY DEF NoEdit, EditSet, Places
<1>2. /\ edit' = [edit EXCEPT ![e] = NoEdit] /\ NoEdit.at = "idle"
      /\ writer' \in {writer, None} /\ (writer # e => writer' = writer)
      /\ lock' \in {lock, None} /\ (lock # e => lock' = lock)
      /\ hist'.want = hist.want /\ hist' \in [want : Disk, owed : BOOLEAN]
      /\ hist'.owed = (hist.owed \/ edit[e].at \in {"load", "publish"})
      /\ UNCHANGED <<disk, mem, tool>> /\ used' \in Nat
  <2>1. used' \in Nat
    BY Counted
  <2>2. edit' = [edit EXCEPT ![e] = NoEdit] /\ NoEdit.at = "idle"
    BY DEF Ends, NoEdit
  <2>3. /\ writer' \in {writer, None} /\ (writer # e => writer' = writer)
        /\ lock' \in {lock, None} /\ (lock # e => lock' = lock)
    BY DEF Unlocked
  <2>4. /\ hist'.want = hist.want /\ hist' \in [want : Disk, owed : BOOLEAN]
        /\ hist'.owed = (hist.owed \/ edit[e].at \in {"load", "publish"})
    OBVIOUS
  <2>5. QED BY <2>1, <2>2, <2>3, <2>4
<1>3. StoreTypeOK'
  BY <1>1, <1>2
<1>4. OthersKept' /\ Exclusive' /\ Fresh' /\ Serial'
  BY <1>2, ConfigAssumption DEF OthersKept, Exclusive, Fresh, Serial
<1>5. MemoryFollowsDisk'
  BY <1>2 DEF MemoryFollowsDisk
<1>6. QED BY <1>3, <1>4, <1>5

LEMMA LeaveStep ==
  ASSUME StoreInv, NEW e \in Editors, Leave(e)
  PROVE  StoreInv'
<1> USE DEF StoreInv, StoreTypeOK, Leave, Event, At
<1>1. NoEdit \in EditSet
  BY DEF NoEdit, EditSet, Places
<1>2. edit'[e] = NoEdit \/ (edit'[e] = [edit[e] EXCEPT !.left = TRUE] /\ edit[e].at \notin {"lock", "publish"})
  BY DEF Ends
<1>3. \A d \in Editors : d # e => edit'[d] = edit[d]
  BY DEF Ends
<1>4. /\ edit'[e] \in EditSet /\ edit'[e].at \in {"idle", edit[e].at}
      /\ edit'[e].at # "idle" => /\ edit'[e].id = edit[e].id /\ edit'[e].copy = edit[e].copy
                                 /\ edit'[e].left /\ edit'[e].at # "publish"
      /\ edit' \in [Editors -> EditSet]
  <2>1. edit[e] \in EditSet
    OBVIOUS
  <2>2. CASE edit' = [edit EXCEPT ![e] = NoEdit]
    BY <1>1, <2>1, <2>2 DEF NoEdit
  <2>3. CASE /\ edit' = [edit EXCEPT ![e] = [edit[e] EXCEPT !.left = TRUE]]
             /\ edit[e].at \notin {"lock", "publish"}
    <3> HIDE DEF StoreInv, StoreTypeOK, Leave
    <3>1. [edit[e] EXCEPT !.left = TRUE] \in EditSet
      BY <2>1 DEF EditSet
    <3>2. edit \in [Editors -> EditSet]
      BY DEF StoreInv, StoreTypeOK
    <3>3. edit'[e] = [edit[e] EXCEPT !.left = TRUE] /\ edit' \in [Editors -> EditSet]
      BY <2>3, <3>1, <3>2
    <3>4. QED BY <2>1, <2>3, <3>3 DEF EditSet
  <2>4. QED BY <2>2, <2>3 DEF Ends
<1>5. /\ writer' \in {writer, None} /\ (writer # e => writer' = writer)
      /\ hist'.want = hist.want /\ hist' \in [want : Disk, owed : BOOLEAN]
      /\ hist'.owed = (hist.owed \/ edit[e].at \in {"load", "publish"})
      /\ UNCHANGED <<disk, mem, tool, lock>> /\ used' \in Nat
  <2>1. used' \in Nat
    BY Counted
  <2>2. writer' \in {writer, None} /\ (writer # e => writer' = writer)
    BY DEF Unlocked
  <2>3. /\ hist'.want = hist.want /\ hist' \in [want : Disk, owed : BOOLEAN]
        /\ hist'.owed = (hist.owed \/ edit[e].at \in {"load", "publish"})
    OBVIOUS
  <2>4. QED BY <2>1, <2>2, <2>3
<1>6. StoreTypeOK'
  BY <1>3, <1>4, <1>5
<1>7. OthersKept' /\ Exclusive' /\ Serial'
  BY <1>3, <1>4, <1>5, ConfigAssumption DEF OthersKept, Exclusive, Serial
<1>8. Fresh' /\ MemoryFollowsDisk'
  BY <1>3, <1>4, <1>5 DEF Fresh, MemoryFollowsDisk
<1>9. QED BY <1>6, <1>7, <1>8

LEMMA ToolStep == StoreInv /\ (SetService \/ ToolOpen \/ ToolRename) => StoreInv'
<1> SUFFICES ASSUME StoreInv, SetService \/ ToolOpen \/ ToolRename PROVE StoreInv'
  OBVIOUS
<1> USE DEF StoreInv, StoreTypeOK
<1>1. CASE SetService
  <2>1. PICK v \in Value : tool' = [NoTool EXCEPT !.at = "open", !.value = v]
    BY <1>1 DEF SetService
  <2>2. tool' \in ToolSet /\ tool'.at = "open" /\ tool'.value \in Value
    BY <2>1 DEF NoTool, ToolSet
  <2>3. UNCHANGED <<disk, mem, edit, writer, lock, hist>> /\ Event
    BY <1>1 DEF SetService
  <2>4. used' \in Nat
    BY <2>3, Counted
  <2>5. QED
    BY <2>2, <2>3, <2>4 DEF OthersKept, MemoryFollowsDisk, Exclusive, Serial, Fresh
<1>2. CASE ToolOpen
  <2>1. StoreTypeOK'
    BY <1>2 DEF ToolOpen, ToolSet
  <2>2. QED
    BY <1>2, <2>1, ConfigAssumption
       DEF ToolOpen, ToolSet, OthersKept, MemoryFollowsDisk, Exclusive, Serial, Fresh
<1>3. CASE ToolRename
  <2>1. tool.copy = disk /\ lock = "tool" /\ tool.value \in Value /\ hist.want = disk
    BY <1>3 DEF ToolRename, Exclusive, OthersKept
  <2>2. disk' \in Disk /\ disk'.modems = disk.modems /\ hist'.want = disk' /\ hist' \in [want : Disk, owed : BOOLEAN]
        /\ hist'.owed = hist.owed
    BY <1>3, <2>1 DEF ToolRename, Disk
  <2>3. NoTool \in ToolSet /\ NoTool.at = "idle"
    BY DEF NoTool, ToolSet
  <2>4. StoreTypeOK'
    BY <1>3, <2>2, <2>3 DEF ToolRename
  <2>5. QED
    BY <1>3, <2>1, <2>2, <2>3, <2>4, ConfigAssumption
       DEF ToolRename, OthersKept, MemoryFollowsDisk, Exclusive, Serial, Fresh
<1>4. QED BY <1>1, <1>2, <1>3

LEMMA CrashStep == StoreInv /\ Crash => StoreInv'
<1> SUFFICES ASSUME StoreInv, Crash PROVE StoreInv'
  OBVIOUS
<1> USE DEF StoreInv, StoreTypeOK, Crash, Event
<1>1. NoEdit \in EditSet
  BY DEF NoEdit, EditSet, Places
<1>2. mem' \in Stored /\ edit' \in [Editors -> EditSet] /\ hist' \in [want : Disk, owed : BOOLEAN]
  BY <1>1 DEF Disk
<1>3. StoreTypeOK'
  <2>1. used' \in Nat
    BY Counted
  <2>2. writer' \in Editors \cup {None} /\ lock' \in Editors \cup {"tool", None} /\ UNCHANGED <<disk, tool>>
    OBVIOUS
  <2>3. \A e \in Editors : edit'[e].at = "idle"
    BY DEF NoEdit
  <2>4. QED BY <1>2, <2>1, <2>2, <2>3
<1>4. QED
  BY <1>3, ConfigAssumption DEF NoEdit, OthersKept, MemoryFollowsDisk, Exclusive, Serial, Fresh

LEMMA StoreStep == StoreInv /\ [Next]_vars => StoreInv'
<1> SUFFICES ASSUME StoreInv, [Next]_vars PROVE StoreInv'
  OBVIOUS
<1>1. ASSUME NEW e \in Editors, NEW m \in Modems,
             SaveModem(e, m) \/ DeleteModem(e, m) \/ SavePart(e, m) \/ Discover(e, m)
      PROVE  StoreInv'
  BY <1>1, BeginStep
<1>2. ASSUME NEW e \in Editors, Persist(e)
      PROVE  StoreInv'
  BY <1>2, LockStep, OpenStep, RenameStep, LoadStep, PublishStep, FailStep, LeaveStep DEF Persist
<1>3. CASE SetService \/ ToolOpen \/ ToolRename
  BY <1>3, ToolStep
<1>4. CASE Crash
  BY <1>4, CrashStep
<1>5. CASE UNCHANGED vars
  BY <1>5 DEF vars, StoreInv, StoreTypeOK, OthersKept, MemoryFollowsDisk, Exclusive, Serial, Fresh
<1>6. QED BY <1>1, <1>2, <1>3, <1>4, <1>5 DEF Next

LEMMA StoreInvariant == Spec => []StoreInv
BY StoreInit, StoreStep, PTL DEF Spec

\* A save changes its modem in the file and nothing else there, whatever the other process and
\* tasks whose client has left do meanwhile.
THEOREM SavesKeepOthers == Spec => []OthersKept
<1>1. StoreInv => OthersKept
  BY DEF StoreInv
<1>2. QED BY <1>1, StoreInvariant, PTL

\* Memory has the modems of the file when no save is between the two and none ended there.
THEOREM MemoryIsTheFile == Spec => []MemoryFollowsDisk
<1>1. StoreInv => MemoryFollowsDisk
  BY DEF StoreInv
<1>2. QED BY <1>1, StoreInvariant, PTL

\* Two writers of the file, tasks or processes, are never between its reading and its renaming
\* at once, and the handlers that can still answer are one at a time in persist_modem.
THEOREM WritersExclude == Spec => [](Exclusive /\ Serial)
<1>1. StoreInv => Exclusive /\ Serial
  BY DEF StoreInv
<1>2. QED BY <1>1, StoreInvariant, PTL
=============================================================================
