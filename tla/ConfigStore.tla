----------------------------- MODULE ConfigStore -----------------------------
(* The configuration: the file, the copy of it that the daemon runs on, the handlers and the   *)
(* discovery that save a modem in both (persist_modem), and the command line program, another  *)
(* process, that changes the settings of the service in the file (set_service).                *)
(*                                                                                             *)
(* A save waits for config_writer, and hands the file to a blocking task, which rewrites it    *)
(* under the lock of a second file.  The task goes on when the client of its handler leaves.   *)
EXTENDS FiniteSets, Naturals

CONSTANTS
  Modems,     (* ids                                                         *)
  Parts,      (* parts of a modem's configuration, saved by handlers of their own *)
  Editors,    (* tasks that save a modem                                     *)
  Owned,      (* those of them that no client can end: discovery, cell lock  *)
  MaxEvents,  (* bound: saves, changes of the service, errors, crashes       *)
  None

ASSUME ConfigAssumption ==
  /\ Owned \subseteq Editors /\ MaxEvents \in Nat
  /\ None \notin Editors /\ "tool" \notin Editors \cup {None}

Value == {1, 2}
Modem == [Parts -> Value]
Stored == [Modems -> Modem \cup {None}]
Disk == [service : Value, modems : Stored]

VARIABLES
  disk,     (* the configuration file                                        *)
  mem,      (* the modems of AppState.config                                 *)
  edit,     (* the saves                                                     *)
  writer,   (* config_writer                                                 *)
  tool,     (* the command line program                                      *)
  lock,     (* the lock file                                                 *)
  used,     (* bound                                                         *)
  hist      (* history: what each writer meant the file to have; is there a
               save in the file that memory was not told of                  *)

vars == <<disk, mem, edit, writer, tool, lock, used, hist>>

NoEdit == [at |-> "idle", id |-> None, value |-> None, copy |-> None, left |-> FALSE]
NoTool == [at |-> "idle", value |-> None, copy |-> None]

Init ==
  /\ disk \in {d \in Disk : d.service = 1 /\ \A m \in Modems : d.modems[m] \in {None, [p \in Parts |-> 1]}}
  /\ mem = disk.modems
  /\ edit = [e \in Editors |-> NoEdit] /\ writer = None
  /\ tool = NoTool /\ lock = None
  /\ used = 0 /\ hist = [want |-> disk, owed |-> FALSE]

Event == used < MaxEvents /\ used' = used + 1

At(e, p) == edit[e].at = p
Goto(e, p) == edit' = [edit EXCEPT ![e].at = p]
Ends(e) == edit' = [edit EXCEPT ![e] = NoEdit]

\* A guard is dropped with the future of its handler.
Unlocked(e) == IF writer = e THEN None ELSE writer

-----------------------------------------------------------------------------
(* What is saved: a modem as the client gives it, or without one part of what *)
(* memory has now, or nothing.                                                *)

Save(e, m, value) ==
  /\ Event /\ At(e, "idle")
  /\ edit' = [edit EXCEPT ![e] = [NoEdit EXCEPT !.at = "lock", !.id = m, !.value = value]]
  /\ UNCHANGED <<disk, mem, writer, tool, lock, hist>>

SaveModem(e, m) == \E value \in Modem : Save(e, m, value)
DeleteModem(e, m) == Save(e, m, None)

\* configure_maintenance, save_startup, save_cell_lock, configure: read, change, save whole.
SavePart(e, m) ==
  /\ mem[m] # None
  /\ \E p \in Parts, v \in Value : Save(e, m, [mem[m] EXCEPT ![p] = v])

\* Discovery reads the modem, probes the device for some seconds, and saves what it read with
\* what it found; a device that it does not know is registered.
Discover(e, m) ==
  \E p \in Parts, v \in Value :
    Save(e, m, IF mem[m] = None THEN [q \in Parts |-> v] ELSE [mem[m] EXCEPT ![p] = v])

-----------------------------------------------------------------------------
(* persist_modem.                                                            *)

Lock(e) ==
  /\ At(e, "lock") /\ writer = None /\ writer' = e
  /\ Goto(e, "open")
  /\ UNCHANGED <<disk, mem, tool, lock, used, hist>>

\* The new configuration, with the other modems in memory, is not valid; the lock is released.
Invalid(e) ==
  /\ At(e, "lock") /\ writer = None
  /\ Ends(e)
  /\ UNCHANGED <<disk, mem, writer, tool, lock, used, hist>>

\* Mutant: the lock file is not taken.
OpenUnlocked(e) ==
  /\ At(e, "open") /\ lock' = e
  /\ edit' = [edit EXCEPT ![e].at = "rename", ![e].copy = disk]
  /\ UNCHANGED <<disk, mem, writer, tool, used, hist>>

\* The blocking task locks, reads, ...
Open(e) ==
  /\ At(e, "open") /\ lock = None /\ lock' = e
  /\ edit' = [edit EXCEPT ![e].at = "rename", ![e].copy = disk]
  /\ UNCHANGED <<disk, mem, writer, tool, used, hist>>

\* ... replaces the one modem, and renames the new file over the old one.
Patched(e) == [edit[e].copy EXCEPT !.modems[edit[e].id] = edit[e].value]
Rename(e) ==
  /\ At(e, "rename")
  /\ disk' = Patched(e) /\ lock' = None
  /\ Goto(e, "load")
  /\ hist' = [want |-> [hist.want EXCEPT !.modems[edit[e].id] = edit[e].value],
              owed |-> hist.owed \/ edit[e].left]
  /\ UNCHANGED <<mem, writer, tool, used>>

\* The task reads the file again, without the lock, and answers its handler.
Load(e) ==
  /\ At(e, "load")
  /\ IF edit[e].left THEN Ends(e) /\ UNCHANGED hist
     ELSE /\ edit' = [edit EXCEPT ![e].at = "publish", ![e].copy = disk]
          /\ hist' = [hist EXCEPT !.owed = FALSE]
  /\ UNCHANGED <<disk, mem, writer, tool, lock, used>>

\* Mutant: memory gets the saved modem, not what the file has.
PublishOwn(e) ==
  /\ At(e, "publish")
  /\ mem' = [mem EXCEPT ![edit[e].id] = edit[e].value] /\ writer' = Unlocked(e) /\ Ends(e)
  /\ UNCHANGED <<disk, tool, lock, used, hist>>

\* After the outbox (SmsForward), memory gets all modems of the file.
Publish(e) ==
  /\ At(e, "publish")
  /\ mem' = edit[e].copy.modems /\ writer' = Unlocked(e) /\ Ends(e)
  /\ UNCHANGED <<disk, tool, lock, used, hist>>

\* The file cannot be read, is refused, cannot be written; or was written, and the directory
\* cannot be synchronised, the file not be loaded, or the outbox not be changed.
Fail(e) ==
  /\ Event /\ edit[e].at \in {"open", "rename", "load", "publish"}
  /\ Ends(e) /\ writer' = Unlocked(e)
  /\ lock' = IF lock = e THEN None ELSE lock
  /\ hist' = [hist EXCEPT !.owed = @ \/ edit[e].at \in {"load", "publish"}]
  /\ UNCHANGED <<disk, mem, tool>>

\* The client leaves: its handler ends at the await it is in, the blocking task does not.
Leave(e) ==
  /\ Event /\ e \notin Owned /\ ~At(e, "idle") /\ ~edit[e].left
  /\ writer' = Unlocked(e)
  /\ IF edit[e].at \in {"lock", "publish"} THEN Ends(e)
     ELSE edit' = [edit EXCEPT ![e].left = TRUE]
  /\ hist' = [hist EXCEPT !.owed = @ \/ edit[e].at \in {"load", "publish"}]
  /\ UNCHANGED <<disk, mem, tool, lock>>

Persist(e) == Lock(e) \/ Invalid(e) \/ Open(e) \/ Rename(e) \/ Load(e) \/ Publish(e) \/ Fail(e) \/ Leave(e)

-----------------------------------------------------------------------------
(* The other process, and the daemon.                                        *)

SetService ==
  /\ Event /\ tool.at = "idle"
  /\ \E v \in Value : tool' = [NoTool EXCEPT !.at = "open", !.value = v]
  /\ UNCHANGED <<disk, mem, edit, writer, lock, hist>>

ToolOpen ==
  /\ tool.at = "open" /\ lock = None /\ lock' = "tool"
  /\ tool' = [tool EXCEPT !.at = "rename", !.copy = disk]
  /\ UNCHANGED <<disk, mem, edit, writer, used, hist>>

ToolRename ==
  /\ tool.at = "rename"
  /\ disk' = [tool.copy EXCEPT !.service = tool.value] /\ lock' = None
  /\ tool' = NoTool
  /\ hist' = [hist EXCEPT !.want.service = tool.value]
  /\ UNCHANGED <<mem, edit, writer, used>>

\* The lock of a process ends with it; a new daemon loads the file.
Crash ==
  /\ Event
  /\ mem' = disk.modems
  /\ edit' = [e \in Editors |-> NoEdit] /\ writer' = None
  /\ lock' = IF lock \in Editors THEN None ELSE lock
  /\ hist' = [hist EXCEPT !.owed = FALSE]
  /\ UNCHANGED <<disk, tool>>

Next ==
  \/ \E e \in Editors, m \in Modems :
       IF e \in Owned THEN Discover(e, m) \/ SavePart(e, m)
       ELSE SaveModem(e, m) \/ DeleteModem(e, m) \/ SavePart(e, m)
  \/ \E e \in Editors : Persist(e)
  \/ SetService \/ ToolOpen \/ ToolRename \/ Crash

Spec == Init /\ [][Next]_vars

-----------------------------------------------------------------------------
(* Properties.                                                               *)

\* A save changes its modem in the file and nothing else there: the file is what the last
\* writer of each part meant, over two processes, tasks whose client has left, errors and crashes.
OthersKept == disk = hist.want

\* Memory has the modems of the file, unless a save is between the two, or ended there because
\* of an error or a client that left; the next save that ends well makes up for those, too.
MemoryFollowsDisk ==
  (\A e \in Editors : edit[e].at \in {"load", "publish"} => edit[e].left) /\ ~hist.owed
    => mem = disk.modems
=============================================================================
