------------------------------ MODULE Startup -------------------------------
(* The start-up of one modem and its automatic connection: two workers that poll the           *)
(* configuration and the device, every three and every five seconds, and meet in the start-up  *)
(* status.                                                                                     *)
(*                                                                                             *)
(* The start-up worker serves all modems in turn with the configuration it read at the start   *)
(* of its pass, so any time may go by (in the delays of another modem) until it comes to this  *)
(* one.  The connection itself is module Network's.                                            *)
EXTENDS Naturals

CONSTANTS
  Keys,       (* start-up settings: ports, SMS memories, commands, cell lock (signature) *)
  MaxEvents,  (* bound: edits, plugs, unplugs and crashes together           *)
  None

ASSUME StartupAssumption == None \notin Keys /\ MaxEvents \in Nat

\* The configuration of the modem; note is the rest of it.
Configs == [key : Keys, auto : BOOLEAN, note : {1, 2}]

VARIABLES
  cfg,      (* the modem in AppState.config                                  *)
  here,     (* does the device exist                                         *)
  boot,     (* start_initialization: its pass and known                      *)
  status,   (* startup_status of the modem                                   *)
  auto,     (* start_network_workers: attempted                              *)
  used,     (* bound                                                         *)
  hist      (* history: settings applied in this life of the daemon           *)

vars == <<cfg, here, boot, status, auto, used, hist>>

Idle(known) == [at |-> "idle", cfg |-> None, known |-> known, lost |-> FALSE]
NoStatus == [state |-> "none", key |-> None]

Init ==
  /\ cfg \in {c \in Configs : c.note = 1} /\ here = TRUE
  /\ boot = Idle(None) /\ status = NoStatus /\ auto = None
  /\ used = 0 /\ hist = {}

Event == used < MaxEvents /\ used' = used + 1

-----------------------------------------------------------------------------
(* The start-up worker.                                                      *)

\* A pass begins: it forgets a modem whose device is gone at this moment.
BootPass ==
  /\ boot.at = "idle"
  /\ boot' = [boot EXCEPT !.at = "pass", !.cfg = cfg, !.known = IF here THEN @ ELSE None]
  /\ UNCHANGED <<cfg, here, status, auto, used, hist>>

\* It comes to the modem and passes it over ...
BootSkip ==
  /\ boot.at = "pass" /\ (~here \/ boot.known = boot.cfg.key)
  /\ boot' = Idle(boot.known)
  /\ UNCHANGED <<cfg, here, status, auto, used, hist>>

\* Mutant: the status of an earlier start-up stays until the program ends.
BootStartQuiet ==
  /\ boot.at = "pass" /\ here /\ boot.known # boot.cfg.key
  /\ boot' = [boot EXCEPT !.at = "run", !.known = boot.cfg.key]
  /\ UNCHANGED <<cfg, here, status, auto, used, hist>>

\* ... or starts its program, with the settings of the pass.
BootStart ==
  /\ boot.at = "pass" /\ here /\ boot.known # boot.cfg.key
  /\ boot' = [boot EXCEPT !.at = "run", !.known = boot.cfg.key]
  /\ status' = [state |-> "pending", key |-> None]
  /\ UNCHANGED <<cfg, here, auto, used, hist>>

SignedByCurrent(state) == [state |-> state, key |-> cfg.key]   \* mutant: signature of what is configured now
Signed(state) == [state |-> state, key |-> boot.cfg.key]

\* The program ends: ready, or degraded if the modem refused a command, which is_ready
\* takes alike.
BootReady ==
  /\ boot.at = "run" /\ ~boot.lost
  /\ boot' = Idle(boot.known) /\ status' = Signed("ready")
  /\ hist' = hist \cup {boot.cfg.key}
  /\ UNCHANGED <<cfg, here, auto, used>>

\* Mutant: a failed start-up stays known, so that it is not tried again.
BootFailKnown ==
  /\ boot.at = "run"
  /\ boot' = Idle(boot.known) /\ status' = Signed("failed")
  /\ UNCHANGED <<cfg, here, auto, used, hist>>

\* The port cannot be opened, times out, or the modem is unplugged meanwhile.
BootFail ==
  /\ boot.at = "run"
  /\ boot' = Idle(None) /\ status' = Signed("failed")
  /\ UNCHANGED <<cfg, here, auto, used, hist>>

-----------------------------------------------------------------------------
(* The automatic connection.                                                 *)

IsReady == status.state = "ready" /\ status.key = cfg.key

Due == cfg.auto /\ IsReady /\ auto # cfg /\ here

\* connect is started once for each configuration of the modem.
AutoConnect ==
  /\ Due /\ auto' = cfg
  /\ UNCHANGED <<cfg, here, boot, status, used, hist>>

\* A pass that finds the modem gone, or not to be connected, forgets it.
AutoForget ==
  /\ auto # None /\ ~(cfg.auto /\ here) /\ auto' = None
  /\ UNCHANGED <<cfg, here, boot, status, used, hist>>

-----------------------------------------------------------------------------
(* The configuration, the device and the daemon.                             *)

Edit ==
  /\ Event /\ \E c \in Configs \ {cfg} : cfg' = c
  /\ UNCHANGED <<here, boot, status, auto, hist>>

\* The program that runs is lost with the device.
Unplug ==
  /\ Event /\ here /\ here' = FALSE
  /\ boot' = [boot EXCEPT !.lost = boot.at = "run"]
  /\ UNCHANGED <<cfg, status, auto, hist>>

Plug ==
  /\ ~here /\ here' = TRUE
  /\ UNCHANGED <<cfg, boot, status, auto, used, hist>>

Crash ==
  /\ Event
  /\ boot' = Idle(None) /\ status' = NoStatus /\ auto' = None
  /\ hist' = {}
  /\ UNCHANGED <<cfg, here>>

Boot == BootPass \/ BootSkip \/ BootStart \/ BootReady \/ BootFail
AutoPass == AutoConnect \/ AutoForget

Next == Boot \/ AutoPass \/ Edit \/ Unplug \/ Plug \/ Crash

Spec == Init /\ [][Next]_vars

\* Both workers are polled for ever; a program that may succeed again and again does so.
FairSpec == Spec /\ WF_vars(Boot) /\ WF_vars(AutoPass) /\ SF_vars(BootReady)

-----------------------------------------------------------------------------
(* Properties.                                                               *)

TypeOK ==
  /\ cfg \in Configs /\ here \in BOOLEAN
  /\ boot \in [at : {"idle", "pass", "run"}, cfg : Configs \cup {None},
               known : Keys \cup {None}, lost : BOOLEAN]
  /\ status \in [state : {"none", "pending", "ready", "failed"}, key : Keys \cup {None}]
  /\ boot.at = "run" => boot.known = boot.cfg.key /\ status.state = "pending"
  /\ auto \in Configs \cup {None}
  /\ used \in 0..MaxEvents
  /\ hist \in SUBSET Keys

\* A modem is connected automatically only after the start-up with the settings it is
\* configured with has ended well in this life of the daemon, whatever was edited while the
\* start-up ran.
AutoAfterStartup == [][auto' \notin {auto, None} => auto'.key \in hist]_vars

\* For a modem that is configured to be connected, and there to stay, connect is started with
\* this configuration, unless it was already and no pass has seen the modem gone since: no order
\* of edits, failed start-ups, crashes and replugs that a pass has seen leaves it out.
AutoConnects == \A c \in Configs : <>[](cfg = c /\ c.auto /\ here) => <>[](auto = c)
=============================================================================
