------------------------------ MODULE Watchdog ------------------------------
(* The Counter of monitor.rs, which turns the results of the connectivity checks of one modem  *)
(* into the decision to act.  Time is counted in units of which Cooldown make the configured   *)
(* cool-down; since is the age of the last action, and stops at Cooldown.                      *)
EXTENDS Naturals

CONSTANTS
  Threshold,  (* failed checks that trigger the actions                      *)
  Grace,      (* checks of an absent interface that are forgiven             *)
  Cooldown    (* time between two actions                                    *)

ASSUME WatchdogAssumption == Threshold \in Nat \ {0} /\ Grace \in Nat /\ Cooldown \in Nat

Count == [failures : 0..Threshold, grace : 0..Grace, since : 0..Cooldown]

NewCount == [failures |-> 0, grace |-> Grace, since |-> Cooldown]

\* Time passes between two checks.
Older(c, dt) == [c EXCEPT !.since = IF @ + dt > Cooldown THEN Cooldown ELSE @ + dt]

Forgiven(c, ready) == ~ready /\ c.grace > 0

\* The failures after a check; beyond the threshold their number no longer matters.
Failures(c, healthy) ==
  IF healthy THEN 0 ELSE IF c.failures < Threshold THEN c.failures + 1 ELSE c.failures

Triggers(c, ready, healthy) ==
  ~Forgiven(c, ready) /\ Failures(c, healthy) >= Threshold /\ c.since >= Cooldown

\* Mutants: the failures are kept after an action; the grace is never used up.
ObservedKeeps(c, ready, healthy) ==
  IF Forgiven(c, ready) THEN [c EXCEPT !.grace = @ - 1]
  ELSE IF Triggers(c, ready, healthy) THEN [c EXCEPT !.grace = Grace, !.since = 0]
  ELSE [c EXCEPT !.failures = Failures(c, healthy)]
ObservedGraceful(c, ready, healthy) ==
  IF Forgiven(c, ready) THEN c
  ELSE IF Triggers(c, ready, healthy) THEN [failures |-> 0, grace |-> Grace, since |-> 0]
  ELSE [c EXCEPT !.failures = Failures(c, healthy)]

Observed(c, ready, healthy) ==
  IF Forgiven(c, ready) THEN [c EXCEPT !.grace = @ - 1]
  ELSE IF Triggers(c, ready, healthy) THEN [failures |-> 0, grace |-> Grace, since |-> 0]
  ELSE [c EXCEPT !.failures = Failures(c, healthy)]
=============================================================================
