----------------------------- MODULE MCNetwork ------------------------------
EXTENDS Network

Base == [auto |-> TRUE, watch |-> TRUE, action |-> "redial", pin |-> "good",
         dials |-> 1, hangs |-> 1, name |-> "qm", dual |-> TRUE, device |-> Netdev]

\* The watchdog switches SIMs, the stored PIN is wrong, the interface has another name and its
\* data device is left to discovery.
Renamed == [Base EXCEPT !.action = "switch", !.pin = "bad", !.name = "wan2", !.device = None]

\* All of it is off, the context is another one and there is no IPv6.
Plain == [Base EXCEPT !.auto = FALSE, !.watch = FALSE, !.dials = 2, !.hangs = 2, !.dual = FALSE]

Edits == {Base, Renamed, Plain}
=============================================================================
