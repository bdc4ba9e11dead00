--------------------------- MODULE MCSmsForward ---------------------------
EXTENDS SmsForward, TLC

CONSTANTS m1, m2, a1, a2, t1, t2

To1(t) == [on |-> TRUE, sink |-> [s \in Sinks |-> t]]
Disabled(t) == [on |-> FALSE, sink |-> [s \in Sinks |-> t]]

\* One destination pointed elsewhere, switched off, its modem disabled or removed.
AllConfigs == {To1(t1), To1(t2), To1(Off), Disabled(t1), Disabled(t2), NoModem}
OneTarget == {To1(t1)}

\* Messages and handlers are interchangeable, and targets where the configurations treat them alike.
Symmetry == Permutations(Messages) \cup Permutations(Targets) \cup Permutations(Admins)
=============================================================================
