--------------------------- MODULE MCMaintenance ---------------------------
EXTENDS Maintenance

On == [watch |-> TRUE, reset |-> TRUE, note |-> 1]

\* Another part of the modem is edited, or the watchdog switched off.
Edits == {On, [On EXCEPT !.note = 2], [On EXCEPT !.watch = FALSE]}
=============================================================================
