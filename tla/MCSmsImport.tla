---------------------------- MODULE MCSmsImport -----------------------------
(* Model values for SmsImport. *)
EXTENDS SmsImport

CONSTANTS x1, x2, x3, r1

\* x1 and x2 have one reference within the window, x3 has it later.
Sent == [t \in Texts |-> [peer |-> 1, ref |-> 1, total |-> 2, time |-> IF t = x3 THEN 5 ELSE 0]]
=============================================================================
