--------------------------- MODULE MCConfigStore ----------------------------
(* Model values for ConfigStore. *)
EXTENDS ConfigStore

CONSTANTS h1, h2, scan, m1, m2

\* Two handlers and the discovery, two modems, one of them perhaps not configured.
Symmetry == {[x \in {h1, h2} |-> x], [x \in {h1, h2} |-> IF x = h1 THEN h2 ELSE h1]}
=============================================================================
