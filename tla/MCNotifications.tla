--------------------------- MODULE MCNotifications ---------------------------
(* Values of the constants of StatusNotifications for TLC.                   *)
EXTENDS StatusNotifications, TLC

CONSTANTS t1, t2, n1, n2

Symmetry == Permutations({t1, t2}) \cup Permutations({n1, n2})
=============================================================================
