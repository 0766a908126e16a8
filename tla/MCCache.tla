------------------------------- MODULE MCCache ------------------------------
(* Instances of CacheRefresh for TLC. *)
EXTENDS CacheRefresh, TLC

CONSTANTS q1, q2, j1, j2

OneOfEach == {q1, j1}
Symmetry  == Permutations({q1, q2})
=============================================================================
