----------------------------- MODULE MCApprovers -----------------------------
(* Values of the constants of ApproverTree for TLC.                          *)
EXTENDS ApproverTree, TLC

CONSTANTS t1, t2, a1, a2, q1, q2

Node(at, k, u) == [at |-> at, threshold |-> k, userId |-> u]

(* A user; a list of a user; a list with a threshold below zero; and what  *)
(* is refused: a threshold above the children, a user with children.       *)
SmallForests ==
  {<<Node(0, 0, a1)>>,
   <<Node(0, 1, NoUser), Node(1, 0, a1)>>,
   <<Node(0, -1, NoUser), Node(1, 0, a2)>>,
   <<Node(0, 2, NoUser), Node(1, 0, a2)>>,
   <<Node(0, 1, a1), Node(1, 0, a2)>>}

Symmetry == Permutations({t1, t2}) \cup Permutations({q1, q2})
=============================================================================
