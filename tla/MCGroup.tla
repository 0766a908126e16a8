------------------------------ MODULE MCGroup -------------------------------
(***************************************************************************)
(* Instances of GroupExecution for TLC: groups of two members.             *)
(***************************************************************************)
EXTENDS GroupExecution, TLC

CONSTANTS p1, p2, r1, c1, c2

(* Both members start at once; the second starts when the first expires.   *)
Together  == [t \in Members |-> 1]
Staggered == [t \in Members |-> 2 * t - 1]

NoRequest   == [r \in Requests |-> 1]
FirstByHand == r1 :> 1
PodSymmetry == Permutations(Pods)

=============================================================================
