---------------------------- MODULE MCLifecycle -----------------------------
(***************************************************************************)
(* Instances of TransactionLifecycle for TLC.                              *)
(***************************************************************************)
EXTENDS TransactionLifecycle, TLC

CONSTANTS k1, k2, k3, u1, u2, p1, p2, r1, c1, c2, a1

(* Signature keys: both of two keys; any of two keys; a pair of keys or a   *)
(* third one.                                                              *)
BothKeys  == {{k1, k2}}
AnyKey    == {{k1}, {k2}}
PairOrOne == {{k1, k2}, {k3}}

(* What the upload requests bring. *)
BothAtOnce  == u1 :> {k1, k2}
OneEach     == (u1 :> {k1}) @@ (u2 :> {k2})
PairThenOne == (u1 :> {k1, k2}) @@ (u2 :> {k3})

PodSymmetry == Permutations(Pods)

=============================================================================
