----------------------------- MODULE MCSnapshots -----------------------------
(* Values of the constants of SnapshotLog for TLC.                           *)
EXTENDS SnapshotLog, TLC

CONSTANTS k1, k2, k3, k4, t1, t2, c1, c2, c3

Of(n, keys) == [threshold |-> n, keys |-> keys]

Pair    == Of(0, <<k1, k2>>)
Single  == Of(1, <<k3>>)
AnyTwo  == Of(2, <<k1, k2, k3>>)
Empty   == Of(0, <<>>)
Council == Of(2, <<Pair, k3, k4>>)                   \* public keys first
Nested  == Of(2, <<Pair, Single, k4>>)               \* the shorter list first
Deep    == Of(2, <<Of(1, <<Pair, k3>>), AnyTwo, k4>>) \* a key twice
Holed   == Of(2, <<Empty, k1, k2>>)
TooMany == Of(3, <<k1, k2>>)

Lists == {Pair, Single, AnyTwo, Empty, Council, Nested, Deep, Deep.keys[1],
          Holed, TooMany, Of(1, <<Pair, Single>>)}

(* A key is replaced by a public key, and that by a list. *)
RotateKeys ==
  [k \in {k1, k2, k3, k4} \cup Lists \cup {NoKey} |->
     IF k \in Lists THEN k1 ELSE AnyTwo]

(* The first transaction is executed and archived. *)
ExecutedAndArchived == (c1 :> t1) @@ (c2 :> t1) @@ (c3 :> t2)
=============================================================================
