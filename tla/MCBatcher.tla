----------------------------- MODULE MCBatcher -----------------------------
(* Values of the constants of NotificationBatcher for TLC.                   *)
EXTENDS NotificationBatcher, TLC

CONSTANTS i1, i2, m1, m2, m3

TwoHomes == m1 :> i1 @@ m2 :> i2
OneHome == [m \in {m1, m2, m3} |-> i1]
=============================================================================
