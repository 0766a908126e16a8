----------------------------- MODULE MCOrganization -----------------------------
(***************************************************************************)
(* Accounts, user keys and the creation of transactions share no state in  *)
(* these models; one run checks the three.  A behaviour moves one of them, *)
(* chosen at the start, so that the states add up instead of multiplying.  *)
(***************************************************************************)
EXTENDS Accounts, UserKeys, TransactionCreation, TLC

CONSTANTS t1, t2

VARIABLE moving

vars == <<accountVars, keyVars, creationVars, moving>>

SingleAndGroups == {<<t1>>, <<t1, t2>>, <<t2, t2>>}

Init ==
  /\ AccountsInit /\ KeysInit /\ CreationInit
  /\ moving \in {"accounts", "keys", "creation"}

Next ==
  /\ UNCHANGED moving
  /\ \/ moving = "accounts" /\ AccountsNext /\ UNCHANGED <<keyVars, creationVars>>
     \/ moving = "keys" /\ KeysNext /\ UNCHANGED <<accountVars, creationVars>>
     \/ moving = "creation" /\ CreationNext /\ UNCHANGED <<accountVars, keyVars>>

Spec == Init /\ [][Next]_vars

Alike == Permutations(Users) \cup Permutations(PublicKeys) \cup Permutations(Uploads)
=============================================================================
