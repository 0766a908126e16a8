\* Two transactions, two requests of creators at once, users approve meanwhile.
SPECIFICATION Spec
CONSTANTS
  t1 = t1  t2 = t2  a1 = a1  a2 = a2  q1 = q1  q2 = q2
  Transactions = {t1, t2}
  Users = {a1, a2}
  Dtos <- SmallForests
  Editors = {q1, q2}
  MaxRows = 4
  MaxEdits = 4
  NoTransaction = NoTransaction
  NoUser = NoUser
  NoSignature = NoSignature
SYMMETRY Symmetry
INVARIANTS TreeIsSound SignedForItsTransaction
PROPERTIES OnlyMovesStrand
CHECK_DEADLOCK FALSE
