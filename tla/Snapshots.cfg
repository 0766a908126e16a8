\* Two transactions end, the first twice, while the key of the account changes.
SPECIFICATION Spec
CONSTANTS
  k1 = k1  k2 = k2  k3 = k3  k4 = k4  t1 = t1  t2 = t2  c1 = c1  c2 = c2  c3 = c3
  PublicKeys = {k1, k2, k3, k4}
  KeyLists <- Lists
  Transactions = {t1, t2}
  Captures = {c1, c2, c3}
  For <- ExecutedAndArchived
  Rotated <- RotateKeys
  LastTime = 2
  MaxRotations = 1
  NoKey = NoKey
INVARIANTS LinkTellsKey TimelineInOrder ShortListSuffices ShortListIsSmallest
CHECK_DEADLOCK FALSE
