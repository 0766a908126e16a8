\* Overlapping uploads of a pair of keys that does not fit and of a key that does.
SPECIFICATION FairSpec
CONSTANTS
  k1 = k1  k2 = k2  k3 = k3  u1 = u1  u2 = u2  p1 = p1  p2 = p2
  r1 = r1  c1 = c1  c2 = c2  a1 = a1
  Keys = {k1, k2, k3}
  Quorums <- PairOrOne
  MaxSigs = 1
  Uploads = {u1, u2}
  Imports = {u2}
  Carries <- PairThenOne
  Pods = {p1}
  Requests = {}
  NoOwner = NoOwner
  Cancels = {}
  Archives = {}
  Manual = {FALSE}
  KeysFail = FALSE
  LastPhase = 1
  MaxCrashes = 0
PROPERTY StatusIsRepaired
CHECK_DEADLOCK FALSE
