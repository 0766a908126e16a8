\* docs/test-scenarios.md:740 against two overlapping uploads.
SPECIFICATION FairSpec
CONSTANTS
  k1 = k1  k2 = k2  k3 = k3  u1 = u1  u2 = u2  p1 = p1  p2 = p2
  r1 = r1  c1 = c1  c2 = c2  a1 = a1
  Keys = {k1, k2}
  Quorums <- BothKeys
  MaxSigs = 2
  Uploads = {u1, u2}
  Imports = {}
  Carries <- OneEach
  Pods = {p1}
  Requests = {}
  NoOwner = NoOwner
  Cancels = {}
  Archives = {}
  Manual = {FALSE}
  KeysFail = FALSE
  LastPhase = 0
  MaxCrashes = 0
PROPERTY ReadyAfterAllSignatures
CHECK_DEADLOCK FALSE
