\* A pod that may crash and a request execute; a cancel and an archive race; signatures are stripped; keys may not resolve.
SPECIFICATION FairSpec
CONSTANTS
  k1 = k1  k2 = k2  k3 = k3  u1 = u1  u2 = u2  p1 = p1  p2 = p2
  r1 = r1  c1 = c1  c2 = c2  a1 = a1
  Keys = {k1, k2}
  Quorums <- AnyKey
  MaxSigs = 1
  Uploads = {u1}
  Imports = {}
  Carries <- BothAtOnce
  Pods = {p1}
  Requests = {r1}
  NoOwner = NoOwner
  Cancels = {c1}
  Archives = {a1}
  Manual = {TRUE, FALSE}
  KeysFail = TRUE
  LastPhase = 3
  MaxCrashes = 1
INVARIANTS TypeOK OneVerdict CancelAnswersTruth ManualIsNotAutomatic EveryEndIsTold
PROPERTIES ImplementsPromise SignaturesKept Ends EndsAreTold
CHECK_DEADLOCK FALSE
