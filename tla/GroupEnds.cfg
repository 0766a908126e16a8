\* Liveness with faults, a big member, staggered members, keys that may not resolve.
SPECIFICATION FairSpec
CONSTANTS
  p1 = p1  p2 = p2  r1 = r1  c1 = c1  c2 = c2
  Members = {1, 2}
  Start <- Staggered
  Sequential = FALSE
  Big = {2}
  KeysFail = TRUE
  Rotating = {1}
  Pods = {p1}
  Requests = {}
  For <- NoRequest
  Cancels = {}
  NoOwner = NoOwner
  LastTime = 5
  MaxFaults = 2
PROPERTIES MembersEnd MemberEndsAreTold
CHECK_DEADLOCK FALSE
