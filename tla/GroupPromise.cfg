\* Two members: a pod and a request for the first one execute, group cancels race.
SPECIFICATION Spec
CONSTANTS
  p1 = p1  p2 = p2  r1 = r1  c1 = c1  c2 = c2
  Members = {1, 2}
  Start <- Together
  Sequential = FALSE
  Big = {}
  KeysFail = FALSE
  Rotating = {}
  Pods = {p1}
  Requests = {r1}
  For <- FirstByHand
  Cancels = {c1}
  NoOwner = NoOwner
  LastTime = 3
  MaxFaults = 0
INVARIANTS TypeOK GroupCancelAnswersTruth ToldIsTrue
PROPERTY MembersKeepPromise
CHECK_DEADLOCK FALSE
