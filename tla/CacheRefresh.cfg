\* One request and one job on one row; the claim may expire while the call
\* goes on, two calls die or statements fail.
CONSTANTS
  q1 = q1 q2 = q2 j1 = j1 j2 = j2
  Requests = {q1}
  Jobs = {j1}
  NoToken = NoToken
  Orphan = Orphan
  MaxVersion = 2
  FreshFor = 1
  ClaimFor = 1
  UnusedFor = 2
  MaxTries = 3
  MaxFaults = 2
  Threshold = 2
  ResetAfter = 1
  HalfOpenMax = 1
SPECIFICATION RefreshSpec
INVARIANTS KeysFollowData NoStepBack
PROPERTIES NeverOlder EmptyOnlyAfterFailure CatchesUp
CHECK_DEADLOCK FALSE
