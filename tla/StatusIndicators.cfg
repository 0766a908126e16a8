\* One pod of the notifications service, a group of two, four events, one fault.
SPECIFICATION Spec
CONSTANTS
  t1 = t1  t2 = t2  n1 = n1  n2 = n2
  Txs = {t1, t2}
  Pods = {n1}
  Ends = {"EXECUTED", "CANCELED"}
  MaxEvents = 4
  MaxFaults = 1
SYMMETRY Symmetry
INVARIANTS TypeOK IndicatorFollowsStatus ClientsSeeIndicators StageIsMailed
CHECK_DEADLOCK FALSE
