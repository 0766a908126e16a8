\* example.env:30 against a message that comes again and again before the delay is over.
SPECIFICATION Spec
CONSTANTS
  i1 = i1  i2 = i2  m1 = m1  m2 = m2  m3 = m3
  Messages = {m1, m2, m3}
  Instances = {i1}
  Home <- OneHome
  MaxBatch = 4
  Delay = 2
  MaxDelay = 3
  MaxFaults = 0
  Calm = TRUE
INVARIANT MaxDelayFlushes
CHECK_DEADLOCK FALSE
