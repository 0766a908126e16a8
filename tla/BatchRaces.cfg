\* Two pods, two messages, lists of two; a lock runs out or a pod dies.
SPECIFICATION Spec
CONSTANTS
  i1 = i1  i2 = i2  m1 = m1  m2 = m2  m3 = m3
  Messages = {m1, m2}
  Instances = {i1, i2}
  Home <- TwoHomes
  MaxBatch = 2
  Delay = 1
  MaxDelay = 2
  MaxFaults = 1
  Calm = FALSE
INVARIANTS SomebodyWillClear FullIsBeingFlushed
PROPERTY OncePerTrigger
CHECK_DEADLOCK FALSE
