SPECIFICATION Spec
CHECK_DEADLOCK FALSE
CONSTANTS
  t1 = t1
  t2 = t2
  t3 = t3
  h1 = h1
  h2 = h2
  h3 = h3
  None = None
  MaxCalls = 5
  Threads = {t1, t2, t3}
  Clones = {h1, h2, h3}
  First = h1
  Maker = t1
INVARIANTS
  ClientDroppedBeforeRuntime
PROPERTIES
  EveryCallReturns
