SPECIFICATION Spec
CHECK_DEADLOCK FALSE
CONSTANTS
  a = a
  b = b
  n1 = n1
  n2 = n2
  init = init
  test1 = test1
  test2 = test2
  NoHash = NoHash
  Zero = Zero
  Threads = {init, test1, test2}
  Session = init
  TreeOf <- TwoCheckouts
INVARIANTS
  InodesAreUnique
  PublishedIsComplete
  OneWholeTreeIsShown
  AnsweredInitHasRoot
  AloneIsOneStep
