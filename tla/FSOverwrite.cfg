SPECIFICATION Spec
CHECK_DEADLOCK FALSE
CONSTANTS
  a = a
  b = b
  n1 = n1
  n2 = n2
  NoHash = NoHash
  Zero = Zero
  Names = {n1, n2}
  Bytes = {a, b}
  Targets <- NoTargets
  BadTargets <- NoTargets
  Trees <- CheckoutTrees
  StrayPanics = {}
  MaxInode = 6
  MaxHandle = 1
  MaxFileLen = 0
PROPERTY OnlyEmptyDirsOverwritten
