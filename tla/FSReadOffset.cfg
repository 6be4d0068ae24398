SPECIFICATION Spec
CHECK_DEADLOCK FALSE
CONSTANTS
  a = a
  b = b
  n1 = n1
  n2 = n2
  NoHash = NoHash
  Zero = Zero
  Names = {n1}
  Bytes = {a}
  Targets <- NoTargets
  BadTargets <- NoTargets
  Trees <- NoTrees
  StrayPanics = {}
  MaxInode = 3
  MaxHandle = 3
  MaxFileLen = 2
INVARIANT ReadReturnsRequestedBytes
