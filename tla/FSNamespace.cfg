SPECIFICATION Spec
CHECK_DEADLOCK FALSE
CONSTANTS
  a = a
  b = b
  n1 = n1
  n2 = n2
  NoHash = NoHash
  Zero = Zero
  Names = {n1, n2}
  Bytes = {a, b}
  Targets <- TwoTargets
  BadTargets <- ShortTarget
  Trees <- NoTrees
  StrayPanics = {"files", "symlinks", "trees"}
  MaxInode = 5
  MaxHandle = 1
  MaxFileLen = 0
SYMMETRY Symmetry
INVARIANTS
  TypeOK
  EntriesResolve
  UniqueLinks
  DotDotConsistent
  LinkCountsMatch
  DetachedDirsAreEmpty
  ObjectsAreStored
PROPERTIES
  RefusedRequestsChangeNothing
  ImplementsWorkingTree
