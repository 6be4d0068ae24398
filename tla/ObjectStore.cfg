SPECIFICATION Spec
CONSTANTS
  LenBytes = 2
  Letters <- ZeroAndOne
  MaxLen = 2
  Ints <- FourInts
  IntBytes = 2
  JjFiles <- TwoFiles
  JjSymlinks <- TwoTargets
  JjTrees <- SomeTrees
  JjCommits <- SomeCommits
  MountFiles <- LookalikeFiles
  MountSymlinks <- LookalikeTargets
  WireInt = 65536
  MaxObjects = 4
INVARIANTS
  JjReadsWhatItWrote
PROPERTY ObjectsAreImmutable
