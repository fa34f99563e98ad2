CONSTANTS
  Threads = {1}
  ArtMethods <- MCArtMethods
  ArtClasses = {"app"}
  ArtInfos = {1, 2, 3}
  Target <- MCTarget
  MaxFrames = 1
  MaxInvokes = 1
  DvmThreads = {1}
  DvmInfos = {1}
  DvmMethods <- MCFewMethods
  CountShift = 24
  MaxDvmCalls = 1
  Projects <- MCProjects
  MaxBuilds = 2
SPECIFICATION MethodSpec
CHECK_DEADLOCK FALSE
INVARIANTS InsertedOnce
