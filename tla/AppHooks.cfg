CONSTANTS
  Processes <- MCProcesses
  PageSize = 8
  Bits <- MCBits
  ElfHash <- MCElfHash
  GnuHash <- MCGnuHash
  MaxCalls = 2
  Threads = {t1, t2}
  ArtMethods <- MCArtMethods
  ArtClasses = {"app"}
  ArtInfos = {1, 2, 3}
  Target <- MCTarget
  MaxFrames = 2
  MaxInvokes = 3
  DvmThreads = {u1, u2}
  DvmInfos = {1, 2}
  DvmMethods <- MCDvmMethods
  CountShift = 24
  MaxDvmCalls = 2
  Projects <- MCProjects
  MaxBuilds = 3
INIT AppInit
NEXT AppNext
SYMMETRY ThreadSymmetry
CHECK_DEADLOCK FALSE
INVARIANTS
  OnlyItsSlots OriginalSaved NeverWritableExecutable HookedWhenDone
  CallsSafe ArtHookStays SignatureRead BuildRight
