CONSTANTS
  p1 = p1
  p2 = p2
  s1 = s1
  s2 = s2
  Paths = {p1, p2}
  Symbols = {s1, s2}
  AllSymbols = AllSymbols
  NoPath = NoPath
  HookUniverse <- MCHooks
  IgnoreUniverse <- MCIgnores
  BasesOf <- MCBases
  InitialBase <- MCInitialBase
  Twice = {p1}
  NotElf = {}
  BadElf = {p2}
  ConcurrentLoads = TRUE
  MaxLoads = 1
  MaxInfos = 3
SPECIFICATION Spec
INVARIANTS TreesDisjoint ChainReachesOriginal IgnoredHasNoEntry
PROPERTIES EntriesExact RefreshHooks
