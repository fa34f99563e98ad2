CONSTANTS
  Word = 4
  Free <- MCFree
  Used <- MCUsed
  Page <- MCPage
  Library <- MCLibrary
  Sp = 10
  Offset <- MCOffset
  MaxSignals = 2
  WordSize = 2
  Target <- MCTarget
  Contents = {0, 1}
  Ones <- MCOnes
  Pids <- MCPids
  Names = {"app", "other"}
  Wanted = "app"
  Segments = {seg1, seg2}
  Addresses = {a1, a2, a3}
  NoAddress = none
  MaxNap = 2
  Texts = {"x", "y"}
  Letters = 3
  MaxRuns = 2
  Clients = {c1, c2}
  MaxClients = 3
SPECIFICATION Spec
CHECK_DEADLOCK FALSE
INVARIANT StarMeansRead
