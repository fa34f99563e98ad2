CONSTANTS
  Clients = {c1, c2, c3}
  Workers = {w1, w2}
  HookInfos = {h1}
  IgnoreInfos = {}
  NoThread = NoThread
  MaxCalls = 4
  SerialRegister = FALSE
  SerialClear = FALSE
SPECIFICATION Spec
CHECK_DEADLOCK FALSE
SYMMETRY ClientSymmetry
INVARIANTS LocksHeld
PROPERTIES NoFreeDuringRefresh
