CONSTANTS
  Clients = {c1, c2}
  Workers = {w1}
  HookInfos = {h1}
  IgnoreInfos = {}
  NoThread = NoThread
  MaxCalls = 3
  SerialRegister = FALSE
  SerialClear = TRUE
SPECIFICATION Spec
CHECK_DEADLOCK FALSE
PROPERTIES NoInsertAfterRefresh
