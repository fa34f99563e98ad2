CONSTANTS
  Clients = {c1, c2}
  Workers = {w1, w2}
  HookInfos = {h1}
  IgnoreInfos = {i1}
  NoThread = NoThread
  MaxCalls = 6
  SerialRegister = TRUE
  SerialClear = TRUE
SPECIFICATION FairSpec
CHECK_DEADLOCK FALSE
INVARIANTS TypeOK OneWorker NoLostWakeup RequestHeld RefreshOnlyWhenReady EntryCurrent
PROPERTIES UnknownExplained EveryCallReturns RequestServed NoInsertAfterRefresh ServiceSpec
