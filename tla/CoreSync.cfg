\* no asynchronous trap is ever enabled; the timer line only wakes the core
SPECIFICATION Spec
CONSTANTS
  Programs <- SyncPrograms
  SIZE = 16
  ResetVector = 0
  Mtvec = 8
  TimerFires = TRUE
INVARIANTS
  TypeOK
  FetchIntegrity
  LinkIsNext
  AccessAwaited
PROPERTIES
  ImplementsIsa
