\* with and without asynchronous traps
SPECIFICATION SocFairSpec
CONSTANTS
  Programs <- SocPrograms
  SIZE = 16
  ResetVector = 0
  Mtvec = 8
  TimerFires = TRUE
PROPERTIES
  ImplementsMem
  AccessCompletes
  KeepsRunning
