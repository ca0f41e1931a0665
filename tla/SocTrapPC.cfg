\* the timer interrupt is enabled and expires at any time
SPECIFICATION SocSpec
CONSTANTS
  Programs <- AsyncPrograms
  SIZE = 16
  ResetVector = 0
  Mtvec = 8
  TimerFires = TRUE
PROPERTIES
  TrapSavesPC
