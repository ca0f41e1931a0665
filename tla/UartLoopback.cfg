\* the simulated terminal on the line, and every frame format in loopback
SPECIFICATION SimSpec
CONSTANTS
  BITS = 2
  DIV = 1
  FIFO_DEPTH = 2
  FR = 3
  Configs <- LineSettings
  Reconfigures = FALSE
  FlowControl = TRUE
  RxLine = {1}
INVARIANTS
  NoneLost
PROPERTIES
  BothDeliver
  BothArrive
