\* any level on the line, any settings, changed at any time
SPECIFICATION FairSpec
CONSTANTS
  BITS = 1
  DIV = 1
  FIFO_DEPTH = 1
  Configs <- Changing
  Reconfigures = TRUE
  FlowControl = FALSE
  RxLine = {0, 1}
PROPERTIES
  BothRecover
