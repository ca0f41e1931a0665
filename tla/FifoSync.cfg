\* rtl/soc/hydrogensoc sets SOC_UART_FIFO_DEPTH to 4
SPECIFICATION FifoSpec
CONSTANTS
  DEPTH = 4
  WRAP = 4
  Data = {d1, d2, d3}
INVARIANTS
  FifoTypeOK
  PointersAgree
PROPERTIES
  ImplementsQueue
