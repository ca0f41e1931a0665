\* violated: a store left on the bus takes the line down, and the second edge comes inside PROLOGUE (start.S 63)
SPECIFICATION Spec
CONSTANTS
  WORD = 6
  Delays = {7}
  Rearm = {}
  MaxTime = 26
PROPERTIES
  ResumesAlways
CHECK_DEADLOCK FALSE
