\* the simulator does not stop after the steps asked for
SPECIFICATION Spec
CONSTANTS
  Pcs <- Program
  ResetPc = 0
  Flow <- Loops
  Ebreaks = {2}
  Slots = {0, 1}
  MAXITR = 4
  Counts = {0, 1, 2}
  MaxTicks = 6
CHECK_DEADLOCK FALSE
INVARIANTS
  StepsAsAsked
