\* halves of six values: several wrap-arounds; the run ends at MaxTime
SPECIFICATION Spec
CONSTANTS
  WORD = 6
  Delays = {1, 3, 7}
  Rearm = {}
  MaxTime = 26
INVARIANTS
  LineTells
  NotMissed
PROPERTIES
  CycleIsCurrent
  SleepsLongEnough
  TrapsAnswer
  Resumes
CHECK_DEADLOCK FALSE
