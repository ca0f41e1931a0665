\* violated: a handler that asks for the next interrupt is interrupted in EPILOGUE (start.S 86)
SPECIFICATION Spec
CONSTANTS
  WORD = 6
  Delays = {1}
  Rearm = {4, 8}
  MaxTime = 29
PROPERTIES
  Resumes
CHECK_DEADLOCK FALSE
