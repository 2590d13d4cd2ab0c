CONSTANTS
  Workers = {w1}
  MaxSpurious = 0
SPECIFICATION Spec
PROPERTY StopReturns
CHECK_DEADLOCK FALSE
