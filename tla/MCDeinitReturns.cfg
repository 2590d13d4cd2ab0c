CONSTANTS
  Workers = {w1}
  None = None
SPECIFICATION Spec
PROPERTY DeinitReturns
CHECK_DEADLOCK FALSE
