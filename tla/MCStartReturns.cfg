CONSTANTS
  Workers = {w1, w2}
  None = None
SPECIFICATION Spec
PROPERTY StartReturns
CHECK_DEADLOCK FALSE
