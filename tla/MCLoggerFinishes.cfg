CONSTANTS
  Workers = {w1, w2}
  None = None
SPECIFICATION Spec
PROPERTY LoggerFinishes
CHECK_DEADLOCK FALSE
