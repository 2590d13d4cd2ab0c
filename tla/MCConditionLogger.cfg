CONSTANTS
  Workers = {w1, w2, w3}
  None = None
SPECIFICATION Spec
INVARIANTS
  NoSleepOnACode
PROPERTIES
  EndsOrPrintsAll
CHECK_DEADLOCK FALSE
