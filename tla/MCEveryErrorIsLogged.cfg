CONSTANTS
  Workers = {w1, w2}
  None = None
SPECIFICATION Spec
INVARIANT EveryErrorIsLogged
CHECK_DEADLOCK FALSE
