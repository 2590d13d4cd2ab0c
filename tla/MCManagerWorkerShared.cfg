CONSTANTS
  Workers = {w1, w2, w3}
  None = None
SPECIFICATION Spec
INVARIANT
  AnswerIsAwaited
PROPERTIES
  WorkersObey
  CallReturnsUnlessMissed
CHECK_DEADLOCK FALSE
