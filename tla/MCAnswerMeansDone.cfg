CONSTANTS
  Workers = {w1}
  MaxSpurious = 1
SPECIFICATION Spec
INVARIANT AnswerMeansDone
CHECK_DEADLOCK FALSE
