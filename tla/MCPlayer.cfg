SPECIFICATION PlayerSpec
INVARIANT NoLostRequest
PROPERTIES
  HeededCommandReturns
  EndReturns
CHECK_DEADLOCK FALSE
