SPECIFICATION PlayerSpec
PROPERTY InitReturns
CHECK_DEADLOCK FALSE
