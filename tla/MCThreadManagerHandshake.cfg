CONSTANTS
  Workers = {w1, w2}
  MaxSpurious = 1
SPECIFICATION Spec
INVARIANT HandshakeHolds
PROPERTIES
  ObeysUntilSpurious
  QuietCallReturns
CHECK_DEADLOCK FALSE
