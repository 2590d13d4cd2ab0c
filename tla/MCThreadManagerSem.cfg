CONSTANT Workers = {w1, w2}
SPECIFICATION Spec
INVARIANTS
  JointStates
  NoStaleStopCredit
PROPERTIES
  RaisesAreUnobserved
  ImplementsLifecycle
  CallsReturn
  RunTakesEffect
  QuitTakesEffect
