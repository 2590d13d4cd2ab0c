CONSTANT SpuriousRunWakeups = {TRUE, FALSE}
SPECIFICATION Spec
INVARIANTS
  OwnershipOK
  NoLostWakeup
PROPERTIES
  ObeysUnlessSpurious
  CallsReturn
