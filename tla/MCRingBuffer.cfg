CONSTANTS
  Size = 3
  Values = {0, 1}
  Zero = 0
  Counts = {0, 1, 2, 3, 4}
SPECIFICATION Spec
INVARIANTS
  IndicesAgree
PROPERTY ImplementsFifo
