CONSTANTS
  Size = 5
  Values = {0, 1}
  Zero = 0
  Counts = {2}
  Producers = {p1, p2}
  Consumers = {c1, c2}
  Batch = 2
  Calls = 2
  NoThread = NoThread
SPECIFICATION QueueSpec
INVARIANTS
  NothingLost
  NobodyStranded
PROPERTIES
  ImplementsFifo
  Termination
