CONSTANTS
  Size = 2
  Values = {0}
  Zero = 0
  Counts = {1}
  Producers = {p1}
  Consumers = {c1, c2}
  Batch = 1
  Calls = 3
  NoThread = NoThread
SPECIFICATION MainSpec
INVARIANT QuitWaitsForThreads
