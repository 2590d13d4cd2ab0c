CONSTANTS
  Threads = {t1, t2, t3, t4}
  MaxValue = 2
  InitValue = 1
  NoThread = NoThread
SPECIFICATION FairSpec
INVARIANT NoLostWakeup
PROPERTIES
  ImplementsSemaphore
  WaitersAreServed
