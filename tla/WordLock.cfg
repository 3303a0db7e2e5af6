CONSTANTS
  t1 = t1
  t2 = t2
  t3 = t3
  t4 = t4
  Threads <- FourThreads
  NoThread = NoThread
  SpinLimit = 1
  MaxCalls = 1
SPECIFICATION FairSpec
INVARIANTS TypeOK QueueOwned MemorySafe NoneLostNorWokenTwice
PROPERTIES ImplementsMutexSpec CallsReturn
CHECK_DEADLOCK FALSE
