SPECIFICATION TrySpec
CONSTANTS
  t1 = t1
  t2 = t2
  t3 = t3
  m1 = m1
  m2 = m2
  Threads <- ThreeThreads
  Mutexes <- OneMutex
  NoThread = NoThread
  SpinLimit = 1
  MaxHeld = 1
INVARIANT MutualExclusion
