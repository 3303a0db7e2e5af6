SPECIFICATION AnySpec
CONSTANTS
  t1 = t1
  t2 = t2
  t3 = t3
  m1 = m1
  m2 = m2
  Threads <- TwoThreads
  Mutexes <- TwoMutexes
  NoThread = NoThread
  SpinLimit = 0
  MaxHeld = 2
CHECK_DEADLOCK FALSE
SYMMETRY Symmetry
INVARIANTS TypeOK ParkedBitCoversQueue NoLostWakeup ResourcesMatch
