CONSTANTS
  t1 = t1
  t2 = t2
  t3 = t3
  k1 = k1
  k2 = k2
  Threads <- ThreeThreads
  NoThread = NoThread
  Keys <- TwoKeys
  NoKey = NoKey
  HashBits = 2
  HashOf <- HashValues
  LOAD_FACTOR = 1
  Parkers <- TwoThreads
  Unparkers <- OtherThreads
  MaxCalls = 1
SPECIFICATION FairSpec
INVARIANTS TypeOK ListsAreSound SectionsExclude FlagIsExact TableFitsThreads
PROPERTIES ImplementsParkSpec CallsReturn
CHECK_DEADLOCK FALSE
