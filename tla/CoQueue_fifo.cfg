SPECIFICATION Spec
CONSTANTS
  t1 = t1
  t2 = t2
  t3 = t3
  k1 = k1
  k2 = k2
  k3 = k3
  k4 = k4
  Producers <- Pushers
  Consumers <- Poppers
  Observers <- OnePopper
  Chunks <- FourChunks
  Null = Null
  None = None
  LAP = 3
  MaxPush = 2
CHECK_DEADLOCK FALSE
SYMMETRY Symmetry
INVARIANTS MemorySafe HasNextIsRight ClaimsAreExclusive IndicesCountItems LenFailsOnlyAtChunkEnd DropIsSafe
PROPERTY ImplementsFifo
