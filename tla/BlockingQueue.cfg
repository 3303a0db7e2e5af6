SPECIFICATION FairSharedSpec
CONSTANTS
  t1 = t1
  t2 = t2
  t3 = t3
  k1 = k1
  k2 = k2
  Producers <- OnePusher
  Consumers <- Poppers
  Observers <- OneObserver
  Iterators <- OneIterator
  Chunks <- TwoChunks
  Null = Null
  None = None
  NoThread = NoThread
  LAP = 3
  MaxPush = 2
  MaxCalls = 1
  MaxSend = 1
  PokeLimit = 1
CHECK_DEADLOCK FALSE
ACTION_CONSTRAINT FirstChunkAtK1
INVARIANTS SharedTypeOK MessagesHeeded
PROPERTIES ItemsArrive CallsReturn MessagesRead
