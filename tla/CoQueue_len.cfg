SPECIFICATION Spec
CONSTANTS
  t1 = t1
  t2 = t2
  t3 = t3
  k1 = k1
  k2 = k2
  k3 = k3
  k4 = k4
  Producers <- OnePusher
  Consumers <- Poppers
  Observers <- OnePopper
  Chunks <- ThreeChunks
  Null = Null
  None = None
  LAP = 3
  MaxPush = 2
CHECK_DEADLOCK FALSE
INVARIANT LenIsSnapshot
