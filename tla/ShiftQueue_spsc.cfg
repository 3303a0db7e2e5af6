SPECIFICATION SoloSpec
CONSTANTS
  t1 = t1
  t2 = t2
  n0 = n0
  n1 = n1
  n2 = n2
  n3 = n3
  Producers <- OnePusher
  Consumers <- OnePopper
  Nodes <- FourNodes
  Null = Null
  NoThread = NoThread
  None = None
  Cap = 3
  MaxPush = 3
CHECK_DEADLOCK FALSE
INVARIANTS SoloTypeOK OwnedOnce TailIsLast
PROPERTIES ImplementsFifo ItemsArrive
