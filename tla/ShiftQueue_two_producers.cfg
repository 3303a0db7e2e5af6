SPECIFICATION Spec
CONSTANTS
  t1 = t1
  t2 = t2
  n0 = n0
  n1 = n1
  n2 = n2
  n3 = n3
  Producers <- Both
  Consumers <- NoPopper
  Nodes <- ThreeNodes
  Null = Null
  NoThread = NoThread
  None = None
  Cap = 3
  MaxPush = 1
CHECK_DEADLOCK FALSE
INVARIANT NoPanic
