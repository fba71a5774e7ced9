CONSTANTS
  NumGroups = 6
  FirstCapacity = 2
  MaxQueued = 1
  MaxSvt <- MCMaxSvt
  None = None
SPECIFICATION Spec
INVARIANTS
  TypeOK
  PeekIsMinimum
  HeapOrdered
