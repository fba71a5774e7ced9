CONSTANTS
  Cores = {c1, c2}
  NumGroups = 2
  ProcsPerGroup = 2
  GroupWeight = 1
  Procs <- MCProcs
  GroupOf <- MCGroupOf
  Weight <- MCWeight
  InitQueue <- MCInitQueue
  TickLength = 2
  YieldTime = 1
  IntMax = 1023
  MaxRounds = 2
  None = None
SPECIFICATION Spec
SYMMETRY CoreSymmetry
INVARIANTS
  TypeOK
  HeapIndexed
  QueueCount
  PickNeverEmpty
  LeaverCounted
  OneOwner
  NoLockCycle
