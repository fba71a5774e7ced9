CONSTANTS
  Cores = {c1}
  NumGroups = 2
  ProcsPerGroup = 1
  GroupWeight = 1
  Procs <- MCProcs
  GroupOf <- MCGroupOf
  Weight <- MCWeight
  InitQueue <- MCInitQueue
  TickLength = 2
  YieldTime = 2
  IntMax = 1023
  MaxRounds = 5
  None = None
SPECIFICATION Spec
INVARIANT
  IdleMeansNoWork
