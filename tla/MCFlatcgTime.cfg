CONSTANTS
  A = A
  t1 = t1
  t2 = t2
  Cpus = {c1, c2}
  Cgroups = {A}
  Tasks = {t1, t2}
  CgroupOf <- MCCgroupOf
  MaxRetries = 2
  None = None
  Slice = 2
  Price <- MCPrice
  Budget <- MCBudget
  MaxRun = 3
  MaxRounds = 2
  MaxBypass = 2
SPECIFICATION TimeSpec
SYMMETRY CpuSymmetry
INVARIANTS
  TypeOK
  NodeOnce
  EarlyTaskSeen
  TimeTypeOK
  NoChargeLost
  ChargedAtMostTwice
  ServedWhenCharged
CHECK_DEADLOCK FALSE
