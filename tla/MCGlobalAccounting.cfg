CONSTANTS
  gA = gA
  gB = gB
  gC = gC
  a1 = a1
  a2 = a2
  b1 = b1
  c1 = c1
  Cores = {k1, k2}
  Groups = {gA, gB, gC}
  Procs = {a1, a2, b1, c1}
  GroupOf <- MCGroupOf
  Cost <- MCCost
  GroupBonus = 2
  IntMax = 5
  Creation <- MCCreation
  None = None
SPECIFICATION Spec
SYMMETRY CoreSymmetry
INVARIANTS
  TypeOK
  AssertionsHold
  QueueCount
  ListedByThreads
  OnePlace
PROPERTIES
  IdleOnlyIfNoWork
