CONSTANTS
  gA = gA
  gB = gB
  gC = gC
  a1 = a1
  a2 = a2
  b1 = b1
  b2 = b2
  c1 = c1
  NumCores = 3
  Groups = {gA, gB, gC}
  Procs = {a1, a2, b1, b2, c1}
  GroupOf <- MCGroupOf
  Weight <- MCWeight
  Creation <- MCCreation
  MaxWeight = 7
  None = None
SPECIFICATION Spec
INVARIANTS
  TypeOK
  OnePlace
  RunningOn
  SharesFit
  WeightCounted
  SharesTaken
