CONSTANTS
  NumCores = 3
  Groups = {"a", "b", "c", "d"}
  Procs <- MCProcs
  GroupOf <- MCGroupOf
  Weight <- MCWeight
  Unit = 60
  None = None
SPECIFICATION Spec
CHECK_DEADLOCK FALSE
INVARIANTS
  TypeOK
  ThreadsCounted
  ListedByThreads
  SharesAreMaxMinFair
