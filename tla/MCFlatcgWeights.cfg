CONSTANTS
  b1 = b1
  b2 = b2
  c1 = c1
  d1 = d1
  Cpus = {cpu1, cpu2}
  Cgroups <- MCCgroups
  Root = "R"
  Parent <- MCParent
  Level <- MCLevel
  Tasks = {b1, b2, c1, d1}
  CgroupOf <- MCCgroupOf
  Weights = {1, 2}
  Reweighted = {"A", "B"}
  InitWeight <- MCInitWeight
  HweightOne = 4
  MaxWakes = 3
  MaxReweights = 1
  None = None
SPECIFICATION Spec
SYMMETRY CpuSymmetry
CHECK_DEADLOCK FALSE
INVARIANTS
  TypeOK
  SumOfActive
  ActiveAtRest
  FreshUnlessReweighted
  SharesCoverCpus
