CONSTANTS
  A = A
  B = B
  t1 = t1
  t2 = t2
  t3 = t3
  Cpus = {c1, c2}
  Cgroups = {A, B}
  Tasks = {t1, t2, t3}
  CgroupOf <- MCCgroupOf
  MaxRetries = 2
  None = None
SPECIFICATION Spec
SYMMETRY CpuSymmetry
INVARIANTS
  TransitionEnqueues
