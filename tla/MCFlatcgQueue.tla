--------------------------- MODULE MCFlatcgQueue ---------------------------
(***************************************************************************)
(* A small instance of FlatcgQueue for TLC: two tasks in a cgroup, which   *)
(* an enqueuer and a preempted task need, and one in another.              *)
(***************************************************************************)
EXTENDS FlatcgQueue, TLC

CONSTANTS A, B, t1, t2, t3

CpuSymmetry == Permutations(Cpus) \cup Permutations({t1, t2})

MCCgroupOf == [t \in {t1, t2, t3} |-> IF t = t3 THEN B ELSE A]

=============================================================================
