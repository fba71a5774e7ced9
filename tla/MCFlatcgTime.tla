---------------------------- MODULE MCFlatcgTime ----------------------------
(***************************************************************************)
(* A small instance of FlatcgTime for TLC: one cgroup of two tasks, which  *)
(* one CPU charges while the other bypasses, picks or gives up.            *)
(***************************************************************************)
EXTENDS FlatcgTime, TLC

CONSTANTS A, t1, t2

CpuSymmetry == Permutations(Cpus) \cup Permutations(Tasks)

MCCgroupOf == [t \in Tasks |-> A]
MCPrice == [c \in Cgroups |-> 1]
MCBudget == [c \in Cgroups |-> 1]

=============================================================================
