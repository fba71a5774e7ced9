-------------------------- MODULE MCFlatcgWeights --------------------------
(***************************************************************************)
(* The hierarchy that opens scx_flatcg.bpf.c, for TLC: the root R has the  *)
(* children A and D, and A has B and C; the tasks are in B, C and D.       *)
(***************************************************************************)
EXTENDS FlatcgWeights, TLC

CONSTANTS b1, b2, c1, d1

CpuSymmetry == Permutations(Cpus) \cup Permutations({b1, b2})

MCCgroups == {"R", "A", "B", "C", "D"}
MCParent == [c \in MCCgroups \ {"R"} |-> IF c \in {"B", "C"} THEN "A" ELSE "R"]
MCLevel == [c \in MCCgroups |-> CASE c = "R" -> 0 [] c \in {"A", "D"} -> 1 [] OTHER -> 2]
MCCgroupOf == [t \in {b1, b2, c1, d1} |-> CASE t = c1 -> "C" [] t = d1 -> "D" [] OTHER -> "B"]
MCInitWeight == [c \in MCCgroups |-> IF c = "D" THEN 2 ELSE 1]

=============================================================================
