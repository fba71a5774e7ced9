------------------------- MODULE MCGlobalAccounting -------------------------
(***************************************************************************)
(* Two cores and three groups, for TLC: one of two processes, two of one.  *)
(***************************************************************************)
EXTENDS GlobalAccounting, TLC

CONSTANTS gA, gB, gC, a1, a2, b1, c1

CoreSymmetry == Permutations(Cores)

MCGroupOf == [p \in Procs |-> CASE p \in {a1, a2} -> gA [] p = b1 -> gB [] OTHER -> gC]
MCCost == [g \in Groups |-> IF g = gA THEN 1 ELSE 2]
MCCreation == <<a1, a2, b1, c1>>

=============================================================================
