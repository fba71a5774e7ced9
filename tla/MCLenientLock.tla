---------------------------- MODULE MCLenientLock ----------------------------
(***************************************************************************)
(* Three cores, two groups of two processes and one of one, for TLC.       *)
(***************************************************************************)
EXTENDS LenientLock

CONSTANTS gA, gB, gC, a1, a2, b1, b2, c1

MCGroupOf == [p \in Procs |-> CASE p \in {a1, a2} -> gA [] p \in {b1, b2} -> gB [] OTHER -> gC]
MCWeight == [g \in Groups |-> IF g = gA THEN 2 ELSE 1]
MCCreation == <<a1, a2, b1, b2, c1>>
=============================================================================
