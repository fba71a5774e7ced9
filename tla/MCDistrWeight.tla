--------------------------- MODULE MCDistrWeight ---------------------------
(***************************************************************************)
(* A small instance of DistrWeight for TLC: four groups on three cores,    *)
(* one of weight 2 and one of two threads, so that groups are underserved, *)
(* overserved or neither as threads come and go, and a core may have to be *)
(* split between groups of a single thread.                                *)
(***************************************************************************)
EXTENDS DistrWeight

MCProcs == {"a1", "a2", "b1", "c1", "d1"}
MCGroupOf ==
  [p \in MCProcs |-> CASE p \in {"a1", "a2"} -> "a" [] p = "b1" -> "b" [] p = "c1" -> "c"
                       [] OTHER -> "d"]
MCWeight == [g \in {"a", "b", "c", "d"} |-> IF g = "b" THEN 2 ELSE 1]

=============================================================================
