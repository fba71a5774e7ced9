---------------------------- MODULE MCGroupHeap ----------------------------
(***************************************************************************)
(* Six groups, the least for which the group that takes the place of a     *)
(* removed one may have to be sifted up: it comes from the other subtree.  *)
(* The virtual time of two of them changes, every group may become empty.  *)
(***************************************************************************)
EXTENDS GroupHeap

MCMaxSvt == [g \in Groups |-> IF g \in {1, 4} THEN 1 ELSE 0]

=============================================================================
