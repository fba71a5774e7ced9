------------------------- MODULE MCRlockScheduler -------------------------
(***************************************************************************)
(* Small instances of RlockScheduler for TLC.  Process 10 * g + k is the   *)
(* k-th process of group g; main enqueues them in order, each at the head. *)
(***************************************************************************)
EXTENDS RlockScheduler, TLC

CONSTANTS ProcsPerGroup, GroupWeight

CoreSymmetry == Permutations(Cores)

MCProcs == {10 * g + k : g \in Groups, k \in 1 .. ProcsPerGroup}
MCGroupOf == [p \in MCProcs |-> p \div 10]
MCWeight == [g \in Groups |-> GroupWeight]
MCInitQueue == [g \in Groups |->
                  [i \in 1 .. ProcsPerGroup |-> 10 * g + ProcsPerGroup + 1 - i]]

=============================================================================
