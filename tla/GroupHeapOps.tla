---------------------------- MODULE GroupHeapOps ----------------------------
(***************************************************************************)
(* The heap of groups of global-accounting-rlock.c as pure operators.      *)
(*                                                                         *)
(* The heap is an array h of groups indexed from 0, of which the first n   *)
(* entries are in use; ix[g] is the heap_index kept inside group g, and    *)
(* the key of a group is the pair of its fields threads_queued (q) and     *)
(* spec_virt_time (v).  The keys live in the groups, not in the heap: they *)
(* change while the array stays as it is, which is why the heap order is   *)
(* something to check and not something to assume.                         *)
(*                                                                         *)
(* Groups are their group_id, a natural number, as the tie-break of        *)
(* gl_cmp_group compares them.                                             *)
(***************************************************************************)
EXTENDS Integers

(* gl_cmp_group(a, b) < 0: an empty group comes after every other one.     *)
Before(q, v, a, b) ==
  /\ q[a] # 0
  /\ \/ q[b] = 0
     \/ v[a] < v[b]
     \/ v[a] = v[b] /\ a < b

Parent(i) == (i - 1) \div 2
Left(i) == 2 * i + 1
Right(i) == 2 * i + 2

(* Bug for a run to catch: the right child is forgotten.                   *)
SmallestOfLeft(h, n, q, v, i) ==
  IF Left(i) < n /\ Before(q, v, h[Left(i)], h[i]) THEN Left(i) ELSE i

(* The index one level of gl_heap_sift_down moves to: i when neither child *)
(* comes before h[i].                                                      *)
Smallest(h, n, q, v, i) ==
  LET beats(j, m) == j < n /\ Before(q, v, h[j], h[m])
      withLeft == IF beats(Left(i), i) THEN Left(i) ELSE i
  IN  IF beats(Right(i), withLeft) THEN Right(i) ELSE withLeft

(* Whether one iteration of gl_heap_sift_up moves h[i] to its parent.      *)
Climbs(h, q, v, i) == i > 0 /\ Before(q, v, h[i], h[Parent(i)])

(* Bug for a run to catch: only one of the two groups learns its index.    *)
SwapIndexOfOne(h, ix, i, j) == [ix EXCEPT ![h[j]] = i]

(* gl_heap_swap: the array, and the indices the two groups keep of it.     *)
SwapHeap(h, i, j) == [h EXCEPT ![i] = h[j], ![j] = h[i]]
SwapIndex(h, ix, i, j) == [ix EXCEPT ![h[j]] = i, ![h[i]] = j]

-----------------------------------------------------------------------------
(* The sifts run to their end, for a caller nobody runs concurrently with. *)
(* A state of a sift is the array, the indices and the position reached;   *)
(* a heap of n groups has at most n \div 2 levels below its root, and a    *)
(* finished sift stays where it is.                                        *)

Moved(s, j) == [h |-> SwapHeap(s.h, s.at, j),
                ix |-> SwapIndex(s.h, s.ix, s.at, j),
                at |-> j]

SiftDown(h, ix, n, q, v, i) ==
  LET run[k \in 0 .. (n \div 2)] ==
        IF k = 0 THEN [h |-> h, ix |-> ix, at |-> i]
        ELSE LET s == run[k - 1]
                 m == Smallest(s.h, n, q, v, s.at)
             IN  IF m = s.at THEN s ELSE Moved(s, m)
  IN  run[n \div 2]

SiftUp(h, ix, n, q, v, i) ==
  LET run[k \in 0 .. (n \div 2)] ==
        IF k = 0 THEN [h |-> h, ix |-> ix, at |-> i]
        ELSE LET s == run[k - 1]
             IN  IF Climbs(s.h, q, v, s.at) THEN Moved(s, Parent(s.at)) ELSE s
  IN  run[n \div 2]

(* Bug for a run to catch: the sift up is left out.                        *)
FixIndexDown(h, ix, n, q, v, i) ==
  IF i < 0 \/ i >= n THEN [h |-> h, ix |-> ix, at |-> i]
  ELSE SiftDown(h, ix, n, q, v, i)

(* gl_heap_fix_index: sift down from i, then up from the same i, which     *)
(* need not be where the group that was at i has gone.                     *)
FixIndex(h, ix, n, q, v, i) ==
  IF i < 0 \/ i >= n THEN [h |-> h, ix |-> ix, at |-> i]
  ELSE LET down == SiftDown(h, ix, n, q, v, i)
       IN  SiftUp(down.h, down.ix, n, q, v, i)

=============================================================================
