----------------------------- MODULE GroupHeap -----------------------------
(***************************************************************************)
(* The heap of groups of global-accounting-rlock.c in the hands of one     *)
(* thread, as test-heap.c uses it: groups are registered and unregistered, *)
(* their keys change and gl_heap_fix_index is called after every change.   *)
(* RlockScheduler shows what becomes of the heap when several threads use  *)
(* it and keys change without a call of gl_heap_fix_index.                 *)
(***************************************************************************)
EXTENDS GroupHeapOps, FiniteSets

CONSTANTS
  NumGroups,      \* bound: how many groups exist
  FirstCapacity,  \* the capacity of the first allocation
  MaxQueued,      \* bound on threads_queued
  MaxSvt,         \* bound: MaxSvt[g] is the largest spec_virt_time of g
  None            \* the NULL pointer

Groups == 0 .. (NumGroups - 1)

ASSUME GroupHeapAssumption ==
  /\ NumGroups \in Nat \ {0}
  /\ FirstCapacity \in Nat \ {0}
  /\ MaxQueued \in Nat \ {0}
  /\ MaxSvt \in [Groups -> Nat]
  /\ None \notin Groups

VARIABLES
  heap,            \* the first heap_size entries of glist->heap
  heap_size,
  heap_capacity,
  heap_index,      \* per group, -1 when it is not in the heap
  threads_queued,  \* per group
  spec_virt_time   \* per group

vars == <<heap, heap_size, heap_capacity, heap_index, threads_queued, spec_virt_time>>
keys == <<threads_queued, spec_virt_time>>

Registered(g) == heap_index[g] # -1

(* An empty list, and the groups made by create_group and make_group.      *)
Init ==
  /\ heap = <<>>
  /\ heap_size = 0
  /\ heap_capacity = 0
  /\ heap_index = [g \in Groups |-> -1]
  /\ threads_queued = [g \in Groups |-> 1]
  /\ spec_virt_time = [g \in Groups |-> 0]

(* Bug for a run to catch: a full array counts as one with room.           *)
EnsuredCapacityLate ==
  IF heap_size <= heap_capacity THEN heap_capacity ELSE 2 * heap_capacity

(* gl_heap_ensure_capacity                                                 *)
EnsuredCapacity ==
  IF heap_size < heap_capacity THEN heap_capacity
  ELSE IF heap_capacity = 0 THEN FirstCapacity ELSE 2 * heap_capacity

(* gl_heap_push                                                            *)
HeapPush(g) ==
  LET n == heap_size + 1
      pushed == [i \in 0 .. heap_size |-> IF i = heap_size THEN g ELSE heap[i]]
      s == SiftUp(pushed, [heap_index EXCEPT ![g] = heap_size], n,
                  threads_queued, spec_virt_time, heap_size)
  IN
  /\ heap_capacity' = EnsuredCapacity
  /\ heap_size' = n
  /\ heap' = s.h
  /\ heap_index' = s.ix
  /\ UNCHANGED keys

(* gl_add_group: its assert is the guard.                                  *)
AddGroup(g) == ~Registered(g) /\ HeapPush(g)

(* gl_heap_remove_at: the last group takes the place of the one removed    *)
(* and is sifted from there, unless it was the last.                       *)
HeapRemoveAt(i) ==
  LET last == heap_size - 1
      h == [k \in 0 .. (last - 1) |-> IF k = i THEN heap[last] ELSE heap[k]]
      ix == [heap_index EXCEPT ![heap[last]] = i, ![heap[i]] = -1]
      s == FixIndex(h, ix, last, threads_queued, spec_virt_time, i)
  IN
  /\ heap_size' = last
  /\ heap' = s.h
  /\ heap_index' = s.ix
  /\ UNCHANGED <<heap_capacity, keys>>

(* gl_del_group: its assert is the guard.                                  *)
DelGroup(g) == Registered(g) /\ HeapRemoveAt(heap_index[g])

(* A key of a registered group changes, and its position is fixed.         *)
Rekey(g, q, v) ==
  LET s == FixIndex(heap, heap_index, heap_size, q, v, heap_index[g]) IN
  /\ Registered(g)
  /\ threads_queued' = q
  /\ spec_virt_time' = v
  /\ heap' = s.h
  /\ heap_index' = s.ix
  /\ UNCHANGED <<heap_size, heap_capacity>>

(* gl_update_group_svt                                                     *)
UpdateGroupSvt(g, diff) ==
  /\ spec_virt_time[g] + diff \in 0 .. MaxSvt[g]
  /\ Rekey(g, threads_queued, [spec_virt_time EXCEPT ![g] = @ + diff])

(* A caller sets threads_queued and calls gl_heap_fix_index.               *)
SetQueued(g, n) == Rekey(g, [threads_queued EXCEPT ![g] = n], spec_virt_time)

Next ==
  \E g \in Groups :
    \/ AddGroup(g)
    \/ DelGroup(g)
    \/ \E diff \in -MaxSvt[g] .. MaxSvt[g] : UpdateGroupSvt(g, diff)
    \/ \E n \in 0 .. MaxQueued : SetQueued(g, n)

Spec == Init /\ [][Next]_vars

(* gl_peek_min_group, which leaves everything as it is.                    *)
PeekMinGroup ==
  IF heap_size = 0 THEN None
  ELSE IF threads_queued[heap[0]] = 0 THEN None ELSE heap[0]

-----------------------------------------------------------------------------
(* Every variable keeps its type, and the heap never outgrows its          *)
(* allocation, which gl_heap_ensure_capacity extends just before a push.   *)
TypeOK ==
  /\ heap_size \in 0 .. NumGroups
  /\ heap_capacity \in Nat
  /\ heap_size <= heap_capacity
  /\ heap \in [0 .. (heap_size - 1) -> Groups]
  /\ heap_index \in [Groups -> -1 .. (NumGroups - 1)]
  /\ threads_queued \in [Groups -> 0 .. MaxQueued]
  /\ spec_virt_time \in [Groups -> Nat]
  /\ \A g \in Groups : spec_virt_time[g] <= MaxSvt[g]

(* The indices kept in the groups are those of the heap: a registered      *)
(* group is found where it says, and no entry is of any other group.       *)
HeapIndexed ==
  /\ \A g \in Groups : Registered(g) => heap_index[g] < heap_size /\ heap[heap_index[g]] = g
  /\ \A i \in 0 .. (heap_size - 1) : heap_index[heap[i]] = i

(* What test-heap.c asserts after each of its changes: peeking returns the *)
(* non-empty registered group of least virtual time (of least id among     *)
(* equals), and NULL only when every registered group is empty.            *)
PeekIsMinimum ==
  LET ready == {g \in Groups : Registered(g) /\ threads_queued[g] > 0}
      first == {g \in ready : \A o \in ready \ {g} :
                  \/ spec_virt_time[g] < spec_virt_time[o]
                  \/ spec_virt_time[g] = spec_virt_time[o] /\ g < o}
  IN  IF ready = {} THEN PeekMinGroup = None ELSE first = {PeekMinGroup}

(* What makes the next peek right too, after any push, removal or fix: the *)
(* indices are right, and no group comes before its parent.  A fix must    *)
(* sift both ways because the last group may belong above the place it is  *)
(* moved to.                                                               *)
HeapOrdered ==
  /\ HeapIndexed
  /\ \A i \in 1 .. (heap_size - 1) :
       ~Before(threads_queued, spec_virt_time, heap[i], heap[Parent(i)])

=============================================================================
