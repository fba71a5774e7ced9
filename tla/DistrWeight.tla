---------------------------- MODULE DistrWeight ----------------------------
(***************************************************************************)
(* strict-weight/distr-weight.c: the cores' capacity is divided among the  *)
(* groups by weight whenever a process comes or goes, and each core runs   *)
(* only processes of the groups that hold a share of it.  Every operation  *)
(* holds global_lock from beginning to end and is one step.                *)
(*                                                                         *)
(* Shares are doubles in the code; here they are whole numbers of 1/Unit   *)
(* of a core, exact because Unit is a multiple of every total weight.  The *)
(* virtual time of a new local group is never initialised, so the local    *)
(* group with the least may be any.  gs->group_head is a set: its order is *)
(* lost to the sort that precedes every use, which may break ties at will. *)
(***************************************************************************)
EXTENDS Integers, SequencesExt, FiniteSetsExt

CONSTANTS
  NumCores,   \* NUM_CORES
  Groups,
  Procs,
  GroupOf,    \* GroupOf[p]: p->group
  Weight,     \* Weight[g]: the weight of group g
  Unit,       \* the whole of a core
  None        \* the NULL pointer

Cores == 0 .. (NumCores - 1)

ASSUME CoresAssumption == NumCores \in Nat \ {0}
ASSUME GroupsAssumption ==
  /\ Weight \in [Groups -> Nat \ {0}] /\ GroupOf \in [Procs -> Groups]
  /\ IsFiniteSet(Groups) /\ IsFiniteSet(Procs)
ASSUME UnitAssumption ==
  /\ Unit \in Nat \ {0}
  /\ \A G \in (SUBSET Groups) \ {{}} : Unit % MapThenSumSet(LAMBDA g : Weight[g], G) = 0
ASSUME NoneAssumption == None \notin Procs

VARIABLES
  listed,        \* the groups from gs->group_head on
  total_weight,  \* gs->total_weight
  num_threads,   \* per group
  runqueue,      \* per group
  local_weight,  \* per core and group: its local group's weight, 0 for none
  current,       \* per core: current_process
  pool,          \* per core: the processes it has dequeued
  pc,            \* per core: "schedule" or "choose"
  aborted        \* an assert failed, or memory was corrupted

lists == <<listed, total_weight, num_threads, local_weight>>
vars == <<lists, runqueue, current, pool, pc, aborted>>

Members(g) == {p \in Procs : GroupOf[p] = g}
NoShares == [c \in Cores |-> [g \in Groups |-> 0]]
-----------------------------------------------------------------------------
(* distribute_weight.                                                      *)

(* As it would be with the comparison the other way round.                 *)
AfterInstead(n, a, b) == Weight[b] * n[a] > Weight[a] * n[b]

(* compare_groups_by_weight_p_thread: a goes before b.                     *)
Before(n, a, b) == Weight[a] * n[b] > Weight[b] * n[a]

SortedBy(n, S) ==
  {order \in SetToSeqs(S) :
     \A i, j \in 1 .. Len(order) : i < j => ~Before(n, order[j], order[i])}

(* What a core gives of the s.points still to be assigned: it must be core *)
(* `first' or a later one and still whole, or, if not wholeOnly, have      *)
(* anything left.                                                          *)
Passed(s, c, first, wholeOnly) == c < first \/ (wholeOnly /\ s.left[c] # Unit)

(* As it would be if a core's capacity did not limit what it gives.        *)
AmountUncapped(s, c, first, wholeOnly) ==
  IF Passed(s, c, first, wholeOnly) THEN 0 ELSE s.points

Amount(s, c, first, wholeOnly) ==
  IF Passed(s, c, first, wholeOnly) THEN 0
  ELSE IF s.points < s.left[c] THEN s.points ELSE s.left[c]

(* Group g gets the amount from core c.                                    *)
Take(s, c, g, amount) ==
  [points |-> s.points - amount,
   left |-> [s.left EXCEPT ![c] = @ - amount],
   share |-> [s.share EXCEPT ![c][g] = @ + amount]]

(* The next `points' of the cores go to group g, core after core.          *)
Assign(d, g, points, first, wholeOnly) ==
  LET run[c \in 0 .. NumCores] ==
        IF c = 0 THEN [points |-> points, left |-> d.left, share |-> d.share]
        ELSE Take(run[c - 1], c - 1, g, Amount(run[c - 1], c - 1, first, wholeOnly))
  IN  run[NumCores]

(* The group's weight per thread is above the weight per core that is      *)
(* left: every thread gets a core of its own, the loop at 344.             *)
Underserved(d, n, g) == Weight[g] * d.coresLeft > d.weightLeft * n[g]

GiveCores(d, n, g) ==
  LET a == Assign(d, g, n[g] * Unit, d.firstCore, TRUE)
  IN  [d EXCEPT !.left = a.left, !.share = a.share,
                !.firstCore = @ + n[g], !.coresLeft = @ - n[g],
                !.weightLeft = @ - Weight[g]]

(* From the first group that is not, all share what is left by weight, the *)
(* loop at 381: by exact fractions, where the code has doubles and may     *)
(* leave a residue on one core more (388).                                 *)
GiveShare(d, g) ==
  LET a == Assign(d, g, (Weight[g] * d.coresLeft * Unit) \div d.weightLeft, d.firstCore, FALSE)
  IN  [d EXCEPT !.left = a.left, !.share = a.share, !.whole = FALSE]

Give(d, n, g) ==
  IF d.whole /\ Underserved(d, n, g) THEN GiveCores(d, n, g) ELSE GiveShare(d, g)

Undivided(total) ==
  [left |-> [c \in Cores |-> Unit], share |-> NoShares, firstCore |-> 0,
   coresLeft |-> NumCores, weightLeft |-> total, whole |-> TRUE]

DistributeWeight(n, total, order) ==
  LET run[k \in 0 .. Len(order)] ==
        IF k = 0 THEN Undivided(total) ELSE Give(run[k - 1], n, order[k])
  IN  run[Len(order)].share

(* distribute_enforce_weight: cores whose local groups differ get the new  *)
(* ones, so all have them.  Sorting no groups writes through the pointer   *)
(* before an empty array: that may end the program or do no visible harm.  *)
Enforce(n, S, total) ==
  /\ \E order \in SortedBy(n, S) : local_weight' = DistributeWeight(n, total, order)
  /\ aborted' \in IF S = {} THEN BOOLEAN ELSE {FALSE}
-----------------------------------------------------------------------------
(* main has enqueued every process before the cores start.                 *)
Init ==
  /\ listed = {GroupOf[p] : p \in Procs}
  /\ total_weight = MapThenSumSet(LAMBDA g : Weight[g], listed)
  /\ num_threads = [g \in Groups |-> Cardinality(Members(g))]
  /\ runqueue \in {q \in [Groups -> UNION {SetToSeqs(Members(g)) : g \in Groups}] :
                     \A g \in Groups : ToSet(q[g]) = Members(g)}
  /\ \E order \in SortedBy(num_threads, listed) :
       local_weight = DistributeWeight(num_threads, total_weight, order)
  /\ current = [c \in Cores |-> None]
  /\ pool = [c \in Cores |-> <<>>]
  /\ pc = [c \in Cores |-> "schedule"]
  /\ aborted = FALSE

(* re_enq_running_process, and the head of schedule: to the tail.          *)
Requeued(c) ==
  IF current[c] = None
  THEN runqueue
  ELSE [runqueue EXCEPT ![GroupOf[current[c]]] = Append(@, current[c])]

LocalGroups(c) == {g \in Groups : local_weight[c][g] > 0}

(* As it would be if the running process stayed off its queue.             *)
ScheduleDropping(c) ==
  /\ pc[c] = "schedule"
  /\ \E g \in LocalGroups(c) :
       /\ runqueue[g] # <<>>
       /\ current' = [current EXCEPT ![c] = Head(runqueue[g])]
       /\ runqueue' = [runqueue EXCEPT ![g] = Tail(@)]
  /\ pc' = [pc EXCEPT ![c] = "choose"]
  /\ UNCHANGED <<lists, pool, aborted>>

(* schedule, with its assert at 566.                                       *)
Schedule(c) ==
  /\ pc[c] = "schedule"
  /\ LET q == Requeued(c)
         Switch(p, rest) == /\ current' = [current EXCEPT ![c] = p]
                            /\ runqueue' = rest
     IN  \/ LocalGroups(c) = {} /\ Switch(None, q) /\ UNCHANGED aborted
         \/ \E g \in LocalGroups(c) :
              \/ /\ q[g] # <<>>
                 /\ Switch(Head(q[g]), [q EXCEPT ![g] = Tail(@)])
                 /\ UNCHANGED aborted
              \/ q[g] = <<>> /\ Switch(None, q) /\ aborted' = TRUE
  /\ pc' = [pc EXCEPT ![c] = "choose"]
  /\ UNCHANGED <<lists, pool>>

(* enqueue of the process this core dequeued last, at the queue's head.    *)
Enqueue(c) ==
  /\ pc[c] = "choose" /\ pool[c] # <<>>
  /\ LET p == Head(pool[c])
         g == GroupOf[p]
     IN  /\ listed' = listed \cup {g}
         /\ total_weight' = total_weight + (IF g \in listed THEN 0 ELSE Weight[g])
         /\ num_threads' = [num_threads EXCEPT ![g] = @ + 1]
         /\ runqueue' = [runqueue EXCEPT ![g] = <<p>> \o @]
  /\ Enforce(num_threads', listed', total_weight')
  /\ pool' = [pool EXCEPT ![c] = Tail(@)]
  /\ pc' = [pc EXCEPT ![c] = "schedule"]
  /\ UNCHANGED current

(* dequeue of the running process; its group goes with the last one.       *)
DequeueUnlistingAt(c, n) ==
  /\ pc[c] = "choose" /\ current[c] # None
  /\ LET p == current[c]
         g == GroupOf[p]
         last == num_threads[g] = n
     IN  /\ num_threads' = [num_threads EXCEPT ![g] = @ - 1]
         /\ runqueue' = [runqueue EXCEPT ![g] = RemoveFirst(Requeued(c)[g], p)]
         /\ listed' = IF last THEN listed \ {g} ELSE listed
         /\ total_weight' = IF last THEN total_weight - Weight[g] ELSE total_weight
         /\ pool' = [pool EXCEPT ![c] = <<p>> \o @]
  /\ Enforce(num_threads', listed', total_weight')
  /\ current' = [current EXCEPT ![c] = None]
  /\ pc' = [pc EXCEPT ![c] = "schedule"]

(* As it would be if the test came before the decrement.                   *)
DequeueLate(c) == DequeueUnlistingAt(c, 0)

Dequeue(c) == DequeueUnlistingAt(c, 1)

(* The core just runs, or has nothing to enqueue or dequeue.               *)
RunOn(c) ==
  /\ pc[c] = "choose"
  /\ pc' = [pc EXCEPT ![c] = "schedule"]
  /\ UNCHANGED <<lists, runqueue, current, pool, aborted>>

Next ==
  /\ ~aborted
  /\ \E c \in Cores : Schedule(c) \/ Enqueue(c) \/ Dequeue(c) \/ RunOn(c)

Spec == Init /\ [][Next]_vars
-----------------------------------------------------------------------------
(* Every variable has its type; no core has more of itself to give than 1. *)
TypeOK ==
  /\ listed \subseteq Groups
  /\ total_weight \in Nat
  /\ num_threads \in [Groups -> Nat]
  /\ runqueue \in [Groups -> Seq(Procs)]
  /\ local_weight \in [Cores -> [Groups -> 0 .. Unit]]
  /\ current \in [Cores -> Procs \cup {None}]
  /\ pool \in [Cores -> Seq(Procs)]
  /\ pc \in [Cores -> {"schedule", "choose"}]
  /\ aborted \in BOOLEAN

Running(g) == {c \in Cores : current[c] # None /\ GroupOf[current[c]] = g}

(* Every process is on its group's queue, on one core or in one pool, once *)
(* (the asserts on p_in_rq), and num_threads counts the first two.         *)
ThreadsCounted ==
  /\ \A p \in Procs :
       Cardinality({i \in DOMAIN runqueue[GroupOf[p]] : runqueue[GroupOf[p]][i] = p})
         + Cardinality({c \in Cores : current[c] = p})
         + Cardinality({c \in Cores : Contains(pool[c], p)}) = 1
  /\ \A g \in Groups : num_threads[g] = Len(runqueue[g]) + Cardinality(Running(g))

(* The groups in the list are those with threads, and total_weight is      *)
(* theirs (the asserts on group_in_gs).                                    *)
ListedByThreads ==
  /\ listed = {g \in Groups : num_threads[g] > 0}
  /\ total_weight = MapThenSumSet(LAMBDA g : Weight[g], listed)

Share == [g \in Groups |-> MapThenSumSet(LAMBDA c : local_weight[c][g], Cores)]
Capacity == [g \in Groups |-> num_threads[g] * Unit]

(* What strict weights promise: no core is given out twice, no group gets  *)
(* more than a core per thread, one that gets less is no poorer by weight  *)
(* than any other, and no core is left idle that a thread could use.       *)
SharesAreMaxMinFair ==
  LET all == MapThenSumSet(LAMBDA g : Share[g], Groups)
      wanted == MapThenSumSet(LAMBDA g : Capacity[g], Groups)
  IN  /\ \A c \in Cores : MapThenSumSet(LAMBDA g : local_weight[c][g], Groups) <= Unit
      /\ \A g \in Groups : Share[g] <= Capacity[g]
      /\ \A g, h \in Groups :
           Share[g] < Capacity[g] => Share[g] * Weight[h] >= Share[h] * Weight[g]
      /\ all = (IF wanted < NumCores * Unit THEN wanted ELSE NumCores * Unit)

=============================================================================
