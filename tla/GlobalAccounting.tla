-------------------------- MODULE GlobalAccounting --------------------------
(***************************************************************************)
(* strict-weight/global-accounting.c: all cores share one list of groups,  *)
(* and a core picks the group with the least virtual time, which it        *)
(* charges for a whole tick in advance.  One mutex makes each call of      *)
(* schedule, enqueue and dequeue a single step; the cores interleave       *)
(* between them.                                                           *)
(*                                                                         *)
(* The next pointers of groups and processes are sequences.  Of a group's  *)
(* speculation list the model keeps how many nodes it has for each core.   *)
(* Left out are the logs and the correction of a charge: every call of     *)
(* schedule is given TICK_LENGTH, so that what a core expected and what it *)
(* got round to the same number (line 261).  dequeue is only called for    *)
(* the process the core runs, and its search of the run queue is not       *)
(* modelled.                                                               *)
(***************************************************************************)
EXTENDS Integers, FiniteSets, SequencesExt

CONSTANTS
  Cores,
  Groups,
  Procs,
  GroupOf,     \* GroupOf[p]: p->group
  Cost,        \* Cost[g]: TICK_LENGTH / g->weight, for weights that divide it
  GroupBonus,  \* GROUP_BONUS
  IntMax,      \* INT_MAX
  Creation,    \* the order in which main creates and enqueues the processes, each once
  None

ASSUME CoresAssumption == IsFiniteSet(Cores)
ASSUME GroupsAssumption == GroupOf \in [Procs -> Groups] /\ Cost \in [Groups -> Nat \ {0}]
ASSUME TimesAssumption == GroupBonus \in Nat /\ IntMax \in Nat
ASSUME CreationAssumption ==
  /\ Creation \in Seq(Procs)
  /\ IsInjective(Creation) /\ \A p \in Procs : Contains(Creation, p)
ASSUME NoneAssumption == None \notin Procs \cup Groups

VARIABLES
  groups,          \* the groups from group_head on
  num_threads,     \* per group
  spec_virt_time,  \* per group, -1 while it has no threads
  spec_time,       \* per group and core: its nodes in the speculation list
  runqueue,        \* per group: the processes from runqueue_head on
  current,         \* per core: current_process
  pool,            \* per core: the processes it has dequeued, the last one first
  todo,            \* the processes that main has yet to enqueue
  pc,              \* per core: its next critical section
  failed           \* an assertion has failed, which ends the program

accounts == <<groups, num_threads, spec_virt_time, spec_time>>
places == <<runqueue, current>>
vars == <<accounts, places, pool, todo, pc, failed>>

Init ==
  /\ groups = <<>>
  /\ num_threads = [g \in Groups |-> 0]
  /\ spec_virt_time = [g \in Groups |-> -1]
  /\ spec_time = [g \in Groups |-> [c \in Cores |-> 0]]
  /\ runqueue = [g \in Groups |-> <<>>]
  /\ current = [c \in Cores |-> None]
  /\ pool = [c \in Cores |-> <<>>]
  /\ todo = Creation
  /\ pc = [c \in Cores |-> "schedule"]
  /\ failed = FALSE
-----------------------------------------------------------------------------
(* num_cores_running, of processes cur, and the nodes that it counts.      *)
Running(cur, g) == {c \in Cores : cur[c] # None /\ GroupOf[cur[c]] = g}
Nodes(spec, g) == UNION {{c} \X (1 .. spec[g][c]) : c \in Cores}
Consistent(cur, spec, g) == Cardinality(Running(cur, g)) = Cardinality(Nodes(spec, g))

Pushed(queues, p) == [queues EXCEPT ![GroupOf[p]] = <<p>> \o @]

(* As it would be if a group's last queued thread were not counted.        *)
MinGroupLastLeft(list, num, cur, prev) ==
  LET effective(g) == spec_virt_time[g] - (IF g = prev THEN GroupBonus ELSE 0)
      eligible == {i \in DOMAIN list :
                     /\ num[list[i]] > Cardinality(Running(cur, list[i])) + 1
                     /\ effective(list[i]) < IntMax}
      best == {i \in eligible : \A j \in eligible :
                 \/ effective(list[i]) < effective(list[j])
                 \/ effective(list[i]) = effective(list[j]) /\ i <= j}
  IN  IF best = {} THEN None ELSE list[CHOOSE i \in best : TRUE]

(* The first of the listed groups with a thread queued that has the least  *)
(* virtual time, the group that ran before given a bonus, or None.         *)
MinGroup(list, num, cur, prev) ==
  LET effective(g) == spec_virt_time[g] - (IF g = prev THEN GroupBonus ELSE 0)
      eligible == {i \in DOMAIN list :
                     /\ num[list[i]] > Cardinality(Running(cur, list[i]))
                     /\ effective(list[i]) < IntMax}
      best == {i \in eligible : \A j \in eligible :
                 \/ effective(list[i]) < effective(list[j])
                 \/ effective(list[i]) = effective(list[j]) /\ i <= j}
  IN  IF best = {} THEN None ELSE list[CHOOSE i \in best : TRUE]

(* As it would be if the charge were left to the end of the tick.          *)
AssignUnspeculated(c, g, svt, queues, cur, spec) ==
  /\ current' = [cur EXCEPT ![c] = Head(queues[g])]
  /\ runqueue' = [queues EXCEPT ![g] = Tail(@)]
  /\ spec_virt_time' = svt
  /\ spec_time' = spec

(* As it would be if a charge made the virtual time smaller.               *)
AssignRefunded(c, g, svt, queues, cur, spec) ==
  /\ current' = [cur EXCEPT ![c] = Head(queues[g])]
  /\ runqueue' = [queues EXCEPT ![g] = Tail(@)]
  /\ spec_virt_time' = [svt EXCEPT ![g] = @ - Cost[g]]
  /\ spec_time' = [spec EXCEPT ![g][c] = @ + 1]

(* As it would be if the process picked stayed at the head of the queue.   *)
AssignUnpopped(c, g, svt, queues, cur, spec) ==
  /\ current' = [cur EXCEPT ![c] = Head(queues[g])]
  /\ runqueue' = queues
  /\ spec_virt_time' = [svt EXCEPT ![g] = @ + Cost[g]]
  /\ spec_time' = [spec EXCEPT ![g][c] = @ + 1]

(* Core c is given the first process of group g, which is charged.         *)
Assign(c, g, svt, queues, cur, spec) ==
  /\ current' = [cur EXCEPT ![c] = Head(queues[g])]
  /\ runqueue' = [queues EXCEPT ![g] = Tail(@)]
  /\ spec_virt_time' = [svt EXCEPT ![g] = @ + Cost[g]]
  /\ spec_time' = [spec EXCEPT ![g][c] = @ + 1]

(* The pick of schedule, from the state its caller has made: the list, the *)
(* counts, the queues, the processes that run and the speculation.         *)
PickFrom(c, list, num, svt, queues, cur, spec, prev) ==
  LET g == MinGroup(list, num, cur, prev) IN
    IF g = None
    THEN /\ current' = cur /\ runqueue' = queues
         /\ spec_virt_time' = svt /\ spec_time' = spec
    ELSE Assign(c, g, svt, queues, cur, spec)
-----------------------------------------------------------------------------
(* enqueue of a new process.  The group of the first one is listed first,  *)
(* and its virtual time is the least of all, itself included at -1.        *)
EnqueueProc(p) ==
  LET g == GroupOf[p]
      list == <<g>> \o groups
  IN  /\ IF num_threads[g] = 0
         THEN /\ groups' = list
              /\ spec_virt_time' = [spec_virt_time EXCEPT ![g] =
                   Min({IntMax} \cup {spec_virt_time[list[i]] : i \in DOMAIN list})]
              /\ failed' = (spec_virt_time[g] # -1)
         ELSE UNCHANGED <<groups, spec_virt_time, failed>>
      /\ num_threads' = [num_threads EXCEPT ![g] = @ + 1]
      /\ runqueue' = Pushed(runqueue, p)
      /\ UNCHANGED <<spec_time, current>>

(* Core c's node is taken off g's speculation list.                        *)
Collapsed(g, c) == [spec_time EXCEPT ![g][c] = IF @ > 0 THEN @ - 1 ELSE 0]

(* schedule at a tick: the process that ran is put back, which never makes *)
(* its group anew, as it counts among the group's threads.                 *)
ScheduleTick(c) ==
  LET p == current[c]
      g == GroupOf[p]
      spec == IF p = None THEN spec_time ELSE Collapsed(g, c)
      cur == [current EXCEPT ![c] = None]
  IN  /\ failed' = \/ p # None /\ spec_time[g][c] = 0
                   \/ \E i \in DOMAIN groups : ~Consistent(cur, spec, groups[i])
      /\ PickFrom(c, groups, num_threads, spec_virt_time,
                  IF p = None THEN runqueue ELSE Pushed(runqueue, p), cur, spec,
                  IF p = None THEN None ELSE g)
      /\ UNCHANGED <<groups, num_threads>>

(* dequeue of a process that is not its group's last: schedule collapses   *)
(* its speculation, and picks.  The search of the run queue (328-346) is   *)
(* for a process that does not run, which no caller hands to dequeue.      *)
DequeueOne(p, c) ==
  LET g == GroupOf[p]
      num == [num_threads EXCEPT ![g] = @ - 1]
      cur == [current EXCEPT ![c] = None]
  IN  /\ num[g] # 0
      /\ num_threads' = num
      /\ failed' = \/ spec_time[g][c] = 0
                   \/ \E i \in DOMAIN groups : ~Consistent(cur, Collapsed(g, c), groups[i])
      /\ PickFrom(c, groups, num, spec_virt_time, runqueue, cur, Collapsed(g, c), g)
      /\ UNCHANGED groups

(* As it would be if the group stayed on the list.                         *)
UnlinkedNot(list, g) == list

(* The list without g.                                                     *)
Unlinked(list, g) ==
  IF Contains(list, g) THEN RemoveAt(list, CHOOSE i \in DOMAIN list : list[i] = g) ELSE list

(* dequeue of the last one: the group leaves the list, its speculation     *)
(* list, which must be a single node, is freed, and schedule picks for a   *)
(* core that has nothing to account for.                                   *)
DequeueLast(p, c) ==
  LET g == GroupOf[p]
      num == [num_threads EXCEPT ![g] = @ - 1]
      list == Unlinked(groups, g)
      cur == [current EXCEPT ![c] = None]
      spec == [spec_time EXCEPT ![g] = [d \in Cores |-> 0]]
  IN  /\ num[g] = 0
      /\ num_threads' = num
      /\ groups' = list
      /\ failed' = \/ Cardinality(Nodes(spec_time, g)) # 1
                   \/ \E i \in DOMAIN list : ~Consistent(cur, spec, list[i])
      /\ PickFrom(c, list, num, [spec_virt_time EXCEPT ![g] = -1], runqueue, cur, spec, None)
-----------------------------------------------------------------------------
(* main enqueues one process after the other and then starts the cores.    *)
Create ==
  /\ ~failed /\ todo # <<>>
  /\ todo' = Tail(todo)
  /\ EnqueueProc(Head(todo))
  /\ UNCHANGED <<pool, pc>>

(* run_core, its first critical section and its choices.                   *)
Schedule(c) ==
  /\ ~failed /\ todo = <<>> /\ pc[c] = "schedule"
  /\ ScheduleTick(c)
  /\ pc' = [pc EXCEPT ![c] = "choose"]
  /\ UNCHANGED <<pool, todo>>

Choose(c) ==
  /\ ~failed /\ todo = <<>> /\ pc[c] = "choose"
  /\ pc' = [pc EXCEPT ![c] = "schedule"]
  /\ UNCHANGED todo

(* "just run", or find nothing to enqueue or dequeue.                      *)
Run(c) == Choose(c) /\ UNCHANGED <<accounts, places, pool, failed>>

(* As it would be if pool were not moved on.                               *)
EnqueueKeepsPool(c) ==
  /\ Choose(c)
  /\ pool[c] # <<>>
  /\ EnqueueProc(Head(pool[c]))
  /\ UNCHANGED pool

Enqueue(c) ==
  /\ Choose(c)
  /\ pool[c] # <<>>
  /\ pool' = [pool EXCEPT ![c] = Tail(@)]
  /\ EnqueueProc(Head(pool[c]))

(* p is put in the pool after the unlock, when only this core knows of it. *)
Dequeue(c) ==
  /\ Choose(c)
  /\ current[c] # None
  /\ DequeueOne(current[c], c) \/ DequeueLast(current[c], c)
  /\ pool' = [pool EXCEPT ![c] = <<current[c]>> \o @]

Next == Create \/ \E c \in Cores : Schedule(c) \/ Run(c) \/ Enqueue(c) \/ Dequeue(c)

Spec == Init /\ [][Next]_vars
-----------------------------------------------------------------------------
(* Every variable has its type.  A queue holds processes of its group, and *)
(* no virtual time falls below -1, the one a returning group starts with.  *)
TypeOK ==
  /\ groups \in Seq(Groups)
  /\ num_threads \in [Groups -> Nat]
  /\ spec_virt_time \in [Groups -> Nat \cup {-1}]
  /\ spec_time \in [Groups -> [Cores -> Nat]]
  /\ runqueue \in [Groups -> Seq(Procs)]
  /\ \A g \in Groups : \A i \in DOMAIN runqueue[g] : GroupOf[runqueue[g][i]] = g
  /\ current \in [Cores -> Procs \cup {None}]
  /\ pool \in [Cores -> Seq(Procs)]
  /\ todo \in Seq(Procs)
  /\ pc \in [Cores -> {"schedule", "choose"}]
  /\ failed \in BOOLEAN

(* None of the assertions at 113, 196, 232, 255 and 369 fails: the cores   *)
(* that run a group are those that its speculation list says, whichever of *)
(* them collapses its part and whichever group it moves to.                *)
AssertionsHold == ~failed

(* num_threads counts the threads queued and running: schedule takes the   *)
(* difference for queued ones and goes on to take one from the queue.      *)
QueueCount ==
  \A g \in Groups : num_threads[g] = Len(runqueue[g]) + Cardinality(Running(current, g))

(* A group is on the list once while it has threads, and not after.        *)
ListedByThreads ==
  /\ IsInjective(groups)
  /\ \A g \in Groups : Contains(groups, g) <=> num_threads[g] > 0

Times(p, s) == Cardinality({i \in DOMAIN s : s[i] = p})

(* A process is on one core, in one queue, in one pool or yet to be made:  *)
(* it has one next field, and is never lost.                               *)
OnePlace ==
  \A p \in Procs :
    LET copies(s) == UNION {{k} \X {i \in DOMAIN s[k] : s[k][i] = p} : k \in DOMAIN s}
    IN  Cardinality(copies(runqueue)) + Cardinality(copies(pool))
          + Cardinality({c \in Cores : current[c] = p}) + Times(p, todo) = 1

(* "no group to run": a core that has scheduled and is left without a      *)
(* process leaves none in the queues - but those of groups whose virtual   *)
(* time, which only grows, has reached INT_MAX.                            *)
IdleOnlyIfNoWork ==
  [][\A c \in Cores :
       (Schedule(c) \/ Dequeue(c)) /\ current'[c] = None =>
         \A g \in Groups : runqueue'[g] # <<>> => spec_virt_time'[g] >= IntMax]_vars

=============================================================================
