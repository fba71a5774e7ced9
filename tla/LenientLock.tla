----------------------------- MODULE LenientLock -----------------------------
(***************************************************************************)
(* lenient-weight/global-lock.c: every group with threads is given a fixed *)
(* number of cores by its weight, and one mutex makes each call of         *)
(* schedule, enqueue and dequeue a single step.  schedule puts all running *)
(* processes back and fills the cores anew, the groups in list order.      *)
(*                                                                         *)
(* The next pointers of groups and processes are sequences.  Time and the  *)
(* log of how long a call takes are left out.                              *)
(***************************************************************************)
EXTENDS Integers, SequencesExt, FiniteSetsExt

CONSTANTS
  NumCores,
  Groups,
  Procs,
  GroupOf,    \* GroupOf[p]: p->group
  Weight,     \* Weight[g]: g->weight
  Creation,   \* the order in which main creates and enqueues the processes
  MaxWeight,  \* bound: what total_weight may grow to
  None

ASSUME SizesAssumption == NumCores \in Nat \ {0} /\ MaxWeight \in Nat
ASSUME GroupsAssumption ==
  /\ GroupOf \in [Procs -> Groups]
  /\ Weight \in [Groups -> Nat \ {0}]
ASSUME CreationAssumption == Creation \in Seq(Procs) /\ IsInjective(Creation)
ASSUME NoneAssumption == None \notin Procs

VARIABLES
  groups,           \* the groups from group_head on
  total_weight,
  cores_should_get, \* per group
  runqueue,         \* per group: the processes from runqueue_head on
  current,          \* per core: current_process
  core_running_on,  \* per process, -1 for none
  pool,             \* per core: the processes it has dequeued, the last one first
  todo,             \* the processes that main has yet to enqueue
  pc                \* per core: its next critical section

weights == <<groups, total_weight, cores_should_get>>
places == <<runqueue, current, core_running_on>>
vars == <<weights, places, pool, todo, pc>>

Cores == 0 .. NumCores - 1

Init ==
  /\ groups = <<>>
  /\ total_weight = 0
  /\ cores_should_get = [g \in Groups |-> 0]
  /\ runqueue = [g \in Groups |-> <<>>]
  /\ current = [c \in Cores |-> None]
  /\ core_running_on = [p \in Procs |-> -1]
  /\ pool = [c \in Cores |-> <<>>]
  /\ todo = Creation
  /\ pc = [c \in Cores |-> "schedule"]
-----------------------------------------------------------------------------
(* The head of schedule: each process that runs goes to the tail of its    *)
(* group's queue, in the order of their cores.                             *)
Requeued(queues, cur) ==
  LET after[n \in 0 .. NumCores] ==
        IF n = 0 THEN queues
        ELSE IF cur[n - 1] = None THEN after[n - 1]
        ELSE [after[n - 1] EXCEPT ![GroupOf[cur[n - 1]]] = Append(@, cur[n - 1])]
  IN  after[NumCores]

(* What group g is given: its share, or what it has.                       *)
Given(share, queue) == SubSeq(queue, 1, Min({share, Len(queue)}))

(* As it would be if n_cores_assigned went up before it was noted.         *)
NextCoreFor(chosen, p) == SelectInSeq(chosen, LAMBDA r : r = p)

(* The core that p is given: n_cores_assigned when it is p's turn.         *)
CoreFor(chosen, p) == SelectInSeq(chosen, LAMBDA r : r = p) - 1

(* schedule, from the run queues, current processes, list and shares that  *)
(* it finds.  The loop that is to fill the cores left over (143-155) does  *)
(* nothing: it starts with curr_group NULL, where the loop over the groups *)
(* (119-135) has left it.  WorkConserving is what that costs.              *)
ScheduleFrom(queues, cur, list, share) ==
  LET q == Requeued(queues, cur)
      given == [g \in Groups |-> Given(share[g], q[g])]
      chosen == FlattenSeq([i \in DOMAIN list |-> given[list[i]]])
  IN  /\ current' = [c \in Cores |-> IF c < Len(chosen) THEN chosen[c + 1] ELSE None]
      /\ runqueue' = [g \in Groups |->
           IF Contains(list, g) THEN SubSeq(q[g], Len(given[g]) + 1, Len(q[g])) ELSE q[g]]
      /\ core_running_on' = [p \in Procs |->
           IF Contains(chosen, p) THEN CoreFor(chosen, p)
           ELSE IF \E c \in Cores : current[c] = p THEN -1
           ELSE core_running_on[p]]

(* As it would be if shares were rounded up.                               *)
ShareRoundedUp(g, total) == (Weight[g] * NumCores + total - 1) \div total

(* The cores that g should get of a total weight.                          *)
Share(g, total) == (Weight[g] * NumCores) \div total

(* The shares of the listed groups, worked out again.                      *)
Shares(list, total) ==
  [g \in Groups |-> IF Contains(list, g) THEN Share(g, total) ELSE cores_should_get[g]]
-----------------------------------------------------------------------------
(* enqueue.  A group that is not listed becomes the head of the list, and  *)
(* p the whole of its queue, whatever was in it.                           *)
EnqueueProc(p) ==
  LET g == GroupOf[p]
      listed == Contains(groups, g)
  IN  /\ IF listed
         THEN UNCHANGED weights
         ELSE /\ total_weight + Weight[g] <= MaxWeight
              /\ groups' = <<g>> \o groups
              /\ total_weight' = total_weight + Weight[g]
              /\ cores_should_get' = Shares(groups', total_weight')
      /\ ScheduleFrom([runqueue EXCEPT ![g] = IF listed THEN Append(@, p) ELSE <<p>>],
                      current, groups', cores_should_get')

(* The list without g.  g->next is NULL (183) before g is unlinked (188,   *)
(* 192), so whatever came after g goes too.                                *)
Unlinked(list, g) ==
  IF Contains(list, g) THEN SubSeq(list, 1, SelectInSeq(list, LAMBDA h : h = g) - 1) ELSE list

(* As it would be if next_p stayed at the head of its queue.               *)
ReplaceKeepingNext(p, next_p, c) ==
  /\ current' = [current EXCEPT ![c] = next_p]
  /\ core_running_on' = [core_running_on EXCEPT ![next_p] = c, ![p] = -1]
  /\ UNCHANGED <<weights, runqueue>>

(* As it would be if next_p did not learn its core.                        *)
ReplaceUnnoted(p, next_p, c) ==
  /\ runqueue' = [runqueue EXCEPT ![GroupOf[p]] = Tail(@)]
  /\ current' = [current EXCEPT ![c] = next_p]
  /\ core_running_on' = [core_running_on EXCEPT ![p] = -1]
  /\ UNCHANGED weights

(* As it would be if every dequeue took the group's weight away.           *)
ReplaceTakingWeight(p, next_p, c) ==
  /\ total_weight' = total_weight - Weight[GroupOf[p]]
  /\ runqueue' = [runqueue EXCEPT ![GroupOf[p]] = Tail(@)]
  /\ current' = [current EXCEPT ![c] = next_p]
  /\ core_running_on' = [core_running_on EXCEPT ![next_p] = c, ![p] = -1]
  /\ UNCHANGED <<groups, cores_should_get>>

(* dequeue when p's group has another process queued: that one runs, and   *)
(* schedule is not called.                                                 *)
ReplaceBy(p, next_p, c) ==
  /\ runqueue' = [runqueue EXCEPT ![GroupOf[p]] = Tail(@)]
  /\ current' = [current EXCEPT ![c] = next_p]
  /\ core_running_on' = [core_running_on EXCEPT ![next_p] = c, ![p] = -1]
  /\ UNCHANGED weights

(* As it would be if schedule waited for the next tick.                    *)
LastThreadUnscheduled(p, c) ==
  LET list == Unlinked(groups, GroupOf[p])
  IN  /\ groups' = list
      /\ total_weight' = total_weight - Weight[GroupOf[p]]
      /\ cores_should_get' = Shares(list, total_weight')
      /\ current' = [current EXCEPT ![c] = None]
      /\ core_running_on' = [core_running_on EXCEPT ![p] = -1]
      /\ UNCHANGED runqueue

(* dequeue when it has none queued: the group leaves the list.             *)
LastThread(p, c) ==
  LET list == Unlinked(groups, GroupOf[p])
  IN  /\ groups' = list
      /\ total_weight' = total_weight - Weight[GroupOf[p]]
      /\ cores_should_get' = Shares(list, total_weight')
      /\ ScheduleFrom(runqueue, [current EXCEPT ![c] = None], list, cores_should_get')

DequeueProc(p) ==
  LET q == runqueue[GroupOf[p]]
      c == core_running_on[p]
  IN  \/ q # <<>> /\ ReplaceBy(p, Head(q), c)
      \/ q = <<>> /\ LastThread(p, c)
-----------------------------------------------------------------------------
(* main enqueues one process after the other and then starts the cores.    *)
Create ==
  /\ todo # <<>>
  /\ todo' = Tail(todo)
  /\ EnqueueProc(Head(todo))
  /\ UNCHANGED <<pool, pc>>

(* run_core, its first critical section and its choices.                   *)
Schedule(c) ==
  /\ todo = <<>> /\ pc[c] = "schedule"
  /\ ScheduleFrom(runqueue, current, groups, cores_should_get)
  /\ pc' = [pc EXCEPT ![c] = "choose"]
  /\ UNCHANGED <<weights, pool, todo>>

Choose(c) ==
  /\ todo = <<>> /\ pc[c] = "choose"
  /\ pc' = [pc EXCEPT ![c] = "schedule"]
  /\ UNCHANGED todo

(* "run" for the full tick, or find nothing to enqueue or dequeue.         *)
Run(c) == Choose(c) /\ UNCHANGED <<weights, places, pool>>

Enqueue(c) ==
  /\ Choose(c)
  /\ pool[c] # <<>>
  /\ pool' = [pool EXCEPT ![c] = Tail(@)]
  /\ EnqueueProc(Head(pool[c]))

(* p is put in the pool after the unlock, when only this core knows of it. *)
Dequeue(c) ==
  /\ Choose(c)
  /\ current[c] # None
  /\ DequeueProc(current[c])
  /\ pool' = [pool EXCEPT ![c] = <<current[c]>> \o @]

Next == Create \/ \E c \in Cores : Schedule(c) \/ Run(c) \/ Enqueue(c) \/ Dequeue(c)

Spec == Init /\ [][Next]_vars
-----------------------------------------------------------------------------
TypeOK ==
  /\ groups \in Seq(Groups)
  /\ total_weight \in 0 .. MaxWeight
  /\ cores_should_get \in [Groups -> 0 .. NumCores]
  /\ runqueue \in [Groups -> Seq(Procs)]
  /\ current \in [Cores -> Procs \cup {None}]
  /\ core_running_on \in [Procs -> Cores \cup {-1}]
  /\ pool \in [Cores -> Seq(Procs)]
  /\ todo \in Seq(Procs)
  /\ pc \in [Cores -> {"schedule", "choose"}]

Times(p, s) == Cardinality({i \in DOMAIN s : s[i] = p})

(* A process is never on two cores, in two queues, or queued and running:  *)
(* it has one next field, and two lists would share their tails.           *)
OnePlace ==
  \A p \in Procs :
    LET copies(s) == UNION {{k} \X {i \in DOMAIN s[k] : s[k][i] = p} : k \in DOMAIN s}
    IN  Cardinality(copies(runqueue)) + Cardinality(copies(pool))
          + Cardinality({c \in Cores : current[c] = p}) + Times(p, todo) <= 1

(* dequeue takes the core from core_running_on and not from its caller: it *)
(* must be the core that runs p, or another core loses its process.        *)
RunningOn == \A p \in Procs, c \in Cores : core_running_on[p] = c <=> current[c] = p

Listed == ToSet(groups)
Threads(g) ==
  {p \in Procs : GroupOf[p] = g /\ (Contains(runqueue[g], p) \/ \E c \in Cores : current[c] = p)}
CoresOf(g) == {c \in Cores : current[c] # None /\ GroupOf[current[c]] = g}

(* schedule counts up n_cores_assigned without looking at NUM_CORES: the   *)
(* shares of the listed groups must not add up to more.                    *)
SharesFit == MapThenSumSet(LAMBDA g : cores_should_get[g], Listed) <= NumCores

(* total_weight has the weight of every listed group in it, also after     *)
(* others were cut off the list; no share is a division by zero.           *)
WeightCounted == total_weight >= MapThenSumSet(LAMBDA g : Weight[g], Listed)

(* A listed group runs on the cores it should get or on more, or has all  *)
(* its threads running, after every call and not only after schedule; no   *)
(* other group runs.                                                       *)
SharesTaken ==
  \A g \in Groups :
    IF g \in Listed
    THEN Cardinality(CoresOf(g)) >= Min({cores_should_get[g], Cardinality(Threads(g))})
    ELSE CoresOf(g) = {}

(* "work conserving: let anything go beyond what its weight allows rather  *)
(* than have the core go idle" (139): after every call, no core is idle    *)
(* while a listed group has a process queued.                              *)
WorkConserving ==
  (\E c \in Cores : current[c] = None) => \A g \in Listed : runqueue[g] = <<>>

(* "this was the last thread of this group": a group that is off the list  *)
(* has no thread that wants to run.                                        *)
UnlistedHaveNoThreads == \A g \in Groups \ Listed : Threads(g) = {}
=============================================================================
