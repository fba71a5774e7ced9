--------------------------- MODULE RlockScheduler ---------------------------
(***************************************************************************)
(* The scheduler simulator of global-accounting-rlock.c: one pthread per   *)
(* core runs schedule(), enqueue() and yield() over a shared heap of       *)
(* groups, under one reader-writer lock for the heap (the list lock) and   *)
(* one per group.                                                          *)
(*                                                                         *)
(* A step of a core is what it does between two points where another core  *)
(* can be observed: a critical section that takes and releases one group's *)
(* lock is a step; a critical section that reads what others may change    *)
(* meanwhile (the heap's keys, group after group) is several.  No step     *)
(* leaves a group read-locked, so readers are kept for the list lock only. *)
(*                                                                         *)
(* pc[c] names the next statement of core c:                               *)
(*   loop, choose            run_core's loop and choose()                  *)
(*   dec                     yield(): grp_dec_nthread                      *)
(*   weight .. fix_up        grp_collapse_spec_virt_time                   *)
(*   enqueue                 enqueue()'s own critical section              *)
(*   enq_avg .. set_svt      set_grp_spec_virt_time                        *)
(*   peek .. take            schedule() from gl_peek_min_group on          *)
(*   dequeue .. set_lag      dequeue()                                     *)
(*   return                  back in run_core, the operation done          *)
(***************************************************************************)
EXTENDS GroupHeapOps, Sequences, FiniteSets

CONSTANTS
  Cores,       \* the pthreads main creates, one per simulated core
  NumGroups,   \* num_groups
  Procs,       \* every process main creates
  GroupOf,     \* GroupOf[p]: the group of process p
  Weight,      \* Weight[g]: the weight of group g
  TickLength,  \* tick_length
  YieldTime,   \* the time a core that yields reports to have run
  IntMax,      \* INT_MAX; an int is in -(IntMax + 1)..IntMax and wraps
  InitQueue,   \* InitQueue[g]: the run queue of group g when threads start
  MaxRounds,   \* bound: iterations of run_core's loop within TIME_TO_RUN
  None         \* the NULL pointer

Groups == 0 .. (NumGroups - 1)
Int32 == -(IntMax + 1) .. IntMax

ASSUME SizeAssumption == NumGroups \in Nat \ {0} /\ IntMax \in Nat
ASSUME WeightAssumption == Weight \in [Groups -> Nat \ {0}]
ASSUME TimeAssumption == TickLength \in Nat /\ YieldTime \in Nat
ASSUME GroupOfAssumption == GroupOf \in [Procs -> Groups]
ASSUME RoundsAssumption == MaxRounds \in Nat
ASSUME NoneAssumption == None \notin Cores /\ None \notin Procs /\ None \notin Groups

(* main's double loop: every process of a group is on the group's queue,   *)
(* once, before the first thread starts.                                   *)
ASSUME InitQueueAssumption ==
  /\ InitQueue \in [Groups -> Seq(Procs)]
  /\ \A g \in Groups : \A i \in 1 .. Len(InitQueue[g]) : GroupOf[InitQueue[g][i]] = g
  /\ \A p \in Procs : \E i \in 1 .. Len(InitQueue[GroupOf[p]]) : InitQueue[GroupOf[p]][i] = p
  /\ \A g \in Groups : \A i, j \in 1 .. Len(InitQueue[g]) :
       InitQueue[g][i] = InitQueue[g][j] => i = j

(* int arithmetic: addition wraps, division truncates towards zero.        *)
Wrap(x) == ((x + IntMax + 1) % (2 * (IntMax + 1))) - (IntMax + 1)
DivC(a, b) == IF a >= 0 THEN a \div b ELSE -((-a) \div b)

VARIABLES
  listWriter,       \* the core that write-holds group_list_lock, or None
  listReaders,      \* the cores that read-hold it
  groupWriter,      \* groupWriter[g]: the core that write-holds group_lock
  heap,             \* glist->heap
  heap_index,       \* per group: its index in the heap
  num_threads,      \* per group
  threads_queued,   \* per group
  spec_virt_time,   \* per group
  virt_lag,         \* per group
  last_virt_time,   \* per group
  runqueue,         \* per group: runqueue_head and the list after it
  current_process,  \* per core
  pool,             \* per core: the processes it took off the system
  pc,               \* per core: see above
  op,               \* per core: the operation doop() is in
  proc,             \* per core: running_process, or the p of enqueue, yield
  grp,              \* per core: the group the operation is at
  idx,              \* per core: the idx given to gl_heap_fix_index
  cursor,           \* per core: how far the sift has come
  sum,              \* per core: the loop of gl_avg_spec_virt_time
  avg,              \* per core: the average it returned
  rounds            \* per core: the iterations of run_core so far

locks == <<listWriter, listReaders, groupWriter>>
heapVars == <<heap, heap_index>>
groupVars == <<num_threads, threads_queued, spec_virt_time, virt_lag,
               last_virt_time, runqueue>>
coreVars == <<current_process, pool>>
localVars == <<op, proc, grp, idx, cursor, sum, avg, rounds>>
vars == <<locks, heapVars, groupVars, coreVars, pc, localVars>>

ListFree == listWriter = None /\ listReaders = {}
GroupFree(g) == groupWriter[g] = None

NoSum == [i |-> 0, total |-> 0, count |-> 0]

(* The share of a run of t that a process of group g is charged.           *)
Charge(g, t) == t \div Weight[g]

(* The time_passed of the operation core c is in.  A yield that reports    *)
(* another time than tick_length is more than the code does: both calls of *)
(* doop pass tick_length (688, 694), and with YieldTime = TickLength there *)
(* is nothing to settle and no step of CollapseSvt, ReadIndex or LockFix.  *)
TimePassed(c) == IF op[c] = "yield" THEN YieldTime ELSE TickLength
Diff(c) == Charge(grp[c], TimePassed(c)) - Charge(grp[c], TickLength)

Goto(c, label) == pc' = [pc EXCEPT ![c] = label]

-----------------------------------------------------------------------------
(* main: create_group and enqueue for every process, then register_group;  *)
(* with equal keys the groups are in the heap in the order of their ids.   *)
Init ==
  /\ listWriter = None
  /\ listReaders = {}
  /\ groupWriter = [g \in Groups |-> None]
  /\ heap = [i \in Groups |-> i]
  /\ heap_index = [g \in Groups |-> g]
  /\ num_threads = [g \in Groups |-> Len(InitQueue[g])]
  /\ threads_queued = [g \in Groups |-> Len(InitQueue[g])]
  /\ spec_virt_time = [g \in Groups |-> 0]
  /\ virt_lag = [g \in Groups |-> 0]
  /\ last_virt_time = [g \in Groups |-> 0]
  /\ runqueue = InitQueue
  /\ current_process = [c \in Cores |-> None]
  /\ pool = [c \in Cores |-> <<>>]
  /\ pc = [c \in Cores |-> "loop"]
  /\ op = [c \in Cores |-> "none"]
  /\ proc = [c \in Cores |-> None]
  /\ grp = [c \in Cores |-> None]
  /\ idx = [c \in Cores |-> 0]
  /\ cursor = [c \in Cores |-> 0]
  /\ sum = [c \in Cores |-> NoSum]
  /\ avg = [c \in Cores |-> 0]
  /\ rounds = [c \in Cores |-> 0]

-----------------------------------------------------------------------------
(* run_core and choose.                                                    *)

(* The tick: schedule(core, gl, tick_length, 1).  A core without a process *)
(* neither settles nor re-queues anything.                                 *)
StartTick(c) ==
  /\ pc[c] = "loop"
  /\ rounds[c] < MaxRounds
  /\ rounds' = [rounds EXCEPT ![c] = @ + 1]
  /\ op' = [op EXCEPT ![c] = "sched"]
  /\ LET p == current_process[c] IN
       /\ proc' = [proc EXCEPT ![c] = p]
       /\ grp' = [grp EXCEPT ![c] = IF p = None THEN None ELSE GroupOf[p]]
       /\ Goto(c, IF p = None THEN "peek" ELSE "weight")
  /\ UNCHANGED <<locks, heapVars, groupVars, coreVars, idx, cursor, sum, avg>>

(* TIME_TO_RUN is over: it may be at any iteration.                        *)
Exit(c) ==
  /\ pc[c] = "loop"
  /\ Goto(c, "done")
  /\ UNCHANGED <<locks, heapVars, groupVars, coreVars, localVars>>

(* Case 0 of choose, and the cases with nothing to enqueue or to yield.    *)
RunOn(c) ==
  /\ pc[c] = "choose"
  /\ Goto(c, "loop")
  /\ UNCHANGED <<locks, heapVars, groupVars, coreVars, localVars>>

(* Case 1: take a process from the core's pool and make it runnable.       *)
TakeFromPool(c) ==
  /\ pc[c] = "choose"
  /\ pool[c] # <<>>
  /\ op' = [op EXCEPT ![c] = "enq"]
  /\ proc' = [proc EXCEPT ![c] = Head(pool[c])]
  /\ grp' = [grp EXCEPT ![c] = GroupOf[Head(pool[c])]]
  /\ pool' = [pool EXCEPT ![c] = Tail(@)]
  /\ Goto(c, "enqueue")
  /\ UNCHANGED <<locks, heapVars, groupVars, current_process, idx, cursor,
                 sum, avg, rounds>>

(* Case 2: the running process gives up the core.                          *)
StartYield(c) ==
  /\ pc[c] = "choose"
  /\ current_process[c] # None
  /\ op' = [op EXCEPT ![c] = "yield"]
  /\ proc' = [proc EXCEPT ![c] = current_process[c]]
  /\ grp' = [grp EXCEPT ![c] = GroupOf[current_process[c]]]
  /\ Goto(c, "dec")
  /\ UNCHANGED <<locks, heapVars, groupVars, coreVars, idx, cursor, sum, avg,
                 rounds>>

(* The end of doop() and what follows it: a process that yielded goes to   *)
(* the core's pool.                                                        *)
Return(c) ==
  /\ pc[c] = "return"
  /\ pool' = [pool EXCEPT ![c] = IF op[c] = "yield" THEN <<proc[c]>> \o @ ELSE @]
  /\ Goto(c, IF op[c] = "sched" THEN "choose" ELSE "loop")
  /\ op' = [op EXCEPT ![c] = "none"]
  /\ proc' = [proc EXCEPT ![c] = None]
  /\ grp' = [grp EXCEPT ![c] = None]
  /\ UNCHANGED <<locks, heapVars, groupVars, current_process, idx, cursor, sum,
                 avg, rounds>>

-----------------------------------------------------------------------------
(* yield: grp_dec_nthread, then schedule without re-queueing.              *)
DecNThread(c) ==
  /\ pc[c] = "dec"
  /\ GroupFree(grp[c])
  /\ num_threads' = [num_threads EXCEPT ![grp[c]] = @ - 1]
  /\ Goto(c, "weight")
  /\ UNCHANGED <<locks, heapVars, threads_queued, spec_virt_time, virt_lag,
                 last_virt_time, runqueue, coreVars, localVars>>

-----------------------------------------------------------------------------
(* grp_collapse_spec_virt_time: settle the difference between the tick the *)
(* group was charged for and the time its process had.                     *)

AfterCollapse(c) == IF op[c] = "sched" THEN "enqueue" ELSE "peek"

GetWeight(c) ==
  /\ pc[c] = "weight"
  /\ GroupFree(grp[c])
  /\ Goto(c, IF Diff(c) # 0 THEN "collapse" ELSE AfterCollapse(c))
  /\ UNCHANGED <<locks, heapVars, groupVars, coreVars, localVars>>

CollapseSvt(c) ==
  /\ pc[c] = "collapse"
  /\ GroupFree(grp[c])
  /\ groupWriter' = [groupWriter EXCEPT ![grp[c]] = c]
  /\ spec_virt_time' = [spec_virt_time EXCEPT ![grp[c]] = Wrap(@ + Diff(c))]
  /\ Goto(c, "index")
  /\ UNCHANGED <<listWriter, listReaders, heapVars, num_threads,
                 threads_queued, virt_lag, last_virt_time, runqueue, coreVars,
                 localVars>>

(* The index is read under the group's lock, which does not protect it.    *)
ReadIndex(c) ==
  /\ pc[c] = "index"
  /\ idx' = [idx EXCEPT ![c] = heap_index[grp[c]]]
  /\ groupWriter' = [groupWriter EXCEPT ![grp[c]] = None]
  /\ Goto(c, IF heap_index[grp[c]] = -1 THEN AfterCollapse(c) ELSE "fix")
  /\ UNCHANGED <<listWriter, listReaders, heapVars, groupVars, coreVars, op,
                 proc, grp, cursor, sum, avg, rounds>>

LockFix(c) ==
  /\ pc[c] = "fix"
  /\ ListFree
  /\ listWriter' = c
  /\ cursor' = [cursor EXCEPT ![c] = idx[c]]
  /\ Goto(c, "fix_down")
  /\ UNCHANGED <<listReaders, groupWriter, heapVars, groupVars, coreVars, op,
                 proc, grp, idx, sum, avg, rounds>>

-----------------------------------------------------------------------------
(* gl_heap_fix_index, one level of a sift at a time: the list lock is held *)
(* but the keys are read without the locks of the groups they belong to.   *)
(* The two comparisons of a level (335, 338) read the keys of one moment.  *)

MoveTo(c, j) ==
  /\ heap' = SwapHeap(heap, cursor[c], j)
  /\ heap_index' = SwapIndex(heap, heap_index, cursor[c], j)
  /\ cursor' = [cursor EXCEPT ![c] = j]
  /\ UNCHANGED <<pc, idx, listWriter>>

SiftDownTo(c) ==
  Smallest(heap, NumGroups, threads_queued, spec_virt_time, cursor[c])

(* Down from idx; at the end the sift up starts from the same idx.         *)
SiftDownStep(c) ==
  /\ pc[c] \in {"fix_down", "pick_down"}
  /\ \/ /\ SiftDownTo(c) # cursor[c]
        /\ MoveTo(c, SiftDownTo(c))
     \/ /\ SiftDownTo(c) = cursor[c]
        /\ cursor' = [cursor EXCEPT ![c] = idx[c]]
        /\ Goto(c, IF pc[c] = "fix_down" THEN "fix_up" ELSE "pick_up")
        /\ UNCHANGED <<heapVars, idx, listWriter>>
  /\ UNCHANGED <<listReaders, groupWriter, groupVars, coreVars, op, proc, grp,
                 sum, avg, rounds>>

(* Up; at the end the collapse releases the list lock, schedule keeps it.  *)
SiftUpStep(c) ==
  /\ pc[c] \in {"fix_up", "pick_up"}
  /\ \/ /\ Climbs(heap, threads_queued, spec_virt_time, cursor[c])
        /\ MoveTo(c, Parent(cursor[c]))
     \/ /\ ~Climbs(heap, threads_queued, spec_virt_time, cursor[c])
        /\ cursor' = [cursor EXCEPT ![c] = 0]
        /\ idx' = [idx EXCEPT ![c] = 0]
        /\ Goto(c, IF pc[c] = "fix_up" THEN AfterCollapse(c) ELSE "take")
        /\ listWriter' = IF pc[c] = "fix_up" THEN None ELSE listWriter
        /\ UNCHANGED heapVars
  /\ UNCHANGED <<listReaders, groupWriter, groupVars, coreVars, op, proc, grp,
                 sum, avg, rounds>>

-----------------------------------------------------------------------------
(* enqueue, and set_grp_spec_virt_time for a group that was empty.         *)

AfterEnqueue(c) == IF op[c] = "sched" THEN "peek" ELSE "return"

(* The critical section of enqueue: the process goes to the head of the    *)
(* queue, and the two counts of its group grow.                            *)
EnqueueWith(c, threads, queued) ==
  LET g == grp[c] IN
  /\ pc[c] = "enqueue"
  /\ GroupFree(g)
  /\ runqueue' = [runqueue EXCEPT ![g] = <<proc[c]>> \o @]
  /\ num_threads' = [num_threads EXCEPT ![g] = @ + threads]
  /\ threads_queued' = [threads_queued EXCEPT ![g] = @ + queued]
  /\ proc' = [proc EXCEPT ![c] = None]
  /\ Goto(c, IF threads_queued[g] = 0 THEN "enq_avg" ELSE AfterEnqueue(c))
  /\ UNCHANGED <<locks, heapVars, spec_virt_time, virt_lag, last_virt_time,
                 coreVars, op, grp, idx, cursor, sum, avg, rounds>>

(* Bugs for the runs to catch: every enqueue is taken for a new process;   *)
(* none is; only a new process is counted as queued.                       *)
EnqueueAllNew(c) == EnqueueWith(c, 1, 1)
EnqueueNoneNew(c) == EnqueueWith(c, 0, 1)
EnqueueNewOnly(c) ==
  LET new == IF op[c] = "enq" THEN 1 ELSE 0 IN EnqueueWith(c, new, new)

(* enqueue: is_new when a process comes from the pool.                     *)
EnqueueProc(c) == EnqueueWith(c, IF op[c] = "enq" THEN 1 ELSE 0, 1)

(* Negative lag always carries over, positive lag only while it is ahead.  *)
SetSvt(c) ==
  LET g == grp[c]
      initial == IF virt_lag[g] > 0 /\ last_virt_time[g] > avg[c]
                   THEN last_virt_time[g]
                 ELSE IF virt_lag[g] < 0 THEN Wrap(avg[c] - virt_lag[g])
                 ELSE avg[c]
  IN
  /\ pc[c] = "set_svt"
  /\ GroupFree(g)
  /\ spec_virt_time' = [spec_virt_time EXCEPT ![g] = initial]
  /\ avg' = [avg EXCEPT ![c] = 0]
  /\ Goto(c, AfterEnqueue(c))
  /\ UNCHANGED <<locks, heapVars, num_threads, threads_queued, virt_lag,
                 last_virt_time, runqueue, coreVars, op, proc, grp, idx,
                 cursor, sum, rounds>>

-----------------------------------------------------------------------------
(* gl_avg_spec_virt_time: enqueue leaves its own group out, dequeue none.  *)

LockAvg(c) ==
  /\ pc[c] \in {"enq_avg", "deq_avg"}
  /\ listWriter = None
  /\ listReaders' = listReaders \cup {c}
  /\ Goto(c, IF pc[c] = "enq_avg" THEN "enq_sum" ELSE "deq_sum")
  /\ UNCHANGED <<listWriter, groupWriter, heapVars, groupVars, coreVars,
                 localVars>>

(* grp_get_spec_virt_time: an empty group stands for INT_MAX.              *)
GetSvt(g) == IF threads_queued[g] = 0 THEN IntMax ELSE spec_virt_time[g]

(* Bug for a run to catch: the ignored group is skipped without going on   *)
(* to the next one.                                                        *)
SumGroupStuck(c) ==
  LET s == sum[c]
      g == heap[s.i]
  IN
  /\ pc[c] \in {"enq_sum", "deq_sum"}
  /\ s.i < NumGroups
  /\ GroupFree(g)
  /\ sum' = IF pc[c] = "enq_sum" /\ g = grp[c] THEN sum
            ELSE [sum EXCEPT ![c] = [i |-> s.i + 1,
                                     total |-> Wrap(s.total + GetSvt(g)),
                                     count |-> s.count + 1]]
  /\ UNCHANGED <<locks, heapVars, groupVars, coreVars, pc, op, proc, grp, idx,
                 cursor, avg, rounds>>

SumGroup(c) ==
  LET s == sum[c]
      g == heap[s.i]
      ignored == pc[c] = "enq_sum" /\ g = grp[c]
  IN
  /\ pc[c] \in {"enq_sum", "deq_sum"}
  /\ s.i < NumGroups
  /\ \/ /\ ignored
        /\ sum' = [sum EXCEPT ![c].i = @ + 1]
     \/ /\ ~ignored
        /\ GroupFree(g)
        /\ sum' = [sum EXCEPT ![c] = [i |-> s.i + 1,
                                      total |-> Wrap(s.total + GetSvt(g)),
                                      count |-> s.count + 1]]
  /\ UNCHANGED <<locks, heapVars, groupVars, coreVars, pc, op, proc, grp, idx,
                 cursor, avg, rounds>>

UnlockAvg(c) ==
  LET s == sum[c] IN
  /\ pc[c] \in {"enq_sum", "deq_sum"}
  /\ s.i = NumGroups
  /\ listReaders' = listReaders \ {c}
  /\ avg' = [avg EXCEPT ![c] = IF s.count = 0 THEN 0 ELSE DivC(s.total, s.count)]
  /\ sum' = [sum EXCEPT ![c] = NoSum]
  /\ Goto(c, IF pc[c] = "enq_sum" THEN "set_svt" ELSE "set_lag")
  /\ UNCHANGED <<listWriter, groupWriter, heapVars, groupVars, coreVars, op,
                 proc, grp, idx, cursor, rounds>>

-----------------------------------------------------------------------------
(* schedule, from gl_peek_min_group on, and dequeue.                       *)

(* gl_peek_min_group at the end of what schedule does to current_process   *)
(* (left) before it; a core that finds a group keeps the list lock.        *)
PeekWith(c, left, empty, writer) ==
  LET g == heap[0] IN
  /\ pc[c] = "peek"
  /\ ListFree
  /\ current_process' = [current_process EXCEPT ![c] = left]
  /\ \/ /\ empty
        /\ grp' = [grp EXCEPT ![c] = None]
        /\ Goto(c, "return")
        /\ UNCHANGED listWriter
     \/ /\ ~empty
        /\ grp' = [grp EXCEPT ![c] = g]
        /\ Goto(c, "pick")
        /\ listWriter' = writer
  /\ UNCHANGED <<listReaders, groupWriter, heapVars, groupVars, pool, op, proc,
                 idx, cursor, sum, avg, rounds>>

RootEmpty == threads_queued[heap[0]] = 0

(* Bugs for the runs to catch: current_process is not cleared; the count   *)
(* is not looked at; the list lock is released before the group's is had.  *)
PeekKeepsCurrent(c) == PeekWith(c, current_process[c], RootEmpty, c)
PeekAnyRoot(c) == PeekWith(c, None, FALSE, c)
PeekUnlocked(c) == PeekWith(c, None, RootEmpty, None)

(* The core drops its process and looks at the root of the heap alone; the *)
(* root's count is read without its lock.                                  *)
PeekMin(c) == PeekWith(c, None, RootEmpty, c)

(* gl_update_group_svt, the group charged for a full tick (641), down to   *)
(* where its fix starts.  The group's lock (375) comes while the list lock *)
(* is held; waiting for it separates PeekMin from this step.               *)
LockPick(c) ==
  LET g == grp[c] IN
  /\ pc[c] = "pick"
  /\ GroupFree(g)
  /\ groupWriter' = [groupWriter EXCEPT ![g] = c]
  /\ spec_virt_time' = [spec_virt_time EXCEPT
                          ![g] = Wrap(@ + Charge(g, TickLength))]
  /\ idx' = [idx EXCEPT ![c] = heap_index[g]]
  /\ cursor' = [cursor EXCEPT ![c] = heap_index[g]]
  /\ Goto(c, "pick_down")
  /\ UNCHANGED <<listWriter, listReaders, heapVars, num_threads,
                 threads_queued, virt_lag, last_virt_time, runqueue, coreVars,
                 op, proc, grp, sum, avg, rounds>>

(* The count changes after the heap was fixed, and is not fixed for.       *)
TakeThread(c) ==
  /\ pc[c] = "take"
  /\ threads_queued' = [threads_queued EXCEPT ![grp[c]] = @ - 1]
  /\ listWriter' = None
  /\ Goto(c, "dequeue")
  /\ UNCHANGED <<listReaders, groupWriter, heapVars, num_threads,
                 spec_virt_time, virt_lag, last_virt_time, runqueue, coreVars,
                 localVars>>

(* dequeue up to its early return, leaving the group's lock with keeper.   *)
DequeueWith(c, keeper) ==
  LET g == grp[c] IN
  /\ pc[c] = "dequeue"
  /\ runqueue' = [runqueue EXCEPT ![g] = Tail(@)]
  /\ current_process' = [current_process EXCEPT ![c] = Head(runqueue[g])]
  /\ groupWriter' = [groupWriter EXCEPT ![g] = keeper]
  /\ Goto(c, IF threads_queued[g] = 0 THEN "deq_avg" ELSE "return")
  /\ UNCHANGED <<listWriter, listReaders, heapVars, num_threads,
                 threads_queued, spec_virt_time, virt_lag, last_virt_time,
                 pool, localVars>>

(* Bug for a run to catch: the group stays locked over the average.        *)
DequeueLocked(c) ==
  DequeueWith(c, IF threads_queued[grp[c]] = 0 THEN c ELSE None)

Dequeue(c) == DequeueWith(c, None)

(* The group may have been enqueued to since: the lag is not set then.     *)
SetLag(c) ==
  LET g == grp[c] IN
  /\ pc[c] = "set_lag"
  /\ GroupFree(g)
  /\ \/ /\ threads_queued[g] > 0
        /\ UNCHANGED <<virt_lag, last_virt_time>>
     \/ /\ threads_queued[g] <= 0
        /\ virt_lag' = [virt_lag EXCEPT ![g] = Wrap(avg[c] - spec_virt_time[g])]
        /\ last_virt_time' = [last_virt_time EXCEPT ![g] = spec_virt_time[g]]
  /\ avg' = [avg EXCEPT ![c] = 0]
  /\ Goto(c, "return")
  /\ UNCHANGED <<locks, heapVars, num_threads, threads_queued, spec_virt_time,
                 runqueue, coreVars, op, proc, grp, idx, cursor, sum, rounds>>

-----------------------------------------------------------------------------
Core(c) ==
  \/ StartTick(c) \/ Exit(c) \/ RunOn(c) \/ TakeFromPool(c) \/ StartYield(c)
  \/ Return(c) \/ DecNThread(c) \/ GetWeight(c) \/ CollapseSvt(c)
  \/ ReadIndex(c) \/ LockFix(c) \/ SiftDownStep(c) \/ SiftUpStep(c)
  \/ EnqueueProc(c) \/ SetSvt(c) \/ LockAvg(c) \/ SumGroup(c) \/ UnlockAvg(c)
  \/ PeekMin(c) \/ LockPick(c) \/ TakeThread(c) \/ Dequeue(c) \/ SetLag(c)

(* main joins the threads and the program ends.                            *)
Terminated == \A c \in Cores : pc[c] = "done"
Terminating == Terminated /\ UNCHANGED vars

Next == (\E c \in Cores : Core(c)) \/ Terminating

Spec == Init /\ [][Next]_vars

(* A thread that can go on eventually does: it is pinned to a core of its  *)
(* own.  Nothing more is asked of the locks, pthread promises no order.    *)
FairSpec == Spec /\ \A c \in Cores : WF_vars(Core(c))

-----------------------------------------------------------------------------
Labels == {"loop", "choose", "dec", "weight", "collapse", "index", "fix",
           "fix_down", "fix_up", "enqueue", "enq_avg", "enq_sum", "set_svt",
           "peek", "pick", "pick_down", "pick_up", "take", "dequeue",
           "deq_avg", "deq_sum", "set_lag", "return", "done"}

LocksType ==
  /\ listWriter \in Cores \cup {None}
  /\ listReaders \in SUBSET Cores
  /\ groupWriter \in [Groups -> Cores \cup {None}]

HeapType ==
  /\ heap \in [Groups -> Groups]
  /\ heap_index \in [Groups -> Groups]

CountsType ==
  /\ num_threads \in [Groups -> Int]
  /\ threads_queued \in [Groups -> Nat]

TimesType ==
  /\ spec_virt_time \in [Groups -> Int32]
  /\ virt_lag \in [Groups -> Int32]
  /\ last_virt_time \in [Groups -> Int32]

QueuesType ==
  /\ runqueue \in [Groups -> Seq(Procs)]
  /\ pool \in [Cores -> Seq(Procs)]

ControlType ==
  /\ pc \in [Cores -> Labels]
  /\ op \in [Cores -> {"none", "sched", "yield", "enq"}]
  /\ rounds \in [Cores -> 0 .. MaxRounds]

HandType ==
  /\ current_process \in [Cores -> Procs \cup {None}]
  /\ proc \in [Cores -> Procs \cup {None}]
  /\ grp \in [Cores -> Groups \cup {None}]

SiftType ==
  /\ idx \in [Cores -> Groups]
  /\ cursor \in [Cores -> Groups]

AverageType ==
  /\ sum \in [Cores -> [i : 0 .. NumGroups, total : Int32, count : Nat]]
  /\ avg \in [Cores -> Int32]

(* Every variable keeps its type: virtual times and lags stay ints, the    *)
(* count of queued threads does not go below zero, no index leaves the     *)
(* heap, and every label the cores reach is one of those above.            *)
TypeOK ==
  /\ LocksType
  /\ HeapType
  /\ CountsType
  /\ TimesType
  /\ QueuesType
  /\ ControlType
  /\ HandType
  /\ SiftType
  /\ AverageType

(* The heap and the indices the groups keep of it agree at every step,     *)
(* also within a sift: gl_heap_swap under the list lock keeps them inverse *)
(* of each other, whoever reads an index without that lock.                *)
HeapIndexed == \A g \in Groups : heap[heap_index[g]] = g

(* A core at the end of a pick has taken a thread off the count but not    *)
(* yet off the queue.                                                      *)
Taking(g) == \E c \in Cores : pc[c] = "dequeue" /\ grp[c] = g

(* threads_queued counts the run queue (assert_threads_queued_correct),    *)
(* except between the decrement of schedule and the removal of dequeue,    *)
(* with the group locked, when it is one less.                             *)
QueueCount ==
  \A g \in Groups :
    Len(runqueue[g]) = threads_queued[g] + (IF Taking(g) THEN 1 ELSE 0)

(* The assert of schedule (645) and the head of the queue that dequeue     *)
(* dereferences: the group that gl_peek_min_group saw non-empty, without   *)
(* its lock, still has a thread when schedule comes to take one, however   *)
(* many cores enqueue to it or pick from it meanwhile.                     *)
PickNeverEmpty ==
  \A c \in Cores :
    /\ pc[c] \in {"pick", "pick_down", "pick_up", "take"} => threads_queued[grp[c]] > 0
    /\ pc[c] = "dequeue" => runqueue[grp[c]] # <<>>

(* The assert of grp_dec_nthread (543): a process that leaves its group    *)
(* was counted by it and is not one of those queued, although another core *)
(* may be taking a thread of the group off the queue.                      *)
LeaverCounted ==
  \A c \in Cores :
    pc[c] = "dec" => num_threads[grp[c]] - 1 >= threads_queued[grp[c]]

(* The processes core c holds outside every queue and pool.  schedule has  *)
(* put its process back on the queue before it clears current_process: in  *)
(* between the core no longer owns what current_process names.             *)
Requeued(c) == op[c] = "sched" /\ pc[c] \in {"enq_avg", "enq_sum", "set_svt", "peek"}
Hand(c) == (IF Requeued(c) THEN {} ELSE {current_process[c], proc[c]}) \ {None}

Occurrences(s, p) == Cardinality({i \in 1 .. Len(s) : s[i] = p})

(* Every process is in exactly one place - once on the queue of its own    *)
(* group, in one core's hands, or once in one pool - whatever the cores    *)
(* interleave: none is lost, run by two cores or linked into two lists     *)
(* through its one next field.                                             *)
OneOwner ==
  \A p \in Procs :
    LET queues == {g \in Groups : Occurrences(runqueue[g], p) > 0}
        hands == {c \in Cores : p \in Hand(c)}
        pools == {c \in Cores : Occurrences(pool[c], p) > 0}
    IN  /\ Cardinality(queues) + Cardinality(hands) + Cardinality(pools) = 1
        /\ \A g \in queues : g = GroupOf[p] /\ Occurrences(runqueue[g], p) = 1
        /\ \A c \in pools : Occurrences(pool[c], p) = 1

(* Core d holds what core c is waiting for at its pc.                      *)
WaitsFor(c, d) ==
  \/ pc[c] \in {"peek", "fix"} /\ (listWriter = d \/ d \in listReaders)
  \/ pc[c] \in {"enq_avg", "deq_avg"} /\ listWriter = d
  \/ /\ pc[c] \in {"dec", "weight", "collapse", "enqueue", "set_svt", "pick", "set_lag"}
     /\ groupWriter[grp[c]] = d
  \/ /\ pc[c] \in {"enq_sum", "deq_sum"}
     /\ sum[c].i < NumGroups
     /\ groupWriter[heap[sum[c].i]] = d

(* The lock invariant of the file's head, by what it is for: no set of     *)
(* cores waits in a circle on each other's list and group locks, and no    *)
(* core on its own.                                                        *)
NoLockCycle ==
  \A S \in SUBSET Cores : S # {} => \E c \in S : \A d \in S : ~WaitsFor(c, d)

(* The processes as ProcLifecycle sees them: one that yields is parked     *)
(* from grp_dec_nthread on, one that is brought back until enqueue.        *)
SetOf(s) == {s[i] : i \in 1 .. Len(s)}
Leaving(c) == op[c] = "yield" /\ pc[c] # "dec"

Lifecycle == INSTANCE ProcLifecycle WITH
  queued <- UNION {SetOf(runqueue[g]) : g \in Groups},
  running <- [c \in Cores |->
                IF Requeued(c) \/ (Leaving(c) /\ current_process[c] = proc[c])
                THEN None ELSE current_process[c]],
  parked <- [c \in Cores |->
               SetOf(pool[c]) \cup
               (IF Leaving(c) \/ op[c] = "enq" THEN {proc[c]} \ {None} ELSE {})],
  members <- num_threads

(* The concurrent scheduler implements ProcLifecycle: every step of a core *)
(* dispatches, preempts, parks or brings back exactly one process, or none.*)
LifecycleSpec == Lifecycle!Spec

(* A simulation that may run MaxRounds iterations ends: no core waits for  *)
(* a lock for ever and no sift or sum goes round for ever.                 *)
Termination == <>Terminated

-----------------------------------------------------------------------------
(* What a test of the repository says and the code does not do.  It is     *)
(* about a single core, so that no answer is merely out of date when it    *)
(* arrives.                                                                *)

(* test-heap.c:100-106, "only g4 remains non-empty => peek must return     *)
(* g4": a core is left idle by schedule only when no group has a thread.   *)
IdleMeansNoWork ==
  \A c \in Cores :
    Cores = {c} /\ pc[c] = "choose" /\ current_process[c] = None
      => \A g \in Groups : threads_queued[g] = 0

=============================================================================
