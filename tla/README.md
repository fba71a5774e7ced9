# Verification of global-weight-sched-pthread

TLA+ models of the schedulers in this repository, the TLC configurations that
check them on small instances, and TLAPS proofs for any instance. All file and
line numbers below are of `src/`.

## 1. The system

The repository is a study of *strict* and *lenient* weighted CPU sharing
between groups of threads. Most programs are simulators: one pthread per core
loops over `schedule()` and a random choice of running, enqueueing a process
from its pool, or dequeueing its process. The rest are sched_ext BPF
schedulers, whose handlers the kernel calls on all CPUs at once.

| component | state | operations | modelled by |
|---|---|---|---|
| strict weights, reader-writer locks (`strict-weight/global-accounting-rlock.c`) | heap of groups, per group counts, virtual time, lag and run queue, per core process and pool; a list lock and one lock per group | `schedule`, `enqueue`, `dequeue`, `yield`, `choose`, `run_core`, `gl_*`, `grp_*` | `RlockScheduler`, `ProcLifecycle` |
| its heap (`gl_heap_*`, `pthread-sim/test-heap.c`) | array, size, capacity, `heap_index` | add, delete, fix, peek | `GroupHeapOps`, `GroupHeap` |
| strict weights by shares of cores (`strict-weight/distr-weight.c`) | list and weights of groups, per core a list of local groups with shares | `schedule`, `enqueue`, `dequeue`, `distribute_weight` | `DistrWeight` |
| lenient weights (`lenient-weight/global-lock.c`) | list of groups, whole cores per group, run queues | `schedule`, `enqueue`, `dequeue` | `LenientLock` |
| flatcg, nodes and tasks (`bpf-stuff/scx_flatcg.bpf.c`) | rbtree of cgroups, per cgroup stash, `queued` and dispatch queue, per CPU `cur_cgid` | `select_cpu`, `enqueue`, `dispatch`, `try_pick_next_cgroup`, cgroup init and exit | `FlatcgQueue` |
| flatcg, virtual times (same file) | per cgroup `cvtime` and `cvtime_delta`, `cvtime_now`, per CPU `cur_at`, per task `bypassed_at` | `stopping`, `cgrp_cap_budget`, the charges in `dispatch` and `try_pick_next_cgroup` | `FlatcgTime` |
| flatcg, weight tree (same file, `scx_flatcg.h`) | per cgroup `nr_runnable`, `nr_active`, `child_weight_sum`, `hweight`, generation | `runnable`, `quiescent`, `set_weight`, `cgrp_refresh_hweight` | `FlatcgWeights` |
| strict weights, one list and one lock (`strict-weight/global-accounting.c`) | list of groups with count, virtual time, speculation list and run queue, per core process and pool | `schedule`, `enqueue`, `dequeue`, `run_core` | `GlobalAccounting` |
| further drafts (`global-accounting-cas.c`, `lenient-weight/distr.c`) | like the above | like the above | not modelled, see 7 |
| unfinished BPF scheduler (`scx_h.bpf.c`, `scx_h.c`) | copy of the weight tree, tree of groups | `enqueue`, weight tree | not modelled, see 7 |
| loaders, workloads, scripts, measurements | – | – | not modelled |

How they interact. The simulators are separate programs. Within
`global-accounting-rlock.c` the cores meet in the heap (under the list lock),
in the groups (each under its lock) and in processes handed from one core to
another through a run queue. In flatcg the CPUs meet in the rbtree and the
weight tree (both under `cgv_tree_lock`, dropped between steps), in atomic
fields (`queued`, the stash, `nr_runnable`, `hweight_gen`) and in dispatch
queues, which the kernel keeps. The weight tree provides `hweight` to the
charging of virtual time; no control flow of the queue protocol depends on it,
so the two are separate modules. The virtual times order the rbtree and are
charged by the handlers of the queue protocol: `FlatcgTime` extends `FlatcgQueue`
action by action.

What is hard:

- **rlock**: a pick looks at a group without its lock and relies on it later; a
  process is put back on its queue before its core forgets it; keys change
  outside the list lock; list and group locks are nested.
- **flatcg queue**: enqueuer and picker coordinate through three atomics and a
  queue without a common lock, while cgroups exit.
- **flatcg weights**: walks of the hierarchy drop the lock at each level and
  overtake each other; cached shares are validated by a generation number only.
- **flatcg virtual times**: a charge is made in advance, corrected later through
  a delta, and the delta is taken over while other CPUs add to it without the
  lock.
- **distr-weight, global-lock, global-accounting**: one mutex, so the difficulty is in the
  arithmetic (dividing cores), and in sequences of legal calls after which
  lists, counts and weights no longer agree.

`PROJECT.json` lists the hazards at their lines, also those of the parts that
are not modelled.

## 2. Modules

`MC*` modules and `*.cfg` files give the instances; everything else is
parameterised. Each module says at its head what a step is.

### GroupHeapOps, GroupHeap

`GroupHeapOps` has the heap's algorithms as operators on (array, index map,
keys): `Before`, `Smallest`, the swap, the sifts, `FixIndex`. `GroupHeap` is the
heap used by one thread, as `test-heap.c` does: register (with growth of the
array), unregister from any place, change of key followed by a fix. A sift is a
recursive function of its rounds, as the cascades of the source are loops.

### RlockScheduler, ProcLifecycle

`pc[c]` names the next statement of core *c*; a step is what a core does
between two points at which others may be observed. A critical section on one
group's lock is one step. The heap's critical sections are several, since keys
change under the group locks meanwhile: a sift goes one level per step, the
average one group per step with the list lock read-held. The two comparisons of
a level (335, 338) are not separated, though another core might change a key
between them: the order of the heap is not a property here. `next` pointers are
sequences. `YieldTime` is the time a yielding core reports: half a tick, so that
`grp_collapse_spec_virt_time` has a difference to collapse (the driver passes
`tick_length` for both, 688 and 694, so that 493-503 never runs; the violation run
uses that). The passing runs thus have more behaviours than the code. Ints have the width
`IntMax` and wrap. `MaxRounds` bounds the iterations within `TIME_TO_RUN`. The
fallthrough of `doop`'s switch is covered: the operations it would add are
traces of the model. The comment on lock order at 28-30 contradicts itself;
`NoLockCycle` states what it is for.

`ProcLifecycle` is the abstract specification: a process is queued, running or
parked, and a step moves one process along one arc (dispatch, preempt, park,
unpark), keeping `num_threads`. The refinement mapping is at the end of
`RlockScheduler`: queued is the union of the run queues, running is
`current_process` except where `schedule` has already requeued it, parked is
the pools and the process in the hands of `yield` or of an `enqueue` to come.

### DistrWeight

One step per operation. A share is a whole number of 1/`Unit` of a core, exact
because `Unit` is a multiple of every total weight that occurs: the rounding
residues of the doubles are not modelled. `distribute_weight` is two recursive
functions: `DistributeWeight` goes group after group and gives each either a core
per thread (`GiveCores`, 344) or its share of the rest by weight (`GiveShare`, 381);
within each, `Assign` goes core after core and takes what there is (`Amount`,
`Take`). The virtual time of a new local group
is never initialised in the code, so the model lets a core pick any local group.
Sorting an empty list (135) writes through `groups_arr[-1]`: a choice between
the program's end (`aborted`) and no visible effect. A failed assert sets
`aborted`, after which nothing happens.

### LenientLock

One step per critical section; `main` enqueues the processes one by one before
the cores start. The list of groups is a sequence because its order matters:
clearing a group's `next` before unlinking it (183) cuts off what follows. The
loop at 143, which is to make the scheduler work conserving, never runs
(`curr_group` is NULL there) and has no counterpart in `ScheduleFrom`; what the
comment at 139 says of it is `WorkConserving`, which fails (finding 4).
`SharesTaken` is what remains true: each group has at least its share.
`MaxWeight` bounds `total_weight`, which grows whenever a group that was cut off
is enqueued again.

### FlatcgQueue

A step per atomic operation, map lookup or critical section of `enqueue`,
`dispatch` and `try_pick_next_cgroup`. `cgv_node` is at one of stash, tree and a
CPU's hands. Virtual times are abstracted: any cgroup on the tree may be first,
and a current cgroup's slice may have expired or not. `scx_bpf_dsq_insert` takes
effect at the call, as the source's comments assume; a task may be consumed
while its enqueuer is still in the handler, which the kernel's locks rule out in
part, so the model has more behaviours and its invariants are the stronger for
it. `FALLBACK_DSQ` is left out. Kernel actions (a task leaves its CPU, a cgroup
becomes unfindable after its tasks have left) are marked external in the map.
A move from a destroyed dispatch queue finds nothing. An init of a cgroup that
fails (945-1001) is no step, and an enqueuer that finds no stash entry (306-309)
returns, where `scx_bpf_error` also stops the scheduler: again more behaviours.

### FlatcgTime

Extends `FlatcgQueue`: each action conjoins one of `FlatcgQueue` with the times
that code reads and writes, and `TimeSpec` refines `FlatcgQueue!Spec` (proved).
`at[cpu]` names where a CPU is between two steps of `FlatcgQueue`: it has read
the delta and not yet subtracted it (`"cap"`, the two evaluations at 274, with
`cgv_tree_lock` held), compared `cvtime_now` and not yet set it (706 to 707), left
a current cgroup and not yet settled its slice (863), or charged a bypassed task
that has yet to leave its CPU. The first node of the tree is now the one of
least `cvtime`, and a slice expires when `since` has reached `Slice`. History
variables: `ledger`, what has been charged; `credit`, what was charged ahead of
service; `bypassTime`, the part charged without the lock. Time passes per CPU
and not within its handlers. A cgroup has one `Price` (the hierarchy at rest), a whole
number, so that what the divisions at 760 and 865 round off is left out; the
two reads of `cvtime_now` in `cgrp_cap_budget` are one, and virtual times of tasks
within a cgroup are left out, as is `cvtime_copy`, which is only printed.
`MaxRun`, `MaxRounds` and `MaxBypass` bound the runs, which therefore stop, and
deadlock is not checked.

### GlobalAccounting

One step per critical section of `global_lock`; `main` enqueues the processes one
by one before the cores start. Of a group's speculation list only the number of
nodes per core matters. What a core expected and what it got are the same at
every call (`TICK_LENGTH`, and weights that divide it), so the correction at
255-261 is not in the model, nor is the search of the run queue for a process that
does not run (328-346), which no caller hands to `dequeue`. A failed assertion sets `failed`, after which
nothing happens. No bound is needed: virtual times only grow and a group at
`IntMax` is not picked any more (274).

### FlatcgWeights

The hierarchy is constant. A step per level of a walk (one critical section of
`cgv_tree_lock`), per level of a refresh, and per atomic operation on
`nr_runnable` and `hweight_gen`. A task is in one handler at a time (its run
queue's lock), and this is what keeps `nr_active` from wrapping: a wake-up that
has not walked yet keeps `nr_runnable` at least 1, so that no sleep of another
task walks before it. Runs are bounded by `MaxWakes`, `MaxReweights` and
`Reweighted`, so they stop, and deadlock is not checked.

## 3. Runs

All passing runs check that deadlock is absent unless stated.

| run | instance | shows |
|---|---|---|
| `group_heap` | 6 groups, keys 0..1, array grown from 2 | heap order, with an index map that agrees with the array; peek is the minimum. Six groups are the least for which the last entry, put in place of a removed one, must go *up* |
| `rlock_two_threads` | 2 cores, 2 groups of 2 processes, 2 rounds, cores symmetric | types; `HeapIndexed`; `QueueCount`; `PickNeverEmpty` (assert at 645); `LeaverCounted` (assert at 543); `OneOwner`; `NoLockCycle` |
| `rlock_lifecycle` | 2 cores, 2 groups of 1 process, 2 rounds, fair | the refinement of `ProcLifecycle`; the simulation ends |
| `rlock_idle` (violation) | 1 core, 2 groups of 1 process | the core is left idle while a thread is queued: the root is an empty group and nothing fixed the heap when it became so |
| `distr_weight` | 3 cores, groups of weights 1, 2, 1, 1, 5 processes | counts and lists agree after any sequence of calls; every division of the cores is max-min fair by weight. Deadlock not checked: a failed assert ends the program |
| `lenient_lock` | 3 cores, groups of weights 2, 1, 1, 5 processes, total weight to 7 | no process in two places; `core_running_on` is right; the shares fit the cores; the total covers the listed groups; every listed group runs on at least its share of the cores or with all its threads, and no other runs |
| `lenient_last` (violation) | the same | a dequeue takes groups with threads off the list |
| `lenient_idle` (violation) | the same | two cores idle while every group has a process queued: shares are rounded down and nothing fills the cores left over |
| `flatcg_stranded` (violation) | 2 CPUs, 2 cgroups, 3 tasks, 2 retries, symmetric | a task stays in the queue of a cgroup that is in no tree, with no CPU in a handler |
| `flatcg_weights` | 2 CPUs, hierarchy R{A{B,C},D}, 4 tasks, 3 wake-ups or sleeps, 1 change of weight (A or B), 1 = 4/4 | no wrap of `nr_active`; sums are those of the active children in every state; counts are right once walks are over; what is cached as current is right unless a weight changed; current shares cover the CPUs |
| `flatcg_time` | 2 CPUs, 1 cgroup, 2 tasks, slice 2, runs to 3, 2 picks in all, 2 units of bypassed time, 2 retries, symmetric | a node is never duplicated nor, while its cgroup lives, lost; a task in the queue when `queued` is cleared is looked at or announced; node and delta together hold every charge; a charge made between the two reads of the delta counts twice and never three times; a cgroup is not served ahead of its charges, but for one slice per dispatch that gives up. Deadlock not checked, see 2 |
| `global_accounting` | 2 cores, groups of 2, 1, 1 processes and costs 1, 2, 2, bonus 2, INT_MAX 5, cores symmetric | no assertion fails (111, 196, 232, 255, 369); counts agree with queues; the list is that of the groups with threads; no process is in two places; a core idles only if every thread queued is of a group whose virtual time has reached INT_MAX |

Why the bounds are enough. Two cores or CPUs are what every race in these
programs is between: a handler and one intruder. Two processes of one group let
one be queued while another runs, the case behind `QueueCount`, `OneOwner` and
the cgroup with both a picker and an enqueuer. One cgroup is enough for `flatcg_time`,
whose properties, those of the queue included, are of one cgroup each (and proved
for any number): what two would add is the order in which
they are picked, and the times of one are only compared with `cvtime_now`, which
the second picker of the same cgroup winds as well. There a run of 3 overruns
the slice of 2 and one of less leaves some of it; the floor of the budget, the
double reading and the dispatch that gives up are all reached. Two rounds let a core that
yielded enqueue again, and the other core complete a tick in between. The
unequal weights in `distr_weight` and `lenient_lock` make each group
underserved, overserved and truncated in turn, and four groups of a thread each
on three cores make one core be split between two of them. INT_MAX of 5 in
`global_accounting` is reached after a few ticks, while some groups lag behind. Three wakes are a wake-up, a
sleep that overtakes it, and one in a sibling; the third level of the hierarchy
makes an inner cgroup have a parent and two children. What a larger instance
could add is covered by proof where section 5 says so.

## 4. Fairness

Only `rlock_lifecycle` needs any: weak fairness of each core's next step. The
threads are pinned to cores of their own and preempted by nothing of the
program, so each goes on running. A core waiting for a lock is only enabled when
the lock is free, which in general asks for strong fairness; here the other
cores run a bounded number of rounds, so in the end nobody else holds it and
weak fairness is enough. For the others safety is stated; in particular it is
not claimed that a cgroup is ever picked (the order of the tree decides, and it
is abstracted).

## 5. Proofs

TLAPS proves for every value of the constants, from their named assumptions only.
These say what the code's own declarations and `main` do: sizes are natural and
weights positive, each process has a group and is enqueued once (`Creation` names
each process once, the initial queues hold each), `None` is nothing else, the
cgroups are a tree whose tasks are at its leaves, and what is counted or summed
over (cores, groups, processes, cgroups) is finite. `UnitAssumption` of
`DistrWeight` is the modelling decision of section 2.

**DataFacts** — no theorem about a program, but the lemmas that the others need:
that a function defined by recursion over numbers exists and is what its equation
says, sums over finite sets (`MapThenSumSet`: empty, one element more or less, one
summand changed, pointwise sum, proportions, disjoint unions, grouping), the first
of the least among finitely many, lists without repetition, and concatenations.
They rest on induction stated with a set (`NumberInduction`,
`SubsetInduction`): the claim is put into a set of the numbers or subsets it
holds for, which needs no operator as a parameter.

**RlockSchedulerProofs** — `TypeCorrect`, `HeapStaysIndexed`,
`CountsMatchQueues`, `PicksFindThreads`, `LocksAreOrdered`, with

    IInv == TypeOK /\ LocalOK /\ LocksOK /\ HeapIndexed /\ QueueCount /\ PickNeverEmpty

`LocalOK` says which locals are set at which `pc`, without which a step's
`grp[c]` need not be a group. `LocksOK` says which lock is held at which `pc`:
`PickNeverEmpty` and `QueueCount` only survive the steps of other cores because
a core between "pick" and "dequeue" holds what excludes them. Conversely
`TypeOK` needs `PickNeverEmpty` (a count never goes below 0, the head of a queue
is a process), so the conjuncts are proved together; each has a lemma with one
step per action that disturbs it. `LocksAreOrdered` follows from `LocksOK`: a
core that holds a group's lock waits for nothing, and one that holds the list
lock waits for a group's lock at most.

In the same module `OneOwnerEach`, `LeaversAreCounted` and
`ImplementsLifecycle`, with

    OwnInv == IInv /\ HandOK /\ ListsOK /\ Owned /\ MembersCounted

`HandOK` says what a core has in its hands at each `pc` of each operation:
`schedule` has its process twice, as `p` and as `current_process`, until
`enqueue`, and a `yield` until it clears `current_process`. `Owned`: of all run
queues, hands and pools exactly one has a given process. `MembersCounted`: the
count of a group is that of its processes that are not parked, from which the
assert at 543 follows: the one that leaves is counted and not queued. Under `OwnInv` each step is
one arc of `ProcLifecycle` or none, so the refinement that `rlock_lifecycle`
checks on a small instance holds for all.

**GroupHeapProofs** — `TypeCorrect`, `StaysOrdered`, `PeeksLeast`. The inductive
invariant is what the run checks, `TypeOK` and `HeapOrdered`, in terms of the
operators (`IsHeap`). The work is in the sifts: within one the order holds but
around, below or above one place (`ButAround`, `ButBelow`, `ButAbove`, with
children and parent of that place in order across it), each round moves that
place one level, and the rounds suffice because a level more at least doubles the
index (`n \div 2`). A removed group's place is filled with the last entry, which
sinks or rises. That the array never needs a place beyond those of all groups
(`HeapFits`) is an injection from places to groups, and the minimum at the root
follows by going up from any place.

**FlatcgTimeProofs**, the queue — `TypeCorrect`, `OneNode`, `EarlyTasksAreSeen`
of `FlatcgQueue`, with

    IInv == TypeOK /\ GoneIsEmpty /\ NodeIsBorn /\ NodeOnce /\ EarlyTaskSeen

`GoneIsEmpty` (a cgroup that is gone has no tasks) is needed when a picker frees
the node of a vanished cgroup: no task is overlooked by it. `NodeIsBorn` (no node
before `fcg_cgroup_init`) is needed for the step that makes one.

The times — `Refinement` (`TimeSpec => Spec` of `FlatcgQueue`: every
step with times is a step of the queue protocol or leaves its state alone, so
the theorems above hold with charging), `TimeTypeCorrect`, `ChargesKept`,
`ChargesBounded`, `ServiceIsCharged`, with the invariant of the queue and

    ChargeInv == LoneCapper /\ CapperSees /\ ExcessBounded
    SliceOK /\ Prepaid

`ExcessBounded` is the two properties together. Its upper bound survives a
subtraction only by `CapperSees`: what a CPU in `"cap"` has read is at most the
delta of now, and the difference, which is applied and stays, is covered by the
bypassed time charged since. `LoneCapper` (only one CPU is there) keeps that true
across the steps of others: every charge but those for bypassed tasks is made
under `cgv_tree_lock`.

`ServiceIsCharged` is about service, which no variable of the code counts, and so
about where a CPU is in its slice. `SliceOK`: a settlement is due only on the way to a
pick, nothing runs in a pick, and a CPU's cgroup exists. `Prepaid`: of what a
cgroup was charged, the price of what is left of the slices of all CPUs that run it
is not used up. A CPU uses its own slice up, settles the difference either way or
takes a new one; the sum over CPUs moves by that CPU's part (`CpuKeepsPrepaid`), and
the unused rest is covered even when others of the same cgroup overrun theirs.

**FlatcgWeightsProofs** — `TypeCorrect` (which says that `nr_active` never
wraps), `SumsAreOfActive`, `ActiveWhenAtRest`, `FreshShares`, `SharesCover`, with

    WalkInv == HandlersOK /\ RunnableCounted /\ OneWaker /\ PathsActive
                 /\ ReportedOnce /\ Balanced

`Balanced` is a balance for each cgroup: what `nr_active` is, and the wake-ups
that have yet to come by, are together what it should be (the gate of a leaf's
`nr_runnable`, the active children of an inner cgroup) and the sleeps that have
yet to come by. A walk that goes up a level moves one unit from one side to the other or
from a cgroup to its parent. It survives two walks at one cgroup because a
wake-up leaves its path active behind it (`PathsActive`) and no two have
both woken what they are about to report (`ReportedOnce`); both come from
`OneWaker`, the task that keeps its cgroup awake while its handler runs. With
no walk under way the balance is `ActiveAtRest`. `FreshShares` adds `FreshInv`:
no cgroup's generation is ahead of the global one, and while no walk owes a
change of generation, a cgroup with the current one has cached its share; its
induction over the levels of the hierarchy is that of `Entitled`.

`SharesCover` cuts the hierarchy at level n (`CutAt`): the active cgroups of that level
and the active leaves above it. At the root the cut is given the whole. One level
deeper each inner cgroup is replaced by its active children, who are each given a
rounded-up part by weight and so at least what it had (`ChildrenCover`, from
`ActiveAtRest` and `SumOfActive`: it has such a child, and the divisor is the sum of
exactly their weights). The last cut is the set of active leaves.

**GlobalAccountingProofs** — `TypeCorrect`, `AssertionsNeverFail`,
`CountsAgree`, `ListsAgree`, `IdleJustified`, `ChargedInTurn`, with

    IInv == TypeOK /\ AssertionsHold /\ QueueCount /\ ListedByThreads
              /\ ResetWhenEmpty /\ Matches(current, spec_time)

`Matches` says that a group has exactly one speculation node for each core that
runs it, which is stronger than the equality of numbers that the code asserts:
the numbers alone would not survive a core collapsing its own node.
`ResetWhenEmpty` (a group without threads has virtual time -1) is what the
assertion at 196 needs; with it the minimum taken there is always -1. The pick is
proved once (`PickKeeps`), from what its three callers have in common.
`EachInOnePlace` is proved next to it, from `Placed`: each process is on one run
queue, core, pool or in the rest of `main`'s loop. A handler is followed from the
taking of a process, which is then nowhere, until it is put down.

The last two are about steps, from the same invariant. `IdleJustified`: a
search that returns no group has found none eligible (`NoneEligible`), for of
finitely many positions with times bounded from below the first with the least
would have been returned; and a group with a queued process is on the list and
counted as waiting. `ChargedInTurn` states `LeastCharged`, which no run has: a group
with threads is charged only if its virtual time exceeds that of no group with a
process still queued by more than `GROUP_BONUS`. It is proved of all three picks at
once (`FairPick`); without the bonus it is false.

**LenientLockProofs** — `TypeCorrect`, `NeverInTwoPlaces`, `KnowsItsCore`,
`SharesWithinCores`, `WeightStaysCounted`, `SharesAlwaysTaken`, with

    IInv == Settled /\ Apart(pool, todo, Playing) /\ pc \in [Cores -> {"schedule", "choose"}]

`Settled` has what every critical section leaves behind, whatever it found:
`Weighed` (the total covers the listed groups, and shares are those of a total),
`Scheduled` (each listed group has as many cores as its share and threads allow,
no other has any, and a process is once in its queue or on one core) and `Noted`
(`core_running_on`). It is proved along the algorithm: requeuing core after core
collects the processes of a group into its queue, each is cut into a given and a left
part, and the given parts in the order of the list fill the cores from 0. They fit
because the rounded-down proportions of a total add up to no more than the cores
(`SumProportion`). `Apart` (waiting processes are in no queue and on no core) is
what makes an enqueued process new to its group.

**DistrWeightProofs** — `TypeCorrect`, `ThreadsAreCounted`,
`ListsTheThreaded`, `CoresSharedFairly`, with

    IInv == /\ Placed(runqueue, current, pool) /\ Counted(num_threads, runqueue, current)
            /\ Listed(num_threads, listed, total_weight)
            /\ FairDivision(local_weight, num_threads) /\ pc and aborted of their types

The first three are about the handlers, as above. `FairDivision` is about
`distribute_weight`, which is proved for every number of cores, groups and
threads and every order that its sort may leave. The loop over cores has given a
group exactly the points it was to get if there is as much left (`HasGiven`,
`GivesWhole`, `GivesShares`). The loop over groups keeps `Dividing(d, n, S, P, F)`,
where `P` are the groups done and `F` those of them with a core per thread: what
is given and what is left add up to the cores; a thread of a group of `F` weighs
at least what a core left does; and once a group is not underserved no
later one in the order is (`RatioKept`). Two facts come with it that the code
relies on: `cores_left` stays positive, so that 346 never divides by zero, and the
cores from `firstCore` on are still whole when a thread is to get one.

Of the properties of the passing runs only `Termination` of `rlock_lifecycle` is
not proved: it is liveness under fairness, out of the prover's reach.

## 6. What the checks found

1. `global-accounting-rlock.c:370`: a core goes idle with threads queued
   (`rlock_idle`).
2. `lenient-weight/global-lock.c:183`: groups are lost from the list with their
   threads (`lenient_last`).
3. `scx_flatcg.bpf.c:804`: an enqueuer between the look at the queue and the
   return of the node is missed (`flatcg_stranded`).
4. `lenient-weight/global-lock.c:143`: cores idle with processes queued
   (`lenient_idle`). The loop that is to give them away starts where the loop
   over the groups has ended and does nothing, against the comment at 139,
   "work conserving: let anything go beyond what its weight allows rather than
   have the core go idle".

Known of the code without a run of their own, as the models show in passing:

- `distr-weight.c:566`: the assert can fail, as the comment at 562 has seen. It
  does so after a group was moved while its threads still ran, and also without
  any move: a group of one thread whose share is split between two cores is
  run by one and missed by the other.
- `scx_flatcg.bpf.c:644`: `set_weight` does not invalidate cached shares, against
  `scx_flatcg.h:52`; `FreshUnlessReweighted` excepts these.
- `scx_flatcg.bpf.c:274`: a charge made between the two reads of the delta is
  applied twice; `ChargedAtMostTwice` is the bound that remains.
- `scx_flatcg.bpf.c:888`: after the last try `cur_at` starts anew with the same
  `cur_cgid`, whose tasks then run for a slice that nobody is charged for. The tries
  can run out on cgroups that are gone or empty, not only on races with enqueue
  (comment at 895).
- `global-accounting.c:198`: a returning group always starts at -1, since its own
  -1 is in the list that the minimum is taken of; and once virtual times have
  reached INT_MAX (274) cores idle with work queued.

## 7. Not modelled, and why

- `global-accounting-cas.c`: the draft before rlock. `dequeue` never stores the
  new count and waits for a lock its caller holds, so it hardly runs.
- `lenient-weight/distr.c`: does not compile.
- `scx_h.bpf.c`: dispatch is not finished and not registered; the weight tree is
  the one of flatcg.
- flatcg's virtual times of tasks (`tvtime_now`, `dsq_vtime`; `running`, `init_task`,
  `cgroup_move`): they order the tasks within one dispatch queue, among which the
  models choose freely, and the kernel does the ordering.
- A change of `hweight` between the charge in advance (760) and the settlement
  (865): it needs the weight tree and the clock in one model, which is beyond TLC.
- Loaders, workloads, scripts: no scheduler state.

## 8. Plan

Done first, because everything else in the repository is measured against it:
rlock with its heap, then flatcg's queue, weight tree, `DistrWeight`,
`LenientLock`, flatcg's virtual times, `GlobalAccounting`; then the proofs of
every property but `Termination`. What is left, in this order:

1. **Service of groups in rlock**: the update lost at 460, the lag applied twice
   (463), the average that counts an empty group as `INT_MAX` (413, 452).
2. **Lock order of `global-accounting-cas.c`**, as a module of its own.
3. Liveness of `FlatcgQueue` with the tree's order: a task outside the window of
   finding 3 is dispatched.

New runs take the place of violation runs whose finding has been settled.
