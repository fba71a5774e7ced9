---------------------------- MODULE FlatcgWeights ----------------------------
(***************************************************************************)
(* The weight tree of scx_flatcg.bpf.c: as tasks wake and sleep, ops.      *)
(* runnable and ops.quiescent walk from a leaf cgroup towards the root and *)
(* keep at each level the number of active children and the sum of their   *)
(* weights; cgrp_refresh_hweight compounds the shares from the root down   *)
(* to the leaf and caches them under a generation number.                  *)
(*                                                                         *)
(* cgv_tree_lock is dropped after every level, so a level is a step; the   *)
(* atomic operations on nr_runnable and hweight_gen are steps.  A task is  *)
(* in one handler at a time, which its run queue's lock sees to.  The      *)
(* tests at the head of cgrp_refresh_hweight are one step, and so are the  *)
(* stores to the root's two fields.                                        *)
(***************************************************************************)
EXTENDS Integers, FiniteSets, FiniteSetsExt

CONSTANTS
  Cpus,
  Cgroups,      \* the cgroups that have been initialised
  Root,
  Parent,       \* Parent[c]: the parent of c, for c other than Root
  Level,        \* cgrp->level
  Tasks,
  CgroupOf,     \* CgroupOf[t]: the leaf cgroup of task t
  Weights,      \* the values cpu.weight may be set to
  Reweighted,   \* bound: the cgroups whose weight may change
  InitWeight,   \* InitWeight[c]: args->weight of fcg_cgroup_init
  HweightOne,   \* FCG_HWEIGHT_ONE
  MaxWakes,     \* bound: wake-ups and sleeps of tasks in a run
  MaxReweights, \* bound: changes of weight in a run
  None

ASSUME TreeAssumption ==
  /\ Root \in Cgroups
  /\ Parent \in [Cgroups \ {Root} -> Cgroups]
  /\ Level \in [Cgroups -> Nat]
  /\ \A c \in Cgroups : Level[c] = 0 <=> c = Root
  /\ \A c \in Cgroups \ {Root} : Level[c] = Level[Parent[c]] + 1
ASSUME TasksAssumption ==
  /\ CgroupOf \in [Tasks -> Cgroups \ {Root}]
  /\ \A t \in Tasks, c \in Cgroups \ {Root} : Parent[c] # CgroupOf[t]
ASSUME WeightsAssumption ==
  /\ Weights \subseteq Nat \ {0} /\ HweightOne \in Nat \ {0}
  /\ MaxWakes \in Nat /\ MaxReweights \in Nat
  /\ Reweighted \subseteq Cgroups \ {Root}
  /\ InitWeight \in [Cgroups -> Weights]
ASSUME FiniteAssumption == IsFiniteSet(Cpus) /\ IsFiniteSet(Cgroups) /\ IsFiniteSet(Tasks)
ASSUME NoneAssumption == None \notin Tasks /\ None \notin Cgroups

VARIABLES
  nr_runnable,       \* per cgroup
  nr_active,         \* per cgroup; a u32 that -1 stands for when it wraps
  weight,            \* per cgroup
  child_weight_sum,  \* per cgroup
  hweight,           \* per cgroup
  cgrp_gen,          \* per cgroup: hweight_gen
  hweight_gen,       \* the global generation
  runnable,          \* the tasks that are runnable or on a CPU
  pc,                \* per CPU: the next step of the handler it is in
  op,                \* per CPU: "runnable", "quiescent" or "refresh"
  task,              \* per CPU: the task of the handler
  cgrp,              \* per CPU: the cgroup of the handler
  level,             \* per CPU: the level it has come to
  updated,           \* per CPU: the local of that name
  gen_read,          \* per CPU: hweight_gen as read for the root
  wakes, reweights,  \* how often a task and a weight has changed
  reweighted         \* a weight has changed since hweight_gen last did

counts == <<nr_runnable, nr_active>>
shares == <<hweight, cgrp_gen>>
control == <<runnable, wakes, reweights, reweighted>>
locals == <<op, task, cgrp, updated>>
vars == <<counts, weight, child_weight_sum, shares, hweight_gen, control,
          pc, locals, level, gen_read>>

(* bpf_cgroup_ancestor(c, l), as find_ancestor_cgrp_ctx uses it.           *)
Ancestor(c, l) ==
  LET up[k \in Nat] == IF k = 0 THEN c ELSE Parent[up[k - 1]]
  IN  up[Level[c] - l]

DivRoundDown(dividend, divisor) == dividend \div divisor
DivRoundUp(dividend, divisor) == (dividend + divisor - 1) \div divisor

Init ==
  /\ nr_runnable = [c \in Cgroups |-> 0]
  /\ nr_active = [c \in Cgroups |-> 0]
  /\ weight = InitWeight
  /\ child_weight_sum = [c \in Cgroups |-> 0]
  /\ hweight = [c \in Cgroups |-> HweightOne]
  /\ cgrp_gen = [c \in Cgroups |-> 0]
  /\ hweight_gen = 1
  /\ runnable = {}
  /\ pc = [cpu \in Cpus |-> "idle"]
  /\ op = [cpu \in Cpus |-> "refresh"]
  /\ task = [cpu \in Cpus |-> None]
  /\ cgrp = [cpu \in Cpus |-> Root]
  /\ level = [cpu \in Cpus |-> 0]
  /\ updated = [cpu \in Cpus |-> FALSE]
  /\ gen_read = [cpu \in Cpus |-> 0]
  /\ wakes = 0 /\ reweights = 0
  /\ reweighted = FALSE

Goto(cpu, label) == pc' = [pc EXCEPT ![cpu] = label]

(* The handler returns; its locals are gone.                               *)
Return(cpu) ==
  /\ Goto(cpu, "idle")
  /\ op' = [op EXCEPT ![cpu] = "refresh"]
  /\ task' = [task EXCEPT ![cpu] = None]
  /\ cgrp' = [cgrp EXCEPT ![cpu] = Root]
  /\ level' = [level EXCEPT ![cpu] = 0]
  /\ updated' = [updated EXCEPT ![cpu] = FALSE]
  /\ gen_read' = [gen_read EXCEPT ![cpu] = 0]
-----------------------------------------------------------------------------
(* update_active_weight_sums up to the gate on nr_runnable.                *)
Enter(cpu, o, t, first) ==
  /\ op' = [op EXCEPT ![cpu] = o]
  /\ task' = [task EXCEPT ![cpu] = t]
  /\ cgrp' = [cgrp EXCEPT ![cpu] = CgroupOf[t]]
  /\ level' = [level EXCEPT ![cpu] = IF o = "runnable" THEN Level[CgroupOf[t]] ELSE 0]
  /\ Goto(cpu, first)
  /\ UNCHANGED <<updated, gen_read>>

Idle(cpu, t) ==
  /\ pc[cpu] = "idle"
  /\ \A other \in Cpus : task[other] # t
  /\ wakes < MaxWakes
  /\ wakes' = wakes + 1
  /\ UNCHANGED <<nr_active, weight, child_weight_sum, shares, hweight_gen, reweights, reweighted>>

(* fcg_runnable: only the first runnable task of a cgroup goes further.    *)
Runnable(cpu, t) ==
  /\ Idle(cpu, t)
  /\ t \notin runnable
  /\ runnable' = runnable \cup {t}
  /\ nr_runnable' = [nr_runnable EXCEPT ![CgroupOf[t]] = @ + 1]
  /\ IF nr_runnable[CgroupOf[t]] # 0
     THEN UNCHANGED <<pc, locals, level, gen_read>>
     ELSE Enter(cpu, "runnable", t, "propagate")

(* As it would be if every task that sleeps went through.                  *)
QuiescentUngated(cpu, t) ==
  /\ Idle(cpu, t)
  /\ t \in runnable
  /\ runnable' = runnable \ {t}
  /\ nr_runnable' = [nr_runnable EXCEPT ![CgroupOf[t]] = @ - 1]
  /\ Enter(cpu, "quiescent", t, "refresh")

(* fcg_quiescent: only the last one does, and refreshes the hweight first. *)
Quiescent(cpu, t) ==
  /\ Idle(cpu, t)
  /\ t \in runnable
  /\ runnable' = runnable \ {t}
  /\ nr_runnable' = [nr_runnable EXCEPT ![CgroupOf[t]] = @ - 1]
  /\ IF nr_runnable[CgroupOf[t]] # 1
     THEN UNCHANGED <<pc, locals, level, gen_read>>
     ELSE Enter(cpu, "quiescent", t, "refresh")

(* try_pick_next_cgroup has taken a task of c.                             *)
StartRefresh(cpu, c) ==
  /\ pc[cpu] = "idle"
  /\ \E t \in runnable : CgroupOf[t] = c
  /\ cgrp' = [cgrp EXCEPT ![cpu] = c]
  /\ Goto(cpu, "refresh")
  /\ UNCHANGED <<counts, weight, child_weight_sum, shares, hweight_gen, control,
                 op, task, updated, level, gen_read>>
-----------------------------------------------------------------------------
(* cgrp_refresh_hweight.                                                   *)

(* Where it returns to.                                                    *)
Refreshed(cpu) ==
  IF op[cpu] = "quiescent"
  THEN /\ Goto(cpu, "propagate")
       /\ level' = [level EXCEPT ![cpu] = Level[cgrp[cpu]]]
       /\ UNCHANGED <<locals, gen_read>>
  ELSE Return(cpu)

RefreshUnneeded(cpu) ==
  \/ nr_active[cgrp[cpu]] = 0
  \/ cgrp_gen[cgrp[cpu]] = hweight_gen

RefreshStart(cpu) ==
  /\ pc[cpu] = "refresh"
  /\ IF RefreshUnneeded(cpu)
     THEN Refreshed(cpu)
     ELSE /\ Goto(cpu, "refresh_root")
          /\ gen_read' = [gen_read EXCEPT ![cpu] = hweight_gen]
          /\ UNCHANGED <<locals, level>>
  /\ UNCHANGED <<counts, weight, child_weight_sum, shares, hweight_gen, control>>

RefreshRoot(cpu) ==
  /\ pc[cpu] = "refresh_root"
  /\ hweight' = [hweight EXCEPT ![Root] = HweightOne]
  /\ cgrp_gen' = [cgrp_gen EXCEPT ![Root] = gen_read[cpu]]
  /\ Goto(cpu, "refresh_level")
  /\ level' = [level EXCEPT ![cpu] = 1]
  /\ UNCHANGED <<counts, weight, child_weight_sum, hweight_gen, control, locals, gen_read>>

(* One level: the share of the parent, and its generation, handed down.    *)
RefreshLevel(cpu) ==
  /\ pc[cpu] = "refresh_level"
  /\ LET c == Ancestor(cgrp[cpu], level[cpu])
         p == Parent[c]
     IN  IF nr_active[c] = 0
         THEN Refreshed(cpu) /\ UNCHANGED shares
         ELSE /\ cgrp_gen' = [cgrp_gen EXCEPT ![c] = cgrp_gen[p]]
              /\ hweight' = [hweight EXCEPT
                   ![c] = DivRoundUp(hweight[p] * weight[c], child_weight_sum[p])]
              /\ IF level[cpu] = Level[cgrp[cpu]]
                 THEN Refreshed(cpu)
                 ELSE /\ level' = [level EXCEPT ![cpu] = @ + 1]
                      /\ UNCHANGED <<pc, locals, gen_read>>
  /\ UNCHANGED <<counts, weight, child_weight_sum, hweight_gen, control>>
-----------------------------------------------------------------------------
(* The propagation of update_active_weight_sums.                           *)

(* One level with the new nr_active n; up only if the cgroup has become    *)
(* active or inactive, else on to the generation.                          *)
PropagateLevel(cpu, c, n, flips, upwards) ==
  /\ nr_active' = [nr_active EXCEPT ![c] = n]
  /\ updated' = [updated EXCEPT ![cpu] = @ \/ flips]
  /\ child_weight_sum' =
       IF flips
       THEN [child_weight_sum EXCEPT ![Parent[c]] =
               IF op[cpu] = "runnable" THEN @ + weight[c] ELSE @ - weight[c]]
       ELSE child_weight_sum
  /\ IF upwards /\ level[cpu] > 1
     THEN level' = [level EXCEPT ![cpu] = @ - 1] /\ UNCHANGED pc
     ELSE level' = [level EXCEPT ![cpu] = 0] /\ Goto(cpu, "expire")
  /\ UNCHANGED <<nr_runnable, weight, shares, hweight_gen, control, op, task, cgrp, gen_read>>

(* As it would be if a cgroup that becomes inactive did not tell its       *)
(* parent.                                                                 *)
PropagateWakesOnly(cpu) ==
  /\ pc[cpu] = "propagate"
  /\ LET c == Ancestor(cgrp[cpu], level[cpu])
     IN  IF op[cpu] = "runnable"
         THEN PropagateLevel(cpu, c, nr_active[c] + 1, nr_active[c] = 0, nr_active[c] = 0)
         ELSE PropagateLevel(cpu, c, nr_active[c] - 1, nr_active[c] = 1, FALSE)

Propagate(cpu) ==
  /\ pc[cpu] = "propagate"
  /\ LET c == Ancestor(cgrp[cpu], level[cpu])
     IN  IF op[cpu] = "runnable"
         THEN PropagateLevel(cpu, c, nr_active[c] + 1, nr_active[c] = 0, nr_active[c] = 0)
         ELSE PropagateLevel(cpu, c, nr_active[c] - 1, nr_active[c] = 1, nr_active[c] = 1)

(* hweight_gen is incremented if anything changed; a cgroup that became    *)
(* active then has its hweight refreshed.                                  *)
ExpireTo(cpu, gen) ==
  /\ pc[cpu] = "expire"
  /\ hweight_gen' = gen
  /\ reweighted' = (reweighted /\ ~updated[cpu])
  /\ IF op[cpu] = "runnable"
     THEN Goto(cpu, "refresh") /\ UNCHANGED <<locals, level, gen_read>>
     ELSE Return(cpu)
  /\ UNCHANGED <<counts, weight, child_weight_sum, shares, runnable, wakes, reweights>>

ExpireNothing(cpu) == ExpireTo(cpu, hweight_gen)

Expire(cpu) == ExpireTo(cpu, IF updated[cpu] THEN hweight_gen + 1 ELSE hweight_gen)
-----------------------------------------------------------------------------
(* fcg_cgroup_set_weight, in one critical section; the root has no weight  *)
(* to set.                                                                 *)
SetWeightIf(c, w, counted) ==
  /\ reweights < MaxReweights
  /\ w # weight[c]
  /\ weight' = [weight EXCEPT ![c] = w]
  /\ child_weight_sum' =
       IF counted
       THEN [child_weight_sum EXCEPT ![Parent[c]] = @ + w - weight[c]]
       ELSE child_weight_sum
  /\ reweights' = reweights + 1
  /\ reweighted' = TRUE
  /\ UNCHANGED <<counts, shares, hweight_gen, runnable, wakes, pc, locals, level, gen_read>>

SetWeightAlways(c, w) == SetWeightIf(c, w, TRUE)

SetWeight(c, w) == SetWeightIf(c, w, nr_active[c] # 0)
-----------------------------------------------------------------------------
Cpu(cpu) ==
  \/ \E t \in Tasks : Runnable(cpu, t) \/ Quiescent(cpu, t)
  \/ \E c \in Cgroups : StartRefresh(cpu, c)
  \/ RefreshStart(cpu) \/ RefreshRoot(cpu) \/ RefreshLevel(cpu)
  \/ Propagate(cpu) \/ Expire(cpu)

Next ==
  \/ \E cpu \in Cpus : Cpu(cpu)
  \/ \E c \in Reweighted, w \in Weights : SetWeight(c, w)

Spec == Init /\ [][Next]_vars
-----------------------------------------------------------------------------
(* Every variable has its type; nr_active, a u32, never wraps.             *)
TypeOK ==
  /\ nr_runnable \in [Cgroups -> Nat]
  /\ nr_active \in [Cgroups -> Nat]
  /\ weight \in [Cgroups -> Weights]
  /\ child_weight_sum \in [Cgroups -> Nat]
  /\ hweight \in [Cgroups -> Nat]
  /\ cgrp_gen \in [Cgroups -> Nat]
  /\ hweight_gen \in Nat
  /\ runnable \subseteq Tasks
  /\ pc \in [Cpus -> {"idle", "refresh", "refresh_root", "refresh_level", "propagate", "expire"}]
  /\ op \in [Cpus -> {"runnable", "quiescent", "refresh"}]
  /\ task \in [Cpus -> Tasks \cup {None}]
  /\ cgrp \in [Cpus -> Cgroups]
  /\ level \in [Cpus -> Nat]
  /\ updated \in [Cpus -> BOOLEAN]
  /\ gen_read \in [Cpus -> Nat]
  /\ wakes \in 0 .. MaxWakes /\ reweights \in 0 .. MaxReweights
  /\ reweighted \in BOOLEAN

Active(c) == nr_active[c] > 0
Children(c) == {d \in Cgroups \ {Root} : Parent[d] = c}
ActiveChildren(c) == {d \in Children(c) : Active(d)}
Leaves == {c \in Cgroups \ {Root} : Children(c) = {}}

(* child_weight_sum is "the sum of weights of all active child cgroups" in *)
(* every state, although weights change while tasks wake and sleep.        *)
SumOfActive ==
  \A c \in Cgroups :
    child_weight_sum[c] = MapThenSumSet(LAMBDA d : weight[d], ActiveChildren(c))

AtRest == \A cpu \in Cpus : pc[cpu] \notin {"propagate", "expire"}
                            /\ op[cpu] # "quiescent"

(* Once the walks are over, a leaf is active if it has a runnable task and *)
(* an inner cgroup counts its active children, in whatever order wake-ups  *)
(* and sleeps of one subtree overtook each other level by level.           *)
ActiveAtRest ==
  AtRest =>
    /\ \A c \in Leaves : nr_active[c] = (IF nr_runnable[c] > 0 THEN 1 ELSE 0)
    /\ \A c \in Cgroups \ (Leaves \cup {Root}) : nr_active[c] = Cardinality(ActiveChildren(c))

(* The share cgroup c should have by its ancestors' weights.               *)
Entitled(c) ==
  LET e[d \in Cgroups] ==
        IF d = Root THEN HweightOne
        ELSE DivRoundUp(e[Parent[d]] * weight[d], child_weight_sum[Parent[d]])
  IN  e[c]

Fresh(c) == Active(c) /\ cgrp_gen[c] = hweight_gen

(* "Incremented when weight tree changes to invalidate cached hweight      *)
(* values.  Prevents stale weight calculations": what is cached under the  *)
(* current generation is right.                                            *)
HweightIsFresh ==
  AtRest => \A c \in Leaves : Fresh(c) => hweight[c] = Entitled(c)

(* It is, if no weight has changed since: no race of a refresh with a walk *)
(* leaves a wrong share that passes for a current one.                     *)
FreshUnlessReweighted == ~reweighted => HweightIsFresh

(* The shares of the active leaves, all current, give out the whole of the *)
(* CPUs: rounding never loses any of it.                                   *)
SharesCoverCpus ==
  LET active == {c \in Leaves : Active(c)}
  IN  AtRest /\ ~reweighted /\ active # {} /\ (\A c \in active : Fresh(c)) =>
        MapThenSumSet(LAMBDA c : hweight[c], active) >= HweightOne

=============================================================================
