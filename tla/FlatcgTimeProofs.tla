-------------------------- MODULE FlatcgTimeProofs --------------------------
(***************************************************************************)
(* What holds of FlatcgQueue and of FlatcgTime for any CPUs, cgroups,      *)
(* tasks, slice, prices, budgets and bounds.  The theorems about Spec are  *)
(* those of FlatcgQueue; they hold of FlatcgTime too, as its steps are     *)
(* steps of FlatcgQueue or leave that one's state alone (Refinement).      *)
(***************************************************************************)
EXTENDS FlatcgTime, DataFacts


(* A cgroup that is not (or no longer) there has no task to queue or run.  *)
GoneIsEmpty ==
  /\ \A c \in Cgroups : dsq[c] \subseteq TasksOf(c)
  /\ \A c \in Cgroups \ (findable \cap entry) :
       dsq[c] = {} /\ \A cpu \in Cpus : local[cpu] \notin TasksOf(c)

(* Only fcg_cgroup_init makes a node.                                      *)
NodeIsBorn ==
  \A c \in Cgroups \ born : c \notin tree /\ \A cpu \in Cpus : ~HoldsNode(cpu, c)

IInv == TypeOK /\ GoneIsEmpty /\ NodeIsBorn /\ NodeOnce /\ EarlyTaskSeen

LEMMA InitInv == Init => IInv
<1> SUFFICES ASSUME Init PROVE IInv
  OBVIOUS
<1> USE DEF Init
<1>1. TypeOK
  BY RetriesAssumption, SMT DEF TypeOK, Labels
<1>2. GoneIsEmpty
  BY NoneAssumption DEF GoneIsEmpty, TasksOf
<1>5. NodeIsBorn
  BY DEF NodeIsBorn, HoldsNode, EnqueueHolds, PickHolds
<1>3. NodeOnce
  BY DEF NodeOnce, HoldsNode, EnqueueHolds, PickHolds
<1>4. EarlyTaskSeen
  BY DEF EarlyTaskSeen
<1> QED
  BY <1>1, <1>2, <1>3, <1>4, <1>5 DEF IInv

-----------------------------------------------------------------------------
(* What one CPU does leaves the others' part of the state alone.           *)

LEMMA EnqueueType ==
  ASSUME TypeOK, NEW cpu \in Cpus, Enqueue(cpu)
  PROVE  TypeOK'
<1>1. ASSUME NEW t \in Tasks, Bypass(cpu, t)
      PROVE  TypeOK'
  BY <1>1 DEF Bypass, TypeOK, cgroups
<1>2. ASSUME NEW t \in Tasks, Insert(cpu, t), asleep' \subseteq Tasks,
             local' \in [Cpus -> Tasks \cup {None}]
      PROVE  TypeOK'
  BY <1>2, CgroupOfAssumption DEF Insert, Goto, TypeOK, Labels, cgroups
<1>3. ASSUME NEW t \in Tasks, EnqueueWoken(cpu, t)
      PROVE  TypeOK'
  BY <1>2, <1>3 DEF EnqueueWoken, TypeOK
<1>4. CASE EnqueuePreempted(cpu)
  BY <1>2, <1>4 DEF EnqueuePreempted, TypeOK
<1>5. CASE Deschedule(cpu)
  BY <1>5 DEF Deschedule, TypeOK, cgroups
<1>6. CASE Announce(cpu) \/ TakeFromStash(cpu) \/ AddToTree(cpu)
  <2>1. cg[cpu] \in Cgroups
    BY <1>6 DEF Announce, TakeFromStash, AddToTree, TypeOK
  <2>2. CASE Announce(cpu)
    BY <2>1, <2>2 DEF Announce, Goto, TypeOK, Labels, cgroups, tasks
  <2>3. CASE TakeFromStash(cpu)
    BY <2>1, <2>3 DEF TakeFromStash, Goto, TypeOK, Labels, EnqueueHolds, cgroups, tasks
  <2>4. CASE AddToTree(cpu)
    BY <2>1, <2>4 DEF AddToTree, Goto, TypeOK, Labels, cgroups, tasks
  <2> QED
    BY <1>6, <2>2, <2>3, <2>4
<1> QED
  BY <1>1, <1>3, <1>4, <1>5, <1>6 DEF Enqueue

LEMMA DispatchType ==
  ASSUME TypeOK, NEW cpu \in Cpus, Dispatch(cpu)
  PROVE  TypeOK'
<1> USE DEF cgroups, tasks, Goto
<1>1. ASSUME NEW c \in Cgroups, MoveToLocal(cpu, c)
      PROVE  dsq' \in [Cgroups -> SUBSET Tasks] /\ asleep' \subseteq Tasks
             /\ local' \in [Cpus -> Tasks \cup {None}]
  BY <1>1 DEF MoveToLocal, TypeOK
<1>2. Done(cpu) => pc' \in [Cpus -> Labels] /\ tries' \in [Cpus -> 0 .. (MaxRetries - 1)]
  BY RetriesAssumption DEF Done, TypeOK, Labels
<1>3. Retry(cpu) => pc' \in [Cpus -> Labels] /\ tries' \in [Cpus -> 0 .. (MaxRetries - 1)]
  BY <1>2, RetriesAssumption DEF Retry, TypeOK, Labels
<1>4. Done(cpu) \/ Retry(cpu) => pc' = [pc EXCEPT ![cpu] = "idle"] \/ pc' = [pc EXCEPT ![cpu] = "pop"]
  BY DEF Done, Retry
<1>5. CASE DispatchKeep(cpu)
  BY <1>1, <1>5 DEF DispatchKeep, TypeOK
<1>6. CASE DispatchPick(cpu)
  BY <1>6 DEF DispatchPick, TypeOK, Labels
<1>7. CASE PopNone(cpu)
  BY <1>2, <1>4, <1>7 DEF PopNone, TypeOK
<1>8. CASE PopFirst(cpu)
  BY <1>8 DEF PopFirst, TypeOK, Labels, PickHolds
<1>9. CASE PickLookup(cpu)
  BY <1>3, <1>4, <1>9 DEF PickLookup, TypeOK, Labels, PickHolds
<1>10. CASE PickMove(cpu)
  BY <1>1, <1>10 DEF PickMove, TypeOK, Labels, PickHolds
<1>11. CASE PickReadd(cpu)
  BY <1>2, <1>4, <1>11 DEF PickReadd, TypeOK
<1>12. CASE PickFindStash(cpu)
  BY <1>3, <1>4, <1>12 DEF PickFindStash, TypeOK, Labels, PickHolds
<1>13. CASE PickClear(cpu)
  BY <1>13 DEF PickClear, TypeOK, Labels, PickHolds
<1>14. CASE PickCheck(cpu)
  BY <1>14 DEF PickCheck, TypeOK, Labels, PickHolds
<1>15. CASE PickBack(cpu)
  BY <1>3, <1>4, <1>15 DEF PickBack, TypeOK
<1>16. CASE PickStash(cpu)
  BY <1>3, <1>4, <1>16 DEF PickStash, TypeOK
<1> QED
  BY <1>5, <1>6, <1>7, <1>8, <1>9, <1>10, <1>11, <1>12, <1>13, <1>14, <1>15, <1>16
  DEF Dispatch

LEMMA CgroupType ==
  ASSUME TypeOK, NEW c \in Cgroups, Cgroup(c)
  PROVE  TypeOK'
  BY DEF TypeOK, Cgroup, CgroupInit, CgroupRemoved, CgroupExit, tasks

-----------------------------------------------------------------------------
(* The tasks of a cgroup are its own, and are gone before it is.           *)

LEMMA GoneIsEmptyStep ==
  ASSUME TypeOK, GoneIsEmpty, Next
  PROVE  GoneIsEmpty'
<1> USE NoneAssumption DEF GoneIsEmpty, TypeOK
<1>1. ASSUME NEW c \in Cgroups, Cgroup(c)
      PROVE  GoneIsEmpty'
  BY <1>1 DEF Cgroup, CgroupInit, CgroupRemoved, CgroupExit, Emptied, tasks, TasksOf
<1>2. ASSUME UNCHANGED <<findable, entry, dsq, local>>
      PROVE  GoneIsEmpty'
  BY <1>2
<1>3. ASSUME NEW cpu \in Cpus, Enqueue(cpu)
      PROVE  GoneIsEmpty'
  <2>1. ASSUME NEW t \in Tasks, Bypass(cpu, t)
        PROVE  GoneIsEmpty'
    BY <2>1, CgroupOfAssumption DEF Bypass, cgroups, TasksOf
  <2>2. ASSUME NEW t \in Tasks, EnqueueWoken(cpu, t)
        PROVE  GoneIsEmpty'
    BY <2>2, CgroupOfAssumption DEF EnqueueWoken, Insert, cgroups, TasksOf
  <2>3. CASE EnqueuePreempted(cpu)
    BY <2>3, CgroupOfAssumption DEF EnqueuePreempted, Insert, cgroups, TasksOf
  <2>4. CASE Deschedule(cpu)
    BY <2>4 DEF Deschedule, cgroups, TasksOf
  <2>5. CASE Announce(cpu) \/ TakeFromStash(cpu) \/ AddToTree(cpu)
    BY <2>5, <1>2 DEF Announce, TakeFromStash, AddToTree, cgroups, tasks
  <2> QED
    BY <1>3, <2>1, <2>2, <2>3, <2>4, <2>5 DEF Enqueue
<1>4. ASSUME NEW cpu \in Cpus, Dispatch(cpu)
      PROVE  GoneIsEmpty'
  <2>1. ASSUME NEW c \in Cgroups, MoveToLocal(cpu, c), UNCHANGED cgroups
        PROVE  GoneIsEmpty'
    BY <2>1 DEF MoveToLocal, cgroups, TasksOf
  <2>2. CASE DispatchKeep(cpu)
    BY <2>1, <2>2 DEF DispatchKeep
  <2>3. CASE PickMove(cpu)
    BY <1>2, <2>1, <2>3 DEF PickMove, cgroups, tasks
  <2>4. CASE UNCHANGED <<findable, entry, dsq, local>>
    BY <1>2, <2>4
  <2> QED
    BY <1>4, <2>2, <2>3, <2>4 DEF Dispatch, DispatchPick, PopNone, PopFirst, PickLookup,
       PickReadd, PickFindStash, PickClear, PickCheck, PickBack, PickStash, cgroups, tasks
<1> QED
  BY <1>1, <1>3, <1>4 DEF Next

-----------------------------------------------------------------------------
(* The node: what a CPU does to one it holds, and to the others.           *)

LEMMA NodeStep ==
  ASSUME TypeOK, GoneIsEmpty, NodeIsBorn, NodeOnce, Next
  PROVE  NodeIsBorn' /\ NodeOnce'
<1> USE NoneAssumption DEF NodeIsBorn, NodeOnce, HoldsNode, EnqueueHolds, PickHolds, TypeOK
<1>1. ASSUME NEW c \in Cgroups, Cgroup(c)
      PROVE  NodeIsBorn' /\ NodeOnce'
  BY <1>1 DEF Cgroup, CgroupInit, CgroupRemoved, CgroupExit
<1>2. ASSUME UNCHANGED <<cgroups, stash, tree, pc, cg>>
      PROVE  NodeIsBorn' /\ NodeOnce'
  BY <1>2 DEF cgroups
<1>3. ASSUME NEW cpu \in Cpus, Enqueue(cpu)
      PROVE  NodeIsBorn' /\ NodeOnce'
  <2>1. ASSUME NEW t \in Tasks, EnqueueWoken(cpu, t)
        PROVE  NodeIsBorn' /\ NodeOnce'
    BY <2>1, CgroupOfAssumption DEF EnqueueWoken, Insert, Goto, cgroups
  <2>2. CASE EnqueuePreempted(cpu)
    BY <2>2, CgroupOfAssumption DEF EnqueuePreempted, Insert, Goto, cgroups
  <2>3. CASE Announce(cpu)
    BY <2>3 DEF Announce, Goto, cgroups
  <2>4. CASE TakeFromStash(cpu)
    BY <2>4 DEF TakeFromStash, Goto, cgroups
  <2>5. CASE AddToTree(cpu)
    BY <2>5 DEF AddToTree, Goto, cgroups
  <2> QED
    BY <1>2, <1>3, <2>1, <2>2, <2>3, <2>4, <2>5 DEF Enqueue, Bypass, Deschedule
<1>4. ASSUME NEW cpu \in Cpus, Dispatch(cpu)
      PROVE  NodeIsBorn' /\ NodeOnce'
  <2> USE DEF Goto, cgroups
  <2>1. Done(cpu) \/ Retry(cpu) =>
          pc' = [pc EXCEPT ![cpu] = "idle"] \/ pc' = [pc EXCEPT ![cpu] = "pop"]
    BY DEF Done, Retry
  <2>2. CASE DispatchKeep(cpu)
    BY <1>2, <2>2 DEF DispatchKeep
  <2>3. CASE DispatchPick(cpu) \/ PopNone(cpu)
    BY <2>1, <2>3 DEF DispatchPick, PopNone
  <2>4. CASE PopFirst(cpu)
    BY <2>4 DEF PopFirst
  <2>5. CASE PickLookup(cpu)
    BY <2>1, <2>5 DEF PickLookup
  <2>6. CASE PickMove(cpu)
    BY <2>6 DEF PickMove
  <2>7. CASE PickReadd(cpu)
    BY <2>1, <2>7 DEF PickReadd
  <2>8. CASE PickFindStash(cpu)
    BY <2>1, <2>8 DEF PickFindStash
  <2>9. CASE PickClear(cpu)
    BY <2>9 DEF PickClear
  <2>10. CASE PickCheck(cpu)
    BY <2>10 DEF PickCheck
  <2>11. CASE PickBack(cpu)
    BY <2>1, <2>11 DEF PickBack
  <2>12. CASE PickStash(cpu)
    BY <2>1, <2>12 DEF PickStash
  <2> QED
    BY <1>4, <2>2, <2>3, <2>4, <2>5, <2>6, <2>7, <2>8, <2>9, <2>10, <2>11, <2>12
    DEF Dispatch
<1> QED
  BY <1>1, <1>3, <1>4 DEF Next

-----------------------------------------------------------------------------
(* The tasks: from its insertion to its move a task that found queued at 0 *)
(* has someone on the way to it.                                           *)

LEMMA EarlyTaskSeenStep ==
  ASSUME TypeOK, GoneIsEmpty, NodeOnce, EarlyTaskSeen, Next
  PROVE  EarlyTaskSeen'
<1> USE DEF EarlyTaskSeen, EnqueueHolds, PickHolds, TypeOK
<1>1. ASSUME NEW c \in Cgroups, Cgroup(c)
      PROVE  EarlyTaskSeen'
  BY <1>1 DEF Cgroup, CgroupInit, CgroupRemoved, CgroupExit, tasks
<1>2. ASSUME UNCHANGED <<tree, queued, pc, cg>>,
             \A c \in Cgroups : dsq'[c] \subseteq dsq[c]
      PROVE  EarlyTaskSeen'
  BY <1>2
<1>3. ASSUME NEW cpu \in Cpus, Enqueue(cpu)
      PROVE  EarlyTaskSeen'
  <2>1. ASSUME NEW t \in Tasks, Insert(cpu, t), pc[cpu] = "idle"
        PROVE  EarlyTaskSeen'
    BY <2>1, CgroupOfAssumption DEF Insert, Goto
  <2>2. ASSUME NEW t \in Tasks, EnqueueWoken(cpu, t)
        PROVE  EarlyTaskSeen'
    BY <2>1, <2>2 DEF EnqueueWoken
  <2>3. CASE EnqueuePreempted(cpu)
    BY <2>1, <2>3 DEF EnqueuePreempted
  <2>4. CASE Announce(cpu)
    BY <2>4 DEF Announce, Goto, tasks
  <2>5. CASE TakeFromStash(cpu)
    BY <2>5 DEF TakeFromStash, Goto, tasks
  <2>6. CASE AddToTree(cpu)
    BY <2>6 DEF AddToTree, Goto, tasks
  <2>7. CASE \E t \in Tasks : Bypass(cpu, t)
    BY <1>2, <2>7 DEF Bypass
  <2>8. CASE Deschedule(cpu)
    BY <1>2, <2>8 DEF Deschedule
  <2> QED
    BY <1>3, <2>2, <2>3, <2>4, <2>5, <2>6, <2>7, <2>8 DEF Enqueue
<1>4. ASSUME NEW cpu \in Cpus, Dispatch(cpu)
      PROVE  EarlyTaskSeen'
  <2> USE DEF Goto, tasks
  <2>1. Done(cpu) \/ Retry(cpu) =>
          pc' = [pc EXCEPT ![cpu] = "idle"] \/ pc' = [pc EXCEPT ![cpu] = "pop"]
    BY DEF Done, Retry
  <2>2. ASSUME NEW c \in Cgroups, MoveToLocal(cpu, c)
        PROVE  \A b \in Cgroups : dsq'[b] \subseteq dsq[b]
    BY <2>2 DEF MoveToLocal
  <2>3. CASE DispatchKeep(cpu)
    BY <1>2, <2>2, <2>3 DEF DispatchKeep
  <2>4. CASE DispatchPick(cpu) \/ PopNone(cpu)
    BY <2>1, <2>4 DEF DispatchPick, PopNone
  <2>5. CASE PopFirst(cpu)
    BY <2>5 DEF PopFirst
  <2>6. CASE PickLookup(cpu)
    BY <2>1, <2>6 DEF PickLookup, GoneIsEmpty
  <2>7. CASE PickMove(cpu)
    BY <2>2, <2>7 DEF PickMove
  <2>8. CASE PickReadd(cpu)
    BY <2>1, <2>8 DEF PickReadd
  <2>9. CASE PickFindStash(cpu)
    BY <2>1, <2>9 DEF PickFindStash, GoneIsEmpty
  <2>10. CASE PickClear(cpu)
    BY <2>10 DEF PickClear
  <2>11. CASE PickCheck(cpu)
    BY <2>11 DEF PickCheck
  <2>12. CASE PickBack(cpu)
    BY <2>1, <2>12 DEF PickBack
  <2>13. CASE PickStash(cpu)
    BY <2>1, <2>13 DEF PickStash
  <2> QED
    BY <1>4, <2>3, <2>4, <2>5, <2>6, <2>7, <2>8, <2>9, <2>10, <2>11, <2>12, <2>13
    DEF Dispatch
<1> QED
  BY <1>1, <1>3, <1>4 DEF Next

-----------------------------------------------------------------------------
LEMMA StepInv == IInv /\ [Next]_vars => IInv'
<1> SUFFICES ASSUME IInv, [Next]_vars PROVE IInv'
  OBVIOUS
<1>1. CASE Next
  <2>1. TypeOK'
    BY <1>1, EnqueueType, DispatchType, CgroupType DEF IInv, Next
  <2> QED
    BY <1>1, <2>1, GoneIsEmptyStep, NodeStep, EarlyTaskSeenStep DEF IInv
<1>2. CASE UNCHANGED vars
  BY <1>2 DEF IInv, vars, cgroups, tasks, TypeOK, GoneIsEmpty, NodeIsBorn, NodeOnce,
     EarlyTaskSeen, HoldsNode
<1> QED
  BY <1>1, <1>2

THEOREM Invariance == Spec => []IInv
  BY InitInv, StepInv, PTL DEF Spec

(* Every variable keeps its type.                                          *)
THEOREM TypeCorrect == Spec => []TypeOK
  BY Invariance, PTL DEF IInv

(* A cgroup's node is in one place, and has one while the cgroup is there, *)
(* however enqueue, dispatch, removal and exit interleave.                 *)
THEOREM OneNode == Spec => []NodeOnce
  BY Invariance, PTL DEF IInv

(* Once a pick has cleared queued, no task that was put in the dispatch    *)
(* queue before it is overlooked.                                          *)
THEOREM EarlyTasksAreSeen == Spec => []EarlyTaskSeen
  BY Invariance, PTL DEF IInv

-----------------------------------------------------------------------------
(* The times' own part of TimeTypeOK.                                      *)
TimesOK ==
  /\ cvtime \in [Cgroups -> Int] /\ delta \in [Cgroups -> Int] /\ cvtimeNow \in Int
  /\ since \in [Cpus -> 0 .. MaxRun]
  /\ bypassed \in SUBSET {cpu \in Cpus : local[cpu] # None}
  /\ at \in [Cpus -> {"-", "stopped", "settle", "test", "wind", "cap"}]
  /\ val \in [Cpus -> Int]
  /\ ledger \in [Cgroups -> Int] /\ credit \in [Cgroups -> Int]
  /\ bypassTime \in [Cgroups -> 0 .. MaxBypass]
  /\ rounds \in Nat

(* What has been applied or waits to be, beyond what was charged.          *)
Excess(c) == cvtime[c] + delta[c] - ledger[c]

(* A CPU compares cvtime_now with the node it has just taken.              *)
Winding == \A cpu \in Cpus : at[cpu] \in {"test", "wind"} => pc[cpu] = "lookup"

(* Of the CPUs only one is within cgrp_cap_budget.                         *)
LoneCapper == \A d, e \in Cpus : at[d] = "cap" /\ at[e] = "cap" => d = e

(* Since its first read of the delta charges were only added, those of     *)
(* bypassed tasks: what the subtraction leaves will have been charged.     *)
CapperSees ==
  \A cpu \in Cpus : at[cpu] = "cap" =>
    /\ pc[cpu] \in {"add", "readd"}
    /\ val[cpu] <= delta[cg[cpu]]
    /\ Excess(cg[cpu]) + delta[cg[cpu]] - val[cpu] <= bypassTime[cg[cpu]]

ExcessBounded == \A c \in Cgroups : 0 <= Excess(c) /\ Excess(c) <= bypassTime[c]

ChargeInv == LoneCapper /\ CapperSees /\ ExcessBounded

-----------------------------------------------------------------------------
(* FlatcgTime implements FlatcgQueue.                                      *)

LEMMA TimeStep ==
  ASSUME TimeNext
  PROVE  [Next]_vars
<1>1. CASE \E c \in Cgroups : TimeCgroupInit(c) \/ TimeCgroupLeaves(c)
  BY <1>1 DEF TimeCgroupInit, TimeCgroupLeaves, Next, Cgroup
<1>2. ASSUME NEW cpu \in Cpus, Stopping(cpu) \/ Tick(cpu) \/ ReadDelta(cpu) \/ Settle(cpu)
                               \/ WindTest(cpu) \/ Wind(cpu)
      PROVE  UNCHANGED vars
  BY <1>2 DEF Stopping, Tick, ReadDelta, Settle, WindTest, Wind
<1>3. ASSUME NEW cpu \in Cpus,
             (\E t \in Tasks : TimeBypass(cpu, t)) \/ TimeLeaveCpu(cpu) \/ TimeEnqueue(cpu)
             \/ TimeAddToTree(cpu)
      PROVE  Enqueue(cpu)
  BY <1>3 DEF TimeBypass, TimeLeaveCpu, TimeEnqueue, TimeAddToTree, Enqueue
<1>4. ASSUME NEW cpu \in Cpus,
             TimePickReadd(cpu) \/ TimeDispatchKeep(cpu) \/ TimeDispatchPick(cpu)
             \/ TimePopNone(cpu) \/ TimePopFirst(cpu) \/ TimePick(cpu) \/ TimePickFails(cpu)
      PROVE  Dispatch(cpu)
  BY <1>4 DEF TimePickReadd, TimeDispatchKeep, TimeDispatchPick, TimePopNone,
     TimePopFirst, TimePick, TimePickFails, Dispatch
<1> QED
  BY <1>1, <1>2, <1>3, <1>4 DEF TimeNext, Next

(* Every behaviour of FlatcgTime is one of FlatcgQueue.                    *)
THEOREM Refinement == TimeSpec => Spec
<1>1. TimeInit => Init
  BY DEF TimeInit
<1>2. [TimeNext]_timeVars => [Next]_vars
  BY TimeStep DEF timeVars
<1> QED
  BY <1>1, <1>2, PTL DEF TimeSpec, Spec

LEMMA QueueInvariance == TimeSpec => []IInv
  BY Refinement, Invariance, PTL

-----------------------------------------------------------------------------
LEMMA TimesInit == TimeInit => TimesOK /\ ChargeInv
<1> USE TimeBoundsAssumption
<1>1. TimeInit => TimesOK
  BY DEF TimeInit, TimesOK
<1>2. TimeInit => ChargeInv
  BY DEF TimeInit, ChargeInv, LoneCapper, CapperSees, ExcessBounded, Excess
<1> QED
  BY <1>1, <1>2

(* Types.  Settle and the upfront charge compute with Slice and Price.     *)

LEMMA CostIsNat ==
  ASSUME NEW c \in Cgroups
  PROVE  SliceCost(c) \in Nat /\ Price[c] \in Nat
BY SliceAssumption, PriceAssumption DEF SliceCost

(* The node is charged with what the ledger shows, but for the excess.     *)
LEMMA ChargeStep ==
  ASSUME TimesOK, NEW cpu \in Cpus, NEW cost \in Nat, CapBudget(cpu, cost), cg[cpu] \in Cgroups
  PROVE  \E charged \in Int :
           LET c == cg[cpu] IN
             /\ cvtime' = [cvtime EXCEPT ![c] = charged]
             /\ delta' = [delta EXCEPT ![c] = delta[c] - val[cpu]]
             /\ ledger' = [ledger EXCEPT ![c] = ledger[c] + charged - cvtime[c] - delta[c]]
<1> DEFINE c == cg[cpu]
           charged == cvtime[c] + cost + delta[c]
           floor == cvtimeNow - Budget[c]
           capped == IF charged < floor THEN floor ELSE charged
<1>1. charged \in Int /\ floor \in Int /\ capped \in Int
  BY BudgetAssumption DEF TimesOK
<1>2. ledger[c] + cost + (capped - charged) = ledger[c] + capped - cvtime[c] - delta[c]
  <2>1. ledger[c] \in Int /\ cvtime[c] \in Int /\ delta[c] \in Int
    BY DEF TimesOK
  <2> HIDE DEF capped, c
  <2> QED
    BY <1>1, <2>1
<1>3. /\ cvtime' = [cvtime EXCEPT ![c] = capped]
      /\ delta' = [delta EXCEPT ![c] = delta[c] - val[cpu]]
      /\ ledger' = [ledger EXCEPT ![c] = ledger[c] + cost + (capped - charged)]
  BY DEF CapBudget, Charge
<1> HIDE DEF capped, charged
<1> QED
  BY <1>1, <1>2, <1>3

LEMMA ChargeType ==
  ASSUME TimesOK, TypeOK, NEW cpu \in Cpus, NEW cost \in Nat,
         CapBudget(cpu, cost), cg[cpu] \in Cgroups
  PROVE  /\ cvtime' \in [Cgroups -> Int] /\ delta' \in [Cgroups -> Int]
         /\ ledger' \in [Cgroups -> Int] /\ val' \in [Cpus -> Int]
         /\ at' \in [Cpus -> {"-", "stopped", "settle", "test", "wind", "cap"}]
<1>1. PICK charged \in Int :
        /\ cvtime' = [cvtime EXCEPT ![cg[cpu]] = charged]
        /\ delta' = [delta EXCEPT ![cg[cpu]] = delta[cg[cpu]] - val[cpu]]
        /\ ledger' = [ledger EXCEPT ![cg[cpu]] =
                        ledger[cg[cpu]] + charged - cvtime[cg[cpu]] - delta[cg[cpu]]]
  BY ChargeStep
<1>2. val' \in [Cpus -> Int] /\ at' \in [Cpus -> {"-", "stopped", "settle", "test", "wind", "cap"}]
  BY DEF TimesOK, CapBudget, Charge, Move
<1> QED
  BY <1>1, <1>2 DEF TimesOK

LEMMA TimesType ==
  ASSUME TimesOK, Winding, TypeOK, TypeOK', TimeNext
  PROVE  TimesOK'
<1> USE TimeBoundsAssumption, CostIsNat DEF TimesOK
<1>1. ASSUME NEW c \in Cgroups, TimeCgroupInit(c) \/ TimeCgroupLeaves(c)
      PROVE  TimesOK'
  BY <1>1 DEF TimeCgroupInit, TimeCgroupLeaves, CgroupInit, CgroupRemoved, CgroupExit,
     times, clock, books, tasks
<1>2. ASSUME NEW cpu \in Cpus, \E t \in Tasks : TimeBypass(cpu, t)
      PROVE  TimesOK'
  BY <1>2, NoneAssumption DEF TimeBypass, Bypass, books, TypeOK
<1>3. ASSUME NEW cpu \in Cpus, Stopping(cpu)
      PROVE  TimesOK'
  BY <1>3, CgroupOfAssumption DEF Stopping, Move, vars, tasks, TypeOK
<1>4. ASSUME NEW cpu \in Cpus, TimeLeaveCpu(cpu)
      PROVE  TimesOK'
  BY <1>4 DEF TimeLeaveCpu, EnqueuePreempted, Deschedule, Insert, Move, books, TypeOK
<1>5. ASSUME NEW cpu \in Cpus, TimeEnqueue(cpu)
      PROVE  TimesOK'
  BY <1>5 DEF TimeEnqueue, Announce, TakeFromStash, EnqueueWoken, Insert, times, clock,
     books, tasks
<1>6. ASSUME NEW cpu \in Cpus, Tick(cpu)
      PROVE  TimesOK'
  BY <1>6 DEF Tick, vars, tasks, TypeOK
<1>7. ASSUME NEW cpu \in Cpus, ReadDelta(cpu)
      PROVE  TimesOK'
  BY <1>7 DEF ReadDelta, Move, vars, tasks, books, TypeOK
<1>8. ASSUME NEW cpu \in Cpus, TimeAddToTree(cpu)
      PROVE  TimesOK'
  <2>1. cg[cpu] \in Cgroups
    BY <1>8 DEF TimeAddToTree, AddToTree, TypeOK
  <2> QED
    BY <1>8, <2>1, ChargeType DEF TimeAddToTree, AddToTree, CapBudget, Charge, tasks
<1>9. ASSUME NEW cpu \in Cpus, TimePickReadd(cpu)
      PROVE  TimesOK'
  <2>1. cg[cpu] \in Cgroups
    BY <1>9 DEF TimePickReadd, PickReadd, TypeOK
  <2>2. SliceCost(cg[cpu]) \in Nat
    BY <2>1
  <2>3. CapBudget(cpu, SliceCost(cg[cpu]))
    BY <1>9 DEF TimePickReadd
  <2>4. credit' \in [Cgroups -> Int] /\ UNCHANGED since
    BY <1>9, <2>1, <2>2 DEF TimePickReadd
  <2>5. UNCHANGED <<local, bypassed, cvtimeNow, bypassTime, rounds>>
    BY <1>9, <2>3 DEF TimePickReadd, PickReadd, CapBudget, Charge, tasks
  <2> QED
    BY <2>1, <2>2, <2>3, <2>4, <2>5, ChargeType
<1>10. ASSUME NEW cpu \in Cpus, TimeDispatchKeep(cpu)
       PROVE  TimesOK'
  BY <1>10, NoneAssumption DEF TimeDispatchKeep, DispatchKeep, MoveToLocal, times, clock,
     books, TypeOK
<1>11. ASSUME NEW cpu \in Cpus, TimeDispatchPick(cpu)
       PROVE  TimesOK'
  BY <1>11 DEF TimeDispatchPick, DispatchPick, Move, tasks, books
<1>12. ASSUME NEW cpu \in Cpus, Settle(cpu)
       PROVE  TimesOK'
  <2>1. TypeOK => findable \subseteq Cgroups
    BY DEF TypeOK
  <2> QED
    BY <1>12, <2>1, SliceAssumption DEF Settle, Move, vars, tasks
<1>13. ASSUME NEW cpu \in Cpus, TimePopNone(cpu) \/ TimePopFirst(cpu)
       PROVE  TimesOK'
  BY <1>13 DEF TimePopNone, TimePopFirst, PopNone, PopFirst, Move, times, clock, books, tasks
<1>14. ASSUME NEW cpu \in Cpus, WindTest(cpu) \/ Wind(cpu)
       PROVE  TimesOK'
  <2>1. cg[cpu] \in Cgroups
    BY <1>14 DEF WindTest, Wind, Winding, TypeOK
  <2> QED
    BY <1>14, <2>1 DEF WindTest, Wind, Move, vars, tasks, books, TypeOK
<1>15. ASSUME NEW cpu \in Cpus, TimePick(cpu)
       PROVE  TimesOK'
  BY <1>15, NoneAssumption DEF TimePick, PickMove, PickClear, PickCheck, MoveToLocal,
     times, clock, books, tasks, TypeOK
<1>16. ASSUME NEW cpu \in Cpus, TimePickFails(cpu)
       PROVE  TimesOK'
  BY <1>16 DEF TimePickFails, PickLookup, PickFindStash, PickStash, PickBack, clock, tasks,
     TypeOK
<1> QED
  BY <1>1, <1>2, <1>3, <1>4, <1>5, <1>6, <1>7, <1>8, <1>9, <1>10, <1>11, <1>12, <1>13,
     <1>14, <1>15, <1>16 DEF TimeNext

-----------------------------------------------------------------------------
(* The charges.  Most steps neither charge a cgroup nor enter or disturb   *)
(* cgrp_cap_budget.                                                        *)

LEMMA NoCharge ==
  ASSUME ChargeInv, UNCHANGED <<cvtime, delta, ledger, bypassTime>>,
         \A cpu \in Cpus : at'[cpu] = "cap" =>
           at[cpu] = "cap" /\ val'[cpu] = val[cpu] /\ pc'[cpu] = pc[cpu] /\ cg'[cpu] = cg[cpu]
  PROVE  ChargeInv'
BY DEF ChargeInv, LoneCapper, CapperSees, ExcessBounded, Excess

LEMMA WindingStep ==
  ASSUME Winding, TimesOK, TypeOK, TimeNext
  PROVE  Winding'
<1> USE DEF Winding, TimesOK, TypeOK
<1>1. ASSUME NEW c \in Cgroups, TimeCgroupInit(c) \/ TimeCgroupLeaves(c)
      PROVE  Winding'
  BY <1>1 DEF TimeCgroupInit, TimeCgroupLeaves, CgroupInit, CgroupRemoved, CgroupExit,
     times, clock
<1>2. ASSUME NEW cpu \in Cpus, (\E t \in Tasks : TimeBypass(cpu, t)) \/ Stopping(cpu) \/ Tick(cpu)
                               \/ ReadDelta(cpu) \/ WindTest(cpu) \/ Wind(cpu) \/ Settle(cpu)
      PROVE  Winding'
  BY <1>2 DEF TimeBypass, Bypass, Stopping, Tick, ReadDelta, WindTest, Wind, Settle, Move, vars
<1>3. ASSUME NEW cpu \in Cpus, TimeLeaveCpu(cpu) \/ TimeEnqueue(cpu)
      PROVE  Winding'
  BY <1>3 DEF TimeLeaveCpu, EnqueuePreempted, Deschedule, Insert, TimeEnqueue, Announce,
     TakeFromStash, EnqueueWoken, Goto, Move, times, clock
<1>4. ASSUME NEW cpu \in Cpus, TimeAddToTree(cpu) \/ TimePickReadd(cpu)
      PROVE  Winding'
  BY <1>4 DEF TimeAddToTree, TimePickReadd, AddToTree, PickReadd, CapBudget, Charge, Done,
     Goto, Move
<1>5. ASSUME NEW cpu \in Cpus, TimeDispatchKeep(cpu) \/ TimeDispatchPick(cpu)
      PROVE  Winding'
  BY <1>5 DEF TimeDispatchKeep, TimeDispatchPick, DispatchKeep, DispatchPick, Goto, Move,
     times, clock
<1>6. ASSUME NEW cpu \in Cpus, TimePopNone(cpu) \/ TimePopFirst(cpu)
      PROVE  Winding'
  BY <1>6 DEF TimePopNone, TimePopFirst, PopNone, PopFirst, Done, Goto, Move, times, clock
<1>7. ASSUME NEW cpu \in Cpus, TimePick(cpu) \/ TimePickFails(cpu)
      PROVE  Winding'
  BY <1>7 DEF TimePick, TimePickFails, PickMove, PickClear, PickCheck, PickLookup,
     PickFindStash, PickStash, PickBack, Retry, Done, Goto, times, clock
<1> QED
  BY <1>1, <1>2, <1>3, <1>4, <1>5, <1>6, <1>7 DEF TimeNext

LEMMA ChargeInvStep ==
  ASSUME ChargeInv, Winding, TimesOK, IInv, TimeNext
  PROVE  ChargeInv'
<1> USE DEF TimesOK, TypeOK, IInv
<1>1. ASSUME NEW c \in Cgroups, TimeCgroupInit(c)
      PROVE  ChargeInv'
  <2>1. \A cpu \in Cpus : at[cpu] = "cap" => cg[cpu] # c /\ cg[cpu] \in Cgroups
    BY <1>1 DEF TimeCgroupInit, CgroupInit, ChargeInv, CapperSees, NodeIsBorn, HoldsNode,
       EnqueueHolds, PickHolds
  <2>2. Excess(c)' = 0 /\ \A d \in Cgroups \ {c} : Excess(d)' = Excess(d)
    BY <1>1 DEF TimeCgroupInit, Excess
  <2>3. LoneCapper'
    BY <1>1 DEF TimeCgroupInit, clock, ChargeInv, LoneCapper
  <2>4. CapperSees'
    BY <1>1, <2>1, <2>2 DEF TimeCgroupInit, CgroupInit, clock, ChargeInv, CapperSees
  <2>5. ExcessBounded'
    BY <1>1, <2>2, TimeBoundsAssumption DEF TimeCgroupInit, ChargeInv, ExcessBounded
  <2> QED
    BY <2>3, <2>4, <2>5 DEF ChargeInv
<1>2. ASSUME NEW cpu \in Cpus, Stopping(cpu)
      PROVE  ChargeInv'
  <2> DEFINE c == CgroupOf[local[cpu]]
  <2>1. c \in Cgroups
    BY <1>2, CgroupOfAssumption DEF Stopping
  <2>2. PICK ran \in 1 .. (MaxBypass - bypassTime[c]) :
          /\ delta' = [delta EXCEPT ![c] = @ + ran]
          /\ ledger' = [ledger EXCEPT ![c] = @ + ran]
          /\ bypassTime' = [bypassTime EXCEPT ![c] = @ + ran]
    BY <1>2 DEF Stopping
  <2>3. ran \in Nat
    BY <2>1, <2>2, TimeBoundsAssumption
  <2>4. /\ \A d \in Cgroups : Excess(d)' = Excess(d)
        /\ \A d \in Cgroups : bypassTime'[d] - bypassTime[d] = delta'[d] - delta[d]
        /\ \A d \in Cgroups : delta'[d] >= delta[d] /\ bypassTime'[d] >= bypassTime[d]
        /\ \A d \in Cgroups : bypassTime'[d] \in Int /\ delta'[d] \in Int
    BY <1>2, <2>1, <2>2, <2>3 DEF Stopping, Excess
  <2>9. \A d \in Cgroups : Excess(d) \in Int /\ bypassTime[d] \in Int
    BY TimeBoundsAssumption DEF Excess
  <2>5. \A d \in Cpus : at'[d] = "cap" =>
          at[d] = "cap" /\ val'[d] = val[d] /\ pc'[d] = pc[d] /\ cg'[d] = cg[d]
    BY <1>2 DEF Stopping, Move, vars
  <2>6. LoneCapper'
    BY <2>5 DEF ChargeInv, LoneCapper
  <2>7. CapperSees'
    BY <2>4, <2>5, <2>9 DEF ChargeInv, CapperSees
  <2>8. ExcessBounded'
    BY <2>4, <2>9 DEF ChargeInv, ExcessBounded
  <2> QED
    BY <2>6, <2>7, <2>8 DEF ChargeInv
<1>3. ASSUME NEW cpu \in Cpus, ReadDelta(cpu)
      PROVE  ChargeInv'
  <2>1. cg[cpu] \in Cgroups
    BY <1>3 DEF ReadDelta
  <2> QED
    BY <1>3, <2>1 DEF ReadDelta, TreeLockFree, Move, vars, books, ChargeInv, LoneCapper,
       CapperSees, ExcessBounded, Excess
<1>4. ASSUME NEW cpu \in Cpus, NEW cost \in Nat, CapBudget(cpu, cost), cg[cpu] \in Cgroups
      PROVE  ChargeInv'
  <2> DEFINE c == cg[cpu]
  <2>1. PICK charged \in Int :
          /\ cvtime' = [cvtime EXCEPT ![c] = charged]
          /\ delta' = [delta EXCEPT ![c] = delta[c] - val[cpu]]
          /\ ledger' = [ledger EXCEPT ![c] = ledger[c] + charged - cvtime[c] - delta[c]]
    BY <1>4, ChargeStep
  <2>2. at[cpu] = "cap" /\ at' = [at EXCEPT ![cpu] = "-"] /\ UNCHANGED bypassTime
    BY <1>4 DEF CapBudget, Charge, Move
  <2>3. \A d \in Cpus : at'[d] # "cap"
    BY <2>2 DEF ChargeInv, LoneCapper
  <2>4. \A d \in Cgroups :
          Excess(d)' = IF d = c THEN Excess(d) + delta[c] - val[cpu] ELSE Excess(d)
    BY <1>4, <2>1 DEF Excess
  <2>5. \A d \in Cgroups : Excess(d) \in Int /\ bypassTime[d] \in Int
    BY TimeBoundsAssumption DEF Excess
  <2>6. ExcessBounded'
    BY <1>4, <2>2, <2>4, <2>5 DEF ChargeInv, CapperSees, ExcessBounded
  <2>7. LoneCapper'
    BY <2>3 DEF LoneCapper
  <2>8. CapperSees'
    BY <2>3 DEF CapperSees
  <2> QED
    BY <2>6, <2>7, <2>8 DEF ChargeInv
<1>5. ASSUME NEW cpu \in Cpus, TimeAddToTree(cpu) \/ TimePickReadd(cpu)
      PROVE  ChargeInv'
  <2>1. cg[cpu] \in Cgroups
    BY <1>5 DEF TimeAddToTree, AddToTree, TimePickReadd, PickReadd
  <2> QED
    BY <1>4, <1>5, <2>1, CostIsNat DEF TimeAddToTree, TimePickReadd
<1>6. ASSUME NEW cpu \in Cpus, Settle(cpu)
      PROVE  ChargeInv'
  <2>1. \A d \in Cpus : at'[d] # "cap"
    BY <1>6 DEF Settle, TreeLockFree, Move
  <2>2. \A c \in Cgroups : Excess(c)' = Excess(c)
    <3>1. CASE cur[cpu] \in findable
      <4> DEFINE toAdd == (val[cpu] - Slice) * Price[cur[cpu]]
      <4>1. toAdd \in Int /\ cur[cpu] \in Cgroups
        BY <3>1, SliceAssumption, CostIsNat
      <4>2. /\ delta' = [delta EXCEPT ![cur[cpu]] = @ + toAdd]
            /\ ledger' = [ledger EXCEPT ![cur[cpu]] = @ + toAdd]
            /\ UNCHANGED cvtime
        BY <1>6, <3>1 DEF Settle
      <4> HIDE DEF toAdd
      <4> QED
        BY <4>1, <4>2 DEF Excess
    <3>2. CASE cur[cpu] \notin findable
      BY <1>6, <3>2 DEF Settle, Excess
    <3> QED
      BY <3>1, <3>2
  <2> QED
    BY <1>6, <2>1, <2>2 DEF Settle, ChargeInv, LoneCapper, CapperSees, ExcessBounded
<1>7. ASSUME NEW c \in Cgroups, TimeCgroupLeaves(c)
      PROVE  ChargeInv'
  BY <1>7, NoCharge DEF TimeCgroupLeaves, CgroupRemoved, CgroupExit, times, clock, books
<1>8. ASSUME NEW cpu \in Cpus, (\E t \in Tasks : TimeBypass(cpu, t)) \/ TimeLeaveCpu(cpu)
                               \/ TimeEnqueue(cpu) \/ Tick(cpu)
      PROVE  ChargeInv'
  <2>1. CASE (\E t \in Tasks : TimeBypass(cpu, t)) \/ Tick(cpu)
    BY <2>1, NoCharge DEF TimeBypass, Bypass, Tick, vars, books
  <2>2. CASE TimeLeaveCpu(cpu)
    BY <2>2, NoCharge DEF TimeLeaveCpu, EnqueuePreempted, Deschedule, Insert, Goto, Move,
       books
  <2>3. CASE TimeEnqueue(cpu)
    BY <2>3, NoCharge DEF TimeEnqueue, Announce, TakeFromStash, EnqueueWoken, Insert, Goto,
       times, clock, books
  <2> QED
    BY <1>8, <2>1, <2>2, <2>3
<1>9. ASSUME NEW cpu \in Cpus,
             TimeDispatchKeep(cpu) \/ TimeDispatchPick(cpu) \/ TimePopNone(cpu)
             \/ TimePopFirst(cpu) \/ WindTest(cpu) \/ Wind(cpu)
      PROVE  ChargeInv'
  <2>1. CASE TimeDispatchKeep(cpu) \/ TimeDispatchPick(cpu)
    BY <2>1, NoCharge DEF TimeDispatchKeep, TimeDispatchPick, DispatchKeep, DispatchPick,
       Goto, Move, times, clock, books
  <2>2. CASE TimePopNone(cpu) \/ TimePopFirst(cpu)
    BY <2>2, NoCharge DEF TimePopNone, TimePopFirst, PopNone, PopFirst, Done, Goto, Move,
       times, clock, books
  <2>3. CASE WindTest(cpu) \/ Wind(cpu)
    BY <2>3, NoCharge DEF WindTest, Wind, Move, vars, books
  <2> QED
    BY <1>9, <2>1, <2>2, <2>3
<1>10. ASSUME NEW cpu \in Cpus, TimePick(cpu) \/ TimePickFails(cpu)
       PROVE  ChargeInv'
  BY <1>10, NoCharge DEF TimePick, TimePickFails, PickMove, PickClear, PickCheck, PickLookup,
     PickFindStash, PickStash, PickBack, Retry, Done, Goto, times, clock, books
<1> QED
  BY <1>1, <1>2, <1>3, <1>5, <1>6, <1>7, <1>8, <1>9, <1>10 DEF TimeNext

-----------------------------------------------------------------------------
TimeInv == TimesOK /\ Winding /\ ChargeInv

LEMMA TimeStepInv ==
  TimeInv /\ IInv /\ IInv' /\ [TimeNext]_timeVars => TimeInv'
<1> SUFFICES ASSUME TimeInv, IInv, IInv', [TimeNext]_timeVars PROVE TimeInv'
  OBVIOUS
<1>1. CASE TimeNext
  BY <1>1, TimesType, WindingStep, ChargeInvStep DEF TimeInv, IInv
<1>2. CASE UNCHANGED timeVars
  BY <1>2 DEF timeVars, vars, tasks, times, clock, books, TimeInv, TimesOK, Winding,
     ChargeInv, LoneCapper, CapperSees, ExcessBounded, Excess
<1> QED
  BY <1>1, <1>2

LEMMA TimeInvariance == TimeSpec => []TimeInv
<1>1. TimeInit => TimeInv
  BY TimesInit DEF TimeInit, TimeInv, Winding
<1> QED
  BY <1>1, TimeStepInv, QueueInvariance, PTL DEF TimeSpec

(* Every variable keeps its type, those of FlatcgQueue included.           *)
THEOREM TimeTypeCorrect == TimeSpec => []TimeTypeOK
<1>1. IInv /\ TimeInv => TimeTypeOK
  BY DEF IInv, TimeInv, TimesOK, TimeTypeOK
<1> QED
  BY <1>1, QueueInvariance, TimeInvariance, PTL

(* A charge made while another CPU takes the delta is not lost.            *)
THEOREM ChargesKept == TimeSpec => []NoChargeLost
<1>1. TimeInv => NoChargeLost
  BY DEF TimeInv, TimesOK, ChargeInv, ExcessBounded, Excess, NoChargeLost
<1> QED
  BY <1>1, TimeInvariance, PTL

(* Nor is it applied more than twice, however often that happens.          *)
THEOREM ChargesBounded == TimeSpec => []ChargedAtMostTwice
<1>1. TimeInv => ChargedAtMostTwice
  BY DEF TimeInv, TimesOK, ChargeInv, ExcessBounded, Excess, ChargedAtMostTwice
<1> QED
  BY <1>1, TimeInvariance, PTL
-----------------------------------------------------------------------------
(* Service ahead of its charge.  What is left of the slice that a CPU's    *)
(* current cgroup was charged: nothing from its settlement to the next     *)
(* pick, and less than nothing when it has run beyond it.                  *)
InPick == {"pop"} \cup PickHolds
Rest(cpu) ==
  IF at[cpu] = "settle" THEN Slice - val[cpu]
  ELSE IF pc[cpu] \in InPick THEN 0 ELSE Slice - since[cpu]
RestOf(c) == [cpu \in Cpus |-> IF cur[cpu] = c THEN Rest(cpu) ELSE 0]

(* The credit of a cgroup covers what is left of its slices on all CPUs.   *)
Prepaid == \A c \in findable : credit[c] >= Price[c] * SumOver(RestOf(c), Cpus)

(* A slice starts anew with a pick, and nobody serves or charges a cgroup  *)
(* that has yet to be made.                                                *)
SliceOK ==
  /\ \A cpu \in Cpus : /\ at[cpu] = "settle" => pc[cpu] = "pop"
                       /\ pc[cpu] \in InPick => since[cpu] = 0
                       /\ cur[cpu] \in born \cup {None}
  /\ \A c \in Cgroups \ born : credit[c] = 0

LEMMA SliceStep ==
  ASSUME SliceOK, TimesOK, IInv, TimeNext
  PROVE  SliceOK'
<1> USE DEF SliceOK, TimesOK, IInv, TypeOK, InPick, PickHolds
<1>1. ASSUME NEW c \in Cgroups, TimeCgroupInit(c) \/ TimeCgroupLeaves(c)
      PROVE  SliceOK'
  BY <1>1 DEF TimeCgroupInit, TimeCgroupLeaves, CgroupInit, CgroupRemoved, CgroupExit,
     times, clock, books
<1>2. ASSUME NEW cpu \in Cpus, (\E t \in Tasks : TimeBypass(cpu, t)) \/ Stopping(cpu)
                               \/ ReadDelta(cpu) \/ WindTest(cpu) \/ Wind(cpu)
      PROVE  SliceOK'
  BY <1>2 DEF TimeBypass, Bypass, Stopping, ReadDelta, WindTest, Wind, Move, vars, cgroups, books
<1>3. ASSUME NEW cpu \in Cpus, Tick(cpu)
      PROVE  SliceOK'
  BY <1>3, NoneAssumption DEF Tick, vars, cgroups
<1>4. ASSUME NEW cpu \in Cpus, Settle(cpu)
      PROVE  SliceOK'
  BY <1>4, NoneAssumption DEF Settle, Move, vars, cgroups
<1>5. ASSUME NEW cpu \in Cpus, TimeLeaveCpu(cpu) \/ TimeEnqueue(cpu)
      PROVE  SliceOK'
  BY <1>5 DEF TimeLeaveCpu, EnqueuePreempted, Deschedule, Insert, TimeEnqueue, Announce,
     TakeFromStash, EnqueueWoken, Goto, Move, times, clock, books, cgroups
<1>6. ASSUME NEW cpu \in Cpus, TimeAddToTree(cpu)
      PROVE  SliceOK'
  BY <1>6 DEF TimeAddToTree, AddToTree, CapBudget, Charge, Goto, Move, cgroups
<1>7. ASSUME NEW cpu \in Cpus, TimePickReadd(cpu)
      PROVE  SliceOK'
  <2>1. cg[cpu] \in born
    BY <1>7 DEF TimePickReadd, PickReadd, NodeIsBorn, HoldsNode
  <2> QED
    BY <1>7, <2>1 DEF TimePickReadd, PickReadd, CapBudget, Charge, Done, Goto, Move, cgroups
<1>8. ASSUME NEW cpu \in Cpus, TimeDispatchKeep(cpu) \/ TimeDispatchPick(cpu)
      PROVE  SliceOK'
  BY <1>8, TimeBoundsAssumption DEF TimeDispatchKeep, TimeDispatchPick, DispatchKeep, DispatchPick, Goto, Move,
     times, clock, books, cgroups
<1>9. ASSUME NEW cpu \in Cpus, TimePopNone(cpu) \/ TimePopFirst(cpu)
      PROVE  SliceOK'
  BY <1>9 DEF TimePopNone, TimePopFirst, PopNone, PopFirst, Done, Goto, Move, times, clock,
     books, cgroups
<1>10. ASSUME NEW cpu \in Cpus, TimePick(cpu)
       PROVE  SliceOK'
  BY <1>10 DEF TimePick, PickMove, PickClear, PickCheck, Goto, times, clock, books, cgroups
<1>11. ASSUME NEW cpu \in Cpus, TimePickFails(cpu)
       PROVE  SliceOK'
  BY <1>11, NoneAssumption DEF TimePickFails, PickLookup, PickFindStash, PickStash, PickBack,
     Retry, Done, Goto, clock, books, cgroups
<1> QED
  BY <1>1, <1>2, <1>3, <1>4, <1>5, <1>6, <1>7, <1>8, <1>9, <1>10, <1>11 DEF TimeNext

LEMMA RestType ==
  ASSUME TimesOK, TypeOK, NEW c
  PROVE  /\ \A cpu \in Cpus : RestOf(c)[cpu] \in Int
         /\ SumOver(RestOf(c), Cpus) \in Int
<1>1. \A cpu \in Cpus : RestOf(c)[cpu] \in Int
  BY SliceAssumption, TimeBoundsAssumption DEF RestOf, Rest, TimesOK
<1> QED
  BY <1>1, SumType, CpusAssumption

(* A step of one CPU keeps a cgroup covered if it adds to its credit what  *)
(* it adds to the slice that is left to that CPU, or more.                 *)
LEMMA CpuKeepsPrepaid ==
  ASSUME Prepaid, TimesOK, TypeOK, TimesOK', TypeOK', findable' \subseteq findable,
         NEW cpu \in Cpus,
         \A d \in Cpus \ {cpu} : /\ cur'[d] = cur[d] /\ pc'[d] = pc[d] /\ at'[d] = at[d]
                                 /\ val'[d] = val[d] /\ since'[d] = since[d],
         \A c \in findable' : \E x \in Int :
           /\ RestOf(c)'[cpu] = RestOf(c)[cpu] + x
           /\ credit'[c] >= credit[c] + Price[c] * x
  PROVE  Prepaid'
<1> SUFFICES ASSUME NEW c \in findable'
             PROVE  credit'[c] >= Price[c] * SumOver(RestOf(c)', Cpus)
  BY DEF Prepaid
<1> DEFINE r == RestOf(c)
           s == RestOf(c)'
           total == SumOver(r, Cpus)
<1>1. PICK x \in Int : s[cpu] = r[cpu] + x /\ credit'[c] >= credit[c] + Price[c] * x
  OBVIOUS
<1>2. /\ \A d \in Cpus : r[d] \in Int /\ s[d] \in Int
      /\ total \in Int
  <2>1. \A d \in Cpus : s[d] \in Int
    BY SliceAssumption, TimeBoundsAssumption DEF RestOf, Rest, TimesOK
  <2> QED
    BY <2>1, RestType
<1>3. \A d \in Cpus \ {cpu} : s[d] = r[d]
  BY DEF RestOf, Rest
<1>4. c \in Cgroups /\ credit[c] \in Int /\ credit'[c] \in Int /\ Price[c] \in Nat
  BY CostIsNat DEF TypeOK, TimesOK
<1>5. credit[c] >= Price[c] * total
  BY DEF Prepaid
<1> HIDE DEF r, s
<1>6. SumOver(s, Cpus) = total - r[cpu] + s[cpu]
  BY <1>2, <1>3, SumChange, CpusAssumption
<1>7. SumOver(s, Cpus) = total + x
  BY <1>1, <1>2, <1>6
<1> HIDE DEF total
<1>8. Price[c] * (total + x) = Price[c] * total + Price[c] * x
  BY <1>1, <1>2, <1>4
<1>9. credit'[c] >= Price[c] * SumOver(s, Cpus)
  <2>1. Price[c] * total \in Int /\ Price[c] * x \in Int
    BY <1>1, <1>2, <1>4
  <2> QED
    BY <1>1, <1>4, <1>5, <1>7, <1>8, <2>1
<1> QED
  BY <1>9 DEF s

LEMMA PrepaidStep ==
  ASSUME Prepaid, SliceOK, TimesOK, IInv, TimesOK', IInv', TimeNext
  PROVE  Prepaid'
<1> USE DEF IInv
<1> DEFINE Alone(cpu) ==
      \A d \in Cpus \ {cpu} : /\ cur'[d] = cur[d] /\ pc'[d] = pc[d] /\ at'[d] = at[d]
                              /\ val'[d] = val[d] /\ since'[d] = since[d]
    Same(cpu) ==
      /\ Alone(cpu)
      /\ UNCHANGED credit /\ findable' \subseteq findable
      /\ \A c \in Cgroups : RestOf(c)'[cpu] = RestOf(c)[cpu]
<1>s. ASSUME NEW cpu \in Cpus, Same(cpu)
      PROVE  Prepaid'
  <2>1. ASSUME NEW c \in findable'
        PROVE  RestOf(c)'[cpu] = RestOf(c)[cpu] + 0 /\ credit'[c] >= credit[c] + Price[c] * 0
    <3>1. c \in Cgroups /\ Price[c] \in Nat /\ credit[c] \in Int
      BY <2>1, CostIsNat DEF TypeOK, TimesOK
    <3> QED
      BY <1>s, <3>1, RestType
  <2> QED
    BY <1>s, <2>1, CpuKeepsPrepaid
<1>1. ASSUME NEW c \in Cgroups, TimeCgroupInit(c)
      PROVE  Prepaid'
  <2>1. \A d : RestOf(d)' = RestOf(d)
    BY <1>1 DEF TimeCgroupInit, CgroupInit, RestOf, Rest, clock
  <2>2. /\ \A d \in findable' : d = c \/ d \in findable
        /\ credit' = credit /\ c \notin born /\ c # None
    BY <1>1, NoneAssumption DEF TimeCgroupInit, CgroupInit
  <2>3. credit[c] = 0
    BY <2>2 DEF SliceOK
  <2>4. \A cpu \in Cpus : RestOf(c)[cpu] = 0
    BY <2>2 DEF SliceOK, RestOf
  <2>5. SumOver(RestOf(c), Cpus) = 0
    BY <2>4, SumOfNone, CpusAssumption
  <2>6. Price[c] * 0 = 0
    BY CostIsNat
  <2> QED
    BY <2>1, <2>2, <2>3, <2>5, <2>6 DEF Prepaid
<1>2. ASSUME NEW c \in Cgroups, TimeCgroupLeaves(c)
      PROVE  Prepaid'
  <2>1. \A d : RestOf(d)' = RestOf(d)
    BY <1>2 DEF TimeCgroupLeaves, CgroupRemoved, CgroupExit, times, clock, RestOf, Rest
  <2> QED
    BY <1>2, <2>1 DEF TimeCgroupLeaves, CgroupRemoved, CgroupExit, times, books, Prepaid
<1>3. ASSUME NEW cpu \in Cpus,
             (\E t \in Tasks : TimeBypass(cpu, t)) \/ Stopping(cpu) \/ ReadDelta(cpu)
             \/ WindTest(cpu) \/ Wind(cpu) \/ TimeLeaveCpu(cpu) \/ TimeEnqueue(cpu)
             \/ TimeAddToTree(cpu) \/ TimeDispatchKeep(cpu)
      PROVE  Prepaid'
  <2> USE DEF SliceOK, TimesOK, TypeOK, RestOf, Rest, InPick, PickHolds
  <2>1. CASE (\E t \in Tasks : TimeBypass(cpu, t)) \/ Stopping(cpu)
    <3>1. Same(cpu)
      BY <2>1 DEF TimeBypass, Bypass, Stopping, Move, vars, cgroups, books
    <3> QED
      BY <3>1, <1>s
  <2>2. CASE ReadDelta(cpu) \/ WindTest(cpu) \/ Wind(cpu)
    <3>1. Same(cpu)
      BY <2>2 DEF ReadDelta, WindTest, Wind, Move, vars, cgroups, books
    <3> QED
      BY <3>1, <1>s
  <2>3. CASE TimeLeaveCpu(cpu) \/ TimeEnqueue(cpu)
    <3>1. Same(cpu)
      BY <2>3 DEF TimeLeaveCpu, EnqueuePreempted, Deschedule, Insert, TimeEnqueue, Announce,
         TakeFromStash, EnqueueWoken, Goto, Move, times, clock, books, cgroups
    <3> QED
      BY <3>1, <1>s
  <2>4. CASE TimeAddToTree(cpu)
    <3>1. Same(cpu)
      BY <2>4 DEF TimeAddToTree, AddToTree, CapBudget, Charge, Goto, Move, cgroups
    <3> QED
      BY <3>1, <1>s
  <2>5. CASE TimeDispatchKeep(cpu)
    <3>1. Same(cpu)
      BY <2>5 DEF TimeDispatchKeep, DispatchKeep, times, clock, books, cgroups
    <3> QED
      BY <3>1, <1>s
  <2> QED
    BY <1>3, <2>1, <2>2, <2>3, <2>4, <2>5
<1>4. ASSUME NEW cpu \in Cpus, TimeDispatchPick(cpu)
      PROVE  Prepaid'
  <2>1. Same(cpu)
    BY <1>4, NoneAssumption DEF TimeDispatchPick, DispatchPick, Goto, Move, cgroups, books,
       SliceOK, TimesOK, TypeOK, RestOf, Rest, InPick, PickHolds
  <2> QED
    BY <2>1, <1>s
<1>5. ASSUME NEW cpu \in Cpus,
             TimePopNone(cpu) \/ TimePopFirst(cpu) \/ TimePick(cpu)
      PROVE  Prepaid'
  <2> USE NoneAssumption DEF SliceOK, TimesOK, TypeOK, RestOf, Rest, InPick, PickHolds
  <2>1. CASE TimePopNone(cpu) \/ TimePopFirst(cpu)
    <3>1. Same(cpu)
      BY <2>1 DEF TimePopNone, TimePopFirst, PopNone, PopFirst, Done, Goto, Move, times, clock,
         books, cgroups
    <3> QED
      BY <3>1, <1>s
  <2>2. CASE TimePick(cpu)
    <3>1. Same(cpu)
      BY <2>2 DEF TimePick, PickMove, PickClear, PickCheck, Goto, times, clock, books, cgroups
    <3> QED
      BY <3>1, <1>s
  <2> QED
    BY <1>5, <2>1, <2>2
(* What a running CPU uses up is no longer left of its slice.              *)
<1>6. ASSUME NEW cpu \in Cpus, Tick(cpu)
      PROVE  Prepaid'
  <2>1. Alone(cpu) /\ findable' \subseteq findable /\ cur' = cur
    BY <1>6 DEF Tick, vars, cgroups, TimesOK
  <2>2. ASSUME NEW c \in findable'
        PROVE  \E x \in Int : /\ RestOf(c)'[cpu] = RestOf(c)[cpu] + x
                              /\ credit'[c] >= credit[c] + Price[c] * x
    <3>1. c \in Cgroups /\ Price[c] \in Nat /\ credit[c] \in Int
      BY <2>1, CostIsNat DEF TypeOK, TimesOK
    <3>2. CASE cur[cpu] # c
      <4>1. RestOf(c)'[cpu] = RestOf(c)[cpu] + 0
        BY <2>1, <3>2 DEF RestOf
      <4>2. credit'[c] >= credit[c] + Price[c] * 0
        BY <1>6, <3>1, <3>2 DEF Tick, TimesOK
      <4> QED
        BY <4>1, <4>2
    <3>3. CASE cur[cpu] = c
      <4>1. RestOf(c)'[cpu] = RestOf(c)[cpu] + (-1)
        BY <1>6, <3>3, SliceAssumption, TimeBoundsAssumption
           DEF RestOf, Rest, Tick, vars, TimesOK, InPick, PickHolds
      <4>2. credit'[c] >= credit[c] - Price[c]
        BY <1>6, <3>1, <3>3 DEF Tick, TimesOK
      <4>3. credit[c] - Price[c] = credit[c] + Price[c] * (-1)
        BY <3>1
      <4> QED
        BY <4>1, <4>2, <4>3
    <3> QED
      BY <3>2, <3>3
  <2> QED
    BY <2>1, <2>2, CpuKeepsPrepaid
(* A settlement takes back what was left, or adds what was overrun.        *)
<1>7. ASSUME NEW cpu \in Cpus, Settle(cpu)
      PROVE  Prepaid'
  <2>1. Alone(cpu) /\ findable' = findable /\ cur' = cur
    BY <1>7 DEF Settle, Move, vars, cgroups, TimesOK
  <2>2. ASSUME NEW c \in findable'
        PROVE  \E x \in Int : /\ RestOf(c)'[cpu] = RestOf(c)[cpu] + x
                              /\ credit'[c] >= credit[c] + Price[c] * x
    <3>1. c \in Cgroups /\ Price[c] \in Nat /\ credit[c] \in Int
      BY <2>1, CostIsNat DEF TypeOK, TimesOK
    <3>2. CASE cur[cpu] # c
      <4>1. RestOf(c)'[cpu] = RestOf(c)[cpu] + 0
        BY <2>1, <3>2 DEF RestOf
      <4>2. credit'[c] >= credit[c] + Price[c] * 0
        BY <1>7, <3>1, <3>2 DEF Settle, TimesOK
      <4> QED
        BY <4>1, <4>2
    <3>3. CASE cur[cpu] = c
      <4> DEFINE x == val[cpu] - Slice
      <4>1. x \in Int
        BY SliceAssumption DEF TimesOK
      <4>2. RestOf(c)'[cpu] = RestOf(c)[cpu] + x
        BY <1>7, <3>3, SliceAssumption
           DEF RestOf, Rest, Settle, Move, vars, TimesOK, SliceOK, InPick, PickHolds
      <4>3. credit' = [credit EXCEPT ![c] = @ + x * Price[c]]
        BY <1>7, <2>1, <3>3 DEF Settle
      <4> HIDE DEF x
      <4>4. credit'[c] = credit[c] + x * Price[c]
        BY <3>1, <4>3 DEF TimesOK
      <4>5. x * Price[c] = Price[c] * x /\ x * Price[c] \in Int
        BY <3>1, <4>1
      <4> QED
        BY <3>1, <4>1, <4>2, <4>4, <4>5
    <3> QED
      BY <3>2, <3>3
  <2> QED
    BY <2>1, <2>2, CpuKeepsPrepaid
(* A slice that starts is charged, or given as credit when the tries have  *)
(* run out.                                                                *)
<1>8. ASSUME NEW cpu \in Cpus, NEW e, Alone(cpu), findable' = findable, cur'[cpu] = e,
             pc[cpu] \in InPick, at[cpu] # "settle", since'[cpu] = 0, at'[cpu] # "settle",
             pc'[cpu] = "idle",
             e # None => e \in Cgroups /\ credit' = [credit EXCEPT ![e] = @ + SliceCost(e)],
             e = None => UNCHANGED credit
      PROVE  Prepaid'
  <2>1. ASSUME NEW c \in findable'
        PROVE  \E x \in Int : /\ RestOf(c)'[cpu] = RestOf(c)[cpu] + x
                              /\ credit'[c] >= credit[c] + Price[c] * x
    <3>1. /\ c \in Cgroups /\ Price[c] \in Nat /\ credit[c] \in Int /\ c # None
          /\ SliceCost(c) \in Nat
      BY <1>8, CostIsNat, NoneAssumption DEF TypeOK, TimesOK
    <3>2. RestOf(c)[cpu] = 0
      BY <1>8 DEF RestOf, Rest
    <3>3. CASE e # c
      <4>1. RestOf(c)'[cpu] = 0 + 0
        BY <1>8, <3>3 DEF RestOf
      <4>2. credit'[c] >= credit[c] + Price[c] * 0
        BY <1>8, <3>1, <3>3 DEF TimesOK
      <4> QED
        BY <3>2, <4>1, <4>2
    <3>4. CASE e = c
      <4>1. RestOf(c)'[cpu] = 0 + Slice /\ Slice \in Int
        BY <1>8, <3>4, SliceAssumption DEF RestOf, Rest, InPick, PickHolds
      <4>2. credit'[c] = credit[c] + SliceCost(c)
        BY <1>8, <3>1, <3>4 DEF TimesOK
      <4>3. SliceCost(c) = Price[c] * Slice
        BY <3>1, SliceAssumption DEF SliceCost
      <4> QED
        BY <3>1, <3>2, <4>1, <4>2, <4>3
    <3> QED
      BY <3>3, <3>4
  <2> QED
    BY <1>8, <2>1, CpuKeepsPrepaid
<1>9. ASSUME NEW cpu \in Cpus, TimePickReadd(cpu)
      PROVE  Prepaid'
  <2>1. /\ Alone(cpu) /\ findable' = findable /\ cur'[cpu] = cg[cpu] /\ pc[cpu] \in InPick
        /\ at[cpu] # "settle" /\ since'[cpu] = 0 /\ at'[cpu] # "settle" /\ pc'[cpu] = "idle"
    BY <1>9 DEF TimePickReadd, PickReadd, CapBudget, Charge, Done, Goto, Move, cgroups,
       TimesOK, TypeOK, SliceOK, InPick, PickHolds
  <2>2. /\ cg[cpu] \in Cgroups
        /\ credit' = [credit EXCEPT ![cg[cpu]] = @ + SliceCost(cg[cpu])]
    BY <1>9 DEF TimePickReadd, PickReadd, TypeOK
  <2> QED
    BY <1>8, <2>1, <2>2, NoneAssumption
<1>10. ASSUME NEW cpu \in Cpus, TimePickFails(cpu)
       PROVE  Prepaid'
  <2>1. /\ Alone(cpu) /\ findable' = findable /\ cur' = cur /\ UNCHANGED clock
        /\ pc[cpu] \in InPick /\ pc'[cpu] \in InPick \cup {"idle"} /\ at[cpu] = "-"
        /\ since[cpu] = 0
    BY <1>10 DEF TimePickFails, PickLookup, PickFindStash, PickStash, PickBack, Retry, Done,
       Goto, clock, cgroups, TimesOK, TypeOK, SliceOK, InPick, PickHolds
  <2>2. CASE pc'[cpu] = "idle"
    <3>1. cur[cpu] # None => /\ cur[cpu] \in Cgroups
                             /\ credit' = [credit EXCEPT ![cur[cpu]] = @ + SliceCost(cur[cpu])]
      BY <1>10, <2>2 DEF TimePickFails, TypeOK
    <3>2. cur[cpu] = None => UNCHANGED credit
      BY <1>10 DEF TimePickFails
    <3>3. since'[cpu] = 0 /\ at'[cpu] # "settle"
      BY <2>1 DEF clock
    <3> QED
      BY <1>8, <2>1, <2>2, <3>1, <3>2, <3>3
  <2>3. CASE pc'[cpu] # "idle"
    <3>1. UNCHANGED credit
      BY <1>10, <2>3 DEF TimePickFails
    <3>2. Same(cpu)
      BY <2>1, <2>3, <3>1 DEF clock, RestOf, Rest
    <3> QED
      BY <1>s, <3>2
  <2> QED
    BY <2>2, <2>3
<1> QED
  BY <1>1, <1>2, <1>3, <1>4, <1>5, <1>6, <1>7, <1>9, <1>10 DEF TimeNext

(* What is left of the slices, and what was run beyond them, is never      *)
(* negative in sum.                                                        *)
LEMMA CoveredWithOverruns ==
  ASSUME Prepaid, TimesOK, TypeOK
  PROVE  ServedWhenCharged
<1> SUFFICES ASSUME NEW c \in findable
             PROVE  credit[c] + Price[c] * SumOver(Overrun, {cpu \in Cpus : cur[cpu] = c}) >= 0
  BY DEF ServedWhenCharged, SumOver
<1> DEFINE mine == {cpu \in Cpus : cur[cpu] = c}
           r == RestOf(c)
           both == [cpu \in Cpus |-> r[cpu] + Overrun[cpu]]
<1>1. /\ c \in Cgroups /\ credit[c] \in Int /\ Price[c] \in Nat
      /\ credit[c] >= Price[c] * SumOver(r, Cpus)
  BY CostIsNat DEF TypeOK, TimesOK, Prepaid
<1>2. IsFiniteSet(mine) /\ mine \subseteq Cpus
  BY CpusAssumption, FS_Subset
<1>3. \A cpu \in Cpus : r[cpu] \in Int /\ Overrun[cpu] \in Int
  BY RestType, SliceAssumption, TimeBoundsAssumption DEF Overrun, TimesOK
<1>4. SumOver(r, Cpus) = SumOver(r, mine)
  <2> DEFINE others == Cpus \ mine
  <2>1. \A cpu \in others : r[cpu] = 0
    BY DEF RestOf
  <2> QED
    BY <1>2, <1>3, <2>1, SumWithZeros, CpusAssumption
<1>5. \A cpu \in mine : both[cpu] \in Nat
  <2> SUFFICES ASSUME NEW cpu \in mine PROVE both[cpu] \in Nat
    OBVIOUS
  <2>1. cur[cpu] = c /\ cpu \in Cpus
    OBVIOUS
  <2> QED
    BY <2>1, SliceAssumption, TimeBoundsAssumption DEF RestOf, Rest, Overrun, TimesOK
<1> DEFINE a == SumOver(r, mine)
           b == SumOver(Overrun, mine)
<1>6. a \in Int /\ b \in Int /\ SumOver(both, mine) = a + b /\ SumOver(both, mine) \in Nat
  <2>1. \A cpu \in mine : r[cpu] \in Int /\ Overrun[cpu] \in Int /\ both[cpu] = r[cpu] + Overrun[cpu]
    BY <1>2, <1>3
  <2> HIDE DEF mine, r, both
  <2> QED
    BY <1>2, <1>5, <2>1, SumType, SumPlus, SumNat
<1> HIDE DEF mine, r, both, a, b
<1>7. Price[c] * a + Price[c] * b = Price[c] * (a + b) /\ Price[c] * (a + b) >= 0
      /\ Price[c] * a \in Int /\ Price[c] * b \in Int
  BY <1>1, <1>6
<1>8. credit[c] >= Price[c] * a
  BY <1>1, <1>4 DEF a
<1>9. credit[c] + Price[c] * b >= 0
  BY <1>1, <1>7, <1>8
<1> QED
  BY <1>9 DEF b, mine

LEMMA ServiceInvariance == TimeSpec => [](SliceOK /\ Prepaid)
<1>1. TimeInit => SliceOK /\ Prepaid
  BY DEF TimeInit, Init, SliceOK, Prepaid, InPick, PickHolds
<1>2. /\ SliceOK /\ Prepaid /\ TimeInv /\ IInv /\ TimeInv' /\ IInv' /\ [TimeNext]_timeVars
      => (SliceOK /\ Prepaid)'
  <2> SUFFICES ASSUME SliceOK, Prepaid, TimeInv, IInv, TimeInv', IInv', [TimeNext]_timeVars
               PROVE  (SliceOK /\ Prepaid)'
    OBVIOUS
  <2>1. CASE TimeNext
    BY <2>1, SliceStep, PrepaidStep DEF TimeInv
  <2>2. CASE UNCHANGED timeVars
    BY <2>2 DEF timeVars, vars, cgroups, times, clock, books, SliceOK, Prepaid, RestOf, Rest
  <2> QED
    BY <2>1, <2>2
<1> QED
  BY <1>1, <1>2, TimeInvariance, QueueInvariance, PTL DEF TimeSpec

(* No cgroup is served ahead of its charges, but for what is still to be   *)
(* settled: every slice that starts was charged, and what is given back    *)
(* when it ends was left of it.                                            *)
THEOREM ServiceIsCharged == TimeSpec => []ServedWhenCharged
<1>1. Prepaid /\ TimeInv /\ IInv => ServedWhenCharged
  BY CoveredWithOverruns DEF TimeInv, IInv
<1> QED
  BY <1>1, ServiceInvariance, TimeInvariance, QueueInvariance, PTL
=============================================================================
