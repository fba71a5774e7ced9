------------------------ MODULE FlatcgWeightsProofs ------------------------
(***************************************************************************)
(* Wake-ups and sleeps that overtake each other on their way to the root   *)
(* never miscount the active children of a cgroup nor the sum of their     *)
(* weights, in any tree and on any number of CPUs.                         *)
(***************************************************************************)
EXTENDS FlatcgWeights, DataFacts

NonRoot == Cgroups \ {Root}

(* Where a CPU is at each label of a handler.                              *)
HandlerOK(cpu) ==
  /\ op[cpu] = "refresh" => pc[cpu] \notin {"propagate", "expire"} /\ task[cpu] = None
  /\ op[cpu] # "refresh" => /\ pc[cpu] # "idle" /\ task[cpu] \in Tasks
                            /\ cgrp[cpu] = CgroupOf[task[cpu]]
  /\ op[cpu] = "runnable" => task[cpu] \in runnable
  /\ pc[cpu] # "idle" => cgrp[cpu] \in NonRoot
  /\ pc[cpu] \in {"propagate", "refresh_level"} => level[cpu] \in 1 .. Level[cgrp[cpu]]
HandlersOK ==
  /\ \A cpu \in Cpus : HandlerOK(cpu)
  /\ \A a, b \in Cpus : task[a] = task[b] /\ task[a] # None => a = b

RunnableIn(c) == {t \in runnable : CgroupOf[t] = c}
RunnableCounted == \A c \in Cgroups : nr_runnable[c] = Cardinality(RunnableIn(c))

(* A task that wakes its cgroup keeps it awake until the handler returns.  *)
OneWaker ==
  \A a, b \in Cpus : op[a] = "runnable" /\ op[b] = "runnable" /\ cgrp[a] = cgrp[b] => a = b

(* The cgroup whose nr_active the walk of a CPU has yet to change, and     *)
(* those it has been through.                                              *)
At(cpu) == IF pc[cpu] = "propagate" THEN Ancestor(cgrp[cpu], level[cpu]) ELSE cgrp[cpu]
Waking(cpu) == op[cpu] = "runnable" /\ pc[cpu] = "propagate"
Wakers(c) == {cpu \in Cpus : Waking(cpu) /\ At(cpu) = c}
Sleeping(cpu) == op[cpu] = "quiescent" /\ pc[cpu] # "expire"
Sleepers(c) == {cpu \in Cpus : Sleeping(cpu) /\ At(cpu) = c}
Passed(cpu, l) == l \in (level[cpu] + 1) .. Level[cgrp[cpu]]

(* A walk that wakes leaves its path active behind it, and no two of them  *)
(* have both woken the cgroup that one is about to report.                 *)
PathsActive ==
  \A cpu \in Cpus, l \in Nat :
    Waking(cpu) /\ Passed(cpu, l) => Active(Ancestor(cgrp[cpu], l))
ReportedOnce ==
  \A a, b \in Cpus :
    LET l == level[a] + 1 IN
      Waking(a) /\ Waking(b) /\ Passed(a, l) /\ Passed(b, l)
        /\ Ancestor(cgrp[a], l) = Ancestor(cgrp[b], l) => a = b

(* nr_active is what it should be, but for the walks still to come.        *)
Base(c) ==
  IF c \in Leaves THEN IF nr_runnable[c] > 0 THEN 1 ELSE 0 ELSE Cardinality(ActiveChildren(c))
Balanced ==
  \A c \in NonRoot :
    nr_active[c] + Cardinality(Wakers(c)) = Base(c) + Cardinality(Sleepers(c))

WalkInv == HandlersOK /\ RunnableCounted /\ OneWaker /\ PathsActive /\ ReportedOnce /\ Balanced
IInv == TypeOK /\ WalkInv /\ SumOfActive

-----------------------------------------------------------------------------
(* The tree.                                                               *)

LEMMA AncestorUp ==
  ASSUME NEW c \in Cgroups
  PROVE  /\ Level[c] \in Nat /\ Ancestor(c, Level[c]) = c
         /\ \A l \in 1 .. Level[c] : /\ Ancestor(c, l) \in NonRoot /\ Level[Ancestor(c, l)] = l
                                     /\ Parent[Ancestor(c, l)] = Ancestor(c, l - 1)
<1> DEFINE up == CHOOSE up : Iterates(up, Parent, c, Nat)
           n == Level[c]
<1>1. Iterates(up, Parent, c, Nat)
  BY IterateExists
<1>2. \A l : Ancestor(c, l) = up[n - l]
  BY DEF Ancestor, Iterates
<1>n. n \in Nat
  BY TreeAssumption
<1> HIDE DEF up
<1>3. up[0] = c /\ \A k \in Nat : up[k + 1] = Parent[up[k]]
  <2>1. \A k \in Nat : k + 1 \in Nat /\ k + 1 # 0 /\ (k + 1) - 1 = k
    OBVIOUS
  <2>2. \A k \in Nat : up[k] = IF k = 0 THEN c ELSE Parent[up[k - 1]]
    BY <1>1 DEF Iterates
  <2> QED
    BY <2>1, <2>2
<1> DEFINE A == {k \in Nat : k <= n => up[k] \in Cgroups /\ Level[up[k]] = n - k}
<1>4. 0 \in A
  BY <1>3, <1>n
<1>5. ASSUME NEW k \in Nat, k \in A
      PROVE  k + 1 \in A
  <2> SUFFICES ASSUME k + 1 <= n
               PROVE  up[k + 1] \in Cgroups /\ Level[up[k + 1]] = n - (k + 1)
    OBVIOUS
  <2>1. up[k] \in Cgroups /\ Level[up[k]] = n - k /\ Level[up[k]] # 0
    BY <1>5, <1>n
  <2>2. up[k] \in Cgroups \ {Root}
    BY <2>1, TreeAssumption
  <2>3. /\ up[k + 1] = Parent[up[k]] /\ Parent[up[k]] \in Cgroups
        /\ Level[up[k]] = Level[Parent[up[k]]] + 1
    BY <1>3, <2>2, TreeAssumption
  <2>4. Level[up[k + 1]] \in Nat
    BY <2>3, TreeAssumption
  <2> QED
    BY <1>n, <2>1, <2>3, <2>4
<1>6. \A k \in Nat : k \in A
  <2> HIDE DEF A
  <2> QED
    BY <1>4, <1>5, NumberInduction
<1>7. Ancestor(c, n) = c
  BY <1>2, <1>3, <1>n
<1>8. ASSUME NEW l \in 1 .. n
      PROVE  /\ Ancestor(c, l) \in NonRoot /\ Level[Ancestor(c, l)] = l
             /\ Parent[Ancestor(c, l)] = Ancestor(c, l - 1)
  <2>1. n - l \in Nat /\ n - l <= n /\ n - (n - l) = l /\ n - (l - 1) = (n - l) + 1 /\ l # 0
    BY <1>n
  <2>2. up[n - l] \in Cgroups /\ Level[up[n - l]] = l
    BY <1>6, <2>1
  <2>3. up[n - l] # Root
    BY <2>1, <2>2, TreeAssumption
  <2>4. Ancestor(c, l) = up[n - l] /\ Ancestor(c, l - 1) = up[(n - l) + 1]
    BY <1>2, <2>1
  <2> QED
    BY <1>3, <2>1, <2>2, <2>3, <2>4 DEF NonRoot
<1> QED
  BY <1>7, <1>8, <1>n

LEMMA LeafOfTask ==
  ASSUME NEW t \in Tasks
  PROVE  CgroupOf[t] \in NonRoot /\ CgroupOf[t] \in Leaves /\ CgroupOf[t] \in Cgroups
  BY TasksAssumption DEF NonRoot, Leaves, Children

LEMMA FiniteSets ==
  /\ \A c : IsFiniteSet(ActiveChildren(c)) /\ Cardinality(ActiveChildren(c)) \in Nat
  /\ \A c : IsFiniteSet(Wakers(c)) /\ Cardinality(Wakers(c)) \in Nat
  /\ \A c : IsFiniteSet(Sleepers(c)) /\ Cardinality(Sleepers(c)) \in Nat
<1>1. \A c : ActiveChildren(c) \in SUBSET Cgroups
  BY DEF ActiveChildren, Children
<1>2. \A c : Wakers(c) \in SUBSET Cpus /\ Sleepers(c) \in SUBSET Cpus
  BY DEF Wakers, Sleepers
<1> QED
  BY <1>1, <1>2, FiniteAssumption, FS_Subset, FS_CardinalityType

(* A leaf is the ancestor of itself only.                                  *)
LEMMA LeafAncestor ==
  ASSUME NEW c \in Cgroups, NEW l \in 1 .. Level[c], Ancestor(c, l) \in Leaves
  PROVE  l = Level[c] /\ Ancestor(c, l) = c
<1>1. CASE l + 1 \in 1 .. Level[c]
  <2>1. (l + 1) - 1 = l
    BY AncestorUp
  <2>2. Ancestor(c, l + 1) \in NonRoot /\ Parent[Ancestor(c, l + 1)] = Ancestor(c, l)
    BY <1>1, <2>1, AncestorUp
  <2> QED
    BY <2>2 DEF Leaves, Children, NonRoot
<1> QED
  BY <1>1, AncestorUp

LEMMA WakerAt ==
  ASSUME HandlersOK, NEW b \in Cpus, Waking(b)
  PROVE  /\ At(b) = Ancestor(cgrp[b], level[b]) /\ At(b) \in NonRoot
         /\ level[b] \in 1 .. Level[cgrp[b]] /\ Level[At(b)] = level[b]
         /\ cgrp[b] \in NonRoot /\ cgrp[b] \in Leaves /\ cgrp[b] = CgroupOf[task[b]]
         /\ task[b] \in RunnableIn(cgrp[b]) /\ cgrp[b] \in Cgroups
<1>1. HandlerOK(b)
  BY DEF HandlersOK
<1>2. /\ pc[b] = "propagate" /\ task[b] \in Tasks /\ cgrp[b] = CgroupOf[task[b]]
      /\ task[b] \in runnable /\ level[b] \in 1 .. Level[cgrp[b]]
  BY <1>1 DEF HandlerOK, Waking
<1>3. cgrp[b] \in NonRoot /\ cgrp[b] \in Leaves /\ cgrp[b] \in Cgroups
  BY <1>2, LeafOfTask
<1>4. At(b) = Ancestor(cgrp[b], level[b])
  BY <1>2 DEF At
<1>5. At(b) \in NonRoot /\ Level[At(b)] = level[b]
  BY <1>2, <1>3, <1>4, AncestorUp
<1> QED
  BY <1>2, <1>3, <1>4, <1>5 DEF RunnableIn

LEMMA RunnablePositive ==
  ASSUME TypeOK, RunnableCounted, NEW c \in Cgroups
  PROVE  nr_runnable[c] > 0 <=> RunnableIn(c) # {}
<1>1. RunnableIn(c) \in SUBSET Tasks
  BY DEF RunnableIn, TypeOK
<1>2. IsFiniteSet(RunnableIn(c))
  BY <1>1, FiniteAssumption, FS_Subset
<1>3. Cardinality(RunnableIn(c)) \in Nat /\ (Cardinality(RunnableIn(c)) = 0 <=> RunnableIn(c) = {})
  BY <1>2, FS_CardinalityType, FS_EmptySet
<1> QED
  BY <1>3 DEF RunnableCounted

(* The walks that have a wake-up to report to a cgroup are no more than    *)
(* its active children, and fewer when one has been through it already:    *)
(* nr_active is not negative, and one on that path is not cleared.         *)
LEMMA WakersBelowBase ==
  ASSUME TypeOK, WalkInv, NEW c \in NonRoot
  PROVE  /\ Base(c) \in Nat
         /\ Cardinality(Wakers(c)) <= Base(c)
         /\ \A a \in Cpus : Waking(a) /\ Passed(a, Level[c]) /\ Ancestor(cgrp[a], Level[c]) = c
              => Cardinality(Wakers(c)) < Base(c)
<1> USE DEF WalkInv
<1>c. c \in Cgroups /\ Level[c] \in Nat
  BY TreeAssumption DEF NonRoot
<1>b. Base(c) \in Nat
  BY FiniteSets DEF Base
<1>p. ASSUME NEW a \in Cpus, Waking(a), Passed(a, Level[c])
      PROVE  level[a] + 1 \in 1 .. Level[cgrp[a]] /\ Level[c] \in 1 .. Level[cgrp[a]]
             /\ level[a] < Level[c]
  <2>1. level[a] \in Nat /\ Level[cgrp[a]] \in Nat
    BY <1>p, WakerAt, AncestorUp DEF TypeOK
  <2> QED
    BY <1>p, <2>1 DEF Passed
<1>1. CASE c \in Leaves
  <2>1. \A b \in Wakers(c) : cgrp[b] = c /\ RunnableIn(c) # {} /\ level[b] = Level[c]
    BY <1>1, WakerAt, LeafAncestor DEF Wakers
  <2>2. ASSUME NEW b \in Wakers(c)
        PROVE  Wakers(c) = {b} /\ nr_runnable[c] > 0
    <3>1. \A d \in Wakers(c) : d = b
      BY <2>1, <2>2 DEF OneWaker, Wakers, Waking
    <3> QED
      BY <1>c, <2>1, <2>2, <3>1, RunnablePositive
  <2>3. Cardinality(Wakers(c)) <= Base(c)
    <3>1. CASE Wakers(c) = {}
      BY <3>1, <1>b, FS_EmptySet
    <3>2. CASE Wakers(c) # {}
      <4>1. PICK b \in Wakers(c) : TRUE
        BY <3>2
      <4>2. Cardinality(Wakers(c)) = 1 /\ Base(c) = 1
        BY <1>1, <2>2, <4>1, FS_Singleton DEF Base
      <4> QED
        BY <4>2
    <3> QED
      BY <3>1, <3>2
  <2>4. ASSUME NEW a \in Cpus, Waking(a), Passed(a, Level[c]), Ancestor(cgrp[a], Level[c]) = c
        PROVE  Cardinality(Wakers(c)) < Base(c)
    <3>1. cgrp[a] = c /\ RunnableIn(c) # {} /\ level[a] < Level[c]
      BY <1>1, <1>p, <2>4, LeafAncestor, WakerAt
    <3>2. Wakers(c) = {}
      BY <1>c, <2>1, <2>4, <3>1 DEF OneWaker, Wakers, Waking
    <3>3. Base(c) = 1
      BY <1>1, <1>c, <3>1, RunnablePositive DEF Base
    <3> QED
      BY <3>2, <3>3, FS_EmptySet
  <2> QED
    BY <1>b, <2>3, <2>4
<1>2. CASE c \notin Leaves
  <2> DEFINE W == Wakers(c)
             C == ActiveChildren(c)
             via == [b \in W |-> Ancestor(cgrp[b], level[b] + 1)]
  <2>1. ASSUME NEW b \in W
        PROVE  /\ Waking(b) /\ b \in Cpus /\ level[b] = Level[c] /\ Passed(b, level[b] + 1)
               /\ via[b] = Ancestor(cgrp[b], Level[c] + 1)
               /\ via[b] \in C
    <3>1. /\ b \in Cpus /\ Waking(b) /\ At(b) = c /\ level[b] = Level[c]
          /\ c = Ancestor(cgrp[b], level[b]) /\ level[b] \in 1 .. Level[cgrp[b]]
          /\ cgrp[b] \in Leaves /\ cgrp[b] \in Cgroups
      BY <2>1, WakerAt DEF Wakers
    <3>2. level[b] # Level[cgrp[b]] /\ Level[cgrp[b]] \in Nat
      BY <1>2, <3>1, AncestorUp
    <3>3. level[b] + 1 \in 1 .. Level[cgrp[b]] /\ (level[b] + 1) - 1 = level[b]
      BY <3>1, <3>2
    <3>4. Passed(b, level[b] + 1)
      BY <3>2, <3>3 DEF Passed
    <3>5. Active(Ancestor(cgrp[b], level[b] + 1))
      BY <3>1, <3>3, <3>4 DEF PathsActive
    <3>6. /\ Ancestor(cgrp[b], level[b] + 1) \in NonRoot
          /\ Parent[Ancestor(cgrp[b], level[b] + 1)] = c
      BY <3>1, <3>3, AncestorUp
    <3> QED
      BY <3>1, <3>4, <3>5, <3>6 DEF ActiveChildren, Children, NonRoot
  <2>2. \A b, d \in W : via[b] = via[d] => b = d
    BY <2>1 DEF ReportedOnce
  <2>3. IsFiniteSet(C) /\ Base(c) = Cardinality(C)
    BY <1>2, FiniteSets DEF Base
  <2>4. Cardinality(W) <= Base(c)
    <3>1. via \in Injection(W, C)
      <4> HIDE DEF W, C
      <4>1. via \in [W -> C]
        BY <2>1
      <4> QED
        BY <2>2, <4>1 DEF Injection, IsInjective
    <3> QED
      BY <2>3, <3>1, FS_Injection
  <2>5. ASSUME NEW a \in Cpus, Waking(a), Passed(a, Level[c]), Ancestor(cgrp[a], Level[c]) = c
        PROVE  Cardinality(W) < Base(c)
    <3> DEFINE l == Level[c] + 1
               e == Ancestor(cgrp[a], l)
    <3>1. /\ Level[c] \in 1 .. Level[cgrp[a]] /\ level[a] < Level[c]
          /\ cgrp[a] \in Leaves /\ cgrp[a] \in Cgroups /\ level[a] \in Nat
      BY <1>p, <2>5, WakerAt
    <3>2. Level[c] # Level[cgrp[a]] /\ Level[cgrp[a]] \in Nat
      BY <1>2, <2>5, <3>1, AncestorUp
    <3>3. l \in 1 .. Level[cgrp[a]] /\ l - 1 = Level[c] /\ Passed(a, l) /\ l \in Nat
      BY <1>c, <3>1, <3>2 DEF Passed
    <3>4. Active(e) /\ e \in NonRoot /\ Parent[e] = c
      BY <2>5, <3>1, <3>3, AncestorUp DEF PathsActive
    <3>5. e \in C
      BY <3>4 DEF ActiveChildren, Children, NonRoot
    <3>6. \A b \in W : via[b] # e
      BY <2>1, <2>5, <3>1, <3>3 DEF ReportedOnce
    <3>7. via \in Injection(W, C \ {e})
      <4> HIDE DEF W, C, e
      <4>1. via \in [W -> C \ {e}]
        BY <2>1, <3>6
      <4> QED
        BY <2>2, <4>1 DEF Injection, IsInjective
    <3>8. IsFiniteSet(C \ {e}) /\ Cardinality(C \ {e}) = Cardinality(C) - 1 /\ Cardinality(C) \in Nat
      <4> HIDE DEF C, e
      <4> QED
        BY <2>3, <3>5, FS_RemoveElement, FS_CardinalityType
    <3>9. Cardinality(W) <= Cardinality(C \ {e})
      BY <3>7, <3>8, FS_Injection
    <3> HIDE DEF W, C, e
    <3> QED
      BY <2>3, <3>8, <3>9, FiniteSets DEF W
  <2> QED
    BY <1>b, <2>4, <2>5
<1> QED
  BY <1>1, <1>2

-----------------------------------------------------------------------------
(* The handlers.                                                           *)

LEMMA OthersKeep ==
  ASSUME TypeOK, NEW cpu \in Cpus, Cpu(cpu), NEW d \in Cpus, d # cpu
  PROVE  /\ pc'[d] = pc[d] /\ op'[d] = op[d] /\ task'[d] = task[d] /\ cgrp'[d] = cgrp[d]
         /\ level'[d] = level[d] /\ updated'[d] = updated[d] /\ gen_read'[d] = gen_read[d]
<1> USE DEF TypeOK, locals, Goto
<1>1. ASSUME NEW t \in Tasks, Runnable(cpu, t)
      PROVE  /\ pc'[d] = pc[d] /\ op'[d] = op[d] /\ task'[d] = task[d] /\ cgrp'[d] = cgrp[d]
             /\ level'[d] = level[d] /\ updated'[d] = updated[d] /\ gen_read'[d] = gen_read[d]
  BY <1>1 DEF Runnable, Enter
<1>2. ASSUME NEW t \in Tasks, Quiescent(cpu, t)
      PROVE  /\ pc'[d] = pc[d] /\ op'[d] = op[d] /\ task'[d] = task[d] /\ cgrp'[d] = cgrp[d]
             /\ level'[d] = level[d] /\ updated'[d] = updated[d] /\ gen_read'[d] = gen_read[d]
  BY <1>2 DEF Quiescent, Enter
<1>3. ASSUME NEW c \in Cgroups, StartRefresh(cpu, c)
      PROVE  /\ pc'[d] = pc[d] /\ op'[d] = op[d] /\ task'[d] = task[d] /\ cgrp'[d] = cgrp[d]
             /\ level'[d] = level[d] /\ updated'[d] = updated[d] /\ gen_read'[d] = gen_read[d]
  BY <1>3 DEF StartRefresh
<1>4. CASE RefreshStart(cpu)
  BY <1>4 DEF RefreshStart, Refreshed, Return
<1>5. CASE RefreshRoot(cpu)
  BY <1>5 DEF RefreshRoot
<1>6. CASE RefreshLevel(cpu)
  BY <1>6 DEF RefreshLevel, Refreshed, Return
<1>7. CASE Propagate(cpu)
  BY <1>7 DEF Propagate, PropagateLevel
<1>8. CASE Expire(cpu)
  BY <1>8 DEF Expire, ExpireTo, Return
<1> QED
  BY <1>1, <1>2, <1>3, <1>4, <1>5, <1>6, <1>7, <1>8 DEF Cpu

(* Who is runnable changes when a task wakes or sleeps that no handler     *)
(* has in hand.                                                            *)
LEMMA RunnableStep ==
  ASSUME TypeOK, NEW cpu \in Cpus, Cpu(cpu), NEW d \in Cpus, d # cpu, task[d] \in runnable
  PROVE  task[d] \in runnable'
<1>1. ASSUME NEW t \in Tasks, Runnable(cpu, t)
      PROVE  task[d] \in runnable'
  BY <1>1 DEF Runnable
<1>2. ASSUME NEW t \in Tasks, Quiescent(cpu, t)
      PROVE  task[d] \in runnable'
  BY <1>2 DEF Quiescent, Idle
<1>3. ASSUME ~\E t \in Tasks : Runnable(cpu, t) \/ Quiescent(cpu, t)
      PROVE  runnable' = runnable
  BY <1>3 DEF Cpu, StartRefresh, RefreshStart, RefreshRoot, RefreshLevel, Propagate,
     PropagateLevel, Expire, ExpireTo, control
<1> QED
  BY <1>1, <1>2, <1>3

LEMMA HandlersStep ==
  ASSUME TypeOK, WalkInv, NEW cpu \in Cpus, Cpu(cpu)
  PROVE  HandlersOK'
<1> USE DEF WalkInv
<1>a. HandlerOK(cpu)
  BY DEF HandlersOK
<1>b. \A d \in Cpus : d # cpu =>
        /\ pc'[d] = pc[d] /\ op'[d] = op[d] /\ task'[d] = task[d] /\ cgrp'[d] = cgrp[d]
        /\ level'[d] = level[d]
  BY OthersKeep
<1>c. \A d \in Cpus : d # cpu => HandlerOK(d)'
  <2> SUFFICES ASSUME NEW d \in Cpus, d # cpu PROVE HandlerOK(d)'
    OBVIOUS
  <2>1. HandlerOK(d)
    BY DEF HandlersOK
  <2>2. task[d] \in runnable => task[d] \in runnable'
    BY RunnableStep
  <2> QED
    BY <1>b, <2>1, <2>2 DEF HandlerOK
<1>d. HandlerOK(cpu)' /\ (task'[cpu] # None => \A d \in Cpus : d # cpu => task[d] # task'[cpu])
  <2> DEFINE Goal == HandlerOK(cpu)' /\ (task'[cpu] # None => \A d \in Cpus : d # cpu => task[d] # task'[cpu])
  <2>g. \A d \in Cpus : d # cpu => task[d] # task[cpu] \/ task[cpu] = None
    BY DEF HandlersOK
  <2>k. task'[cpu] \in {task[cpu], None} => (task'[cpu] # None => \A d \in Cpus : d # cpu => task[d] # task'[cpu])
    BY <2>g
  <2>l. cgrp[cpu] \in NonRoot => Level[cgrp[cpu]] \in 1 .. Level[cgrp[cpu]] /\ 1 \in 1 .. Level[cgrp[cpu]]
    <3>1. \A c \in NonRoot : Level[c] \in Nat /\ Level[c] # 0
      BY TreeAssumption DEF NonRoot
    <3> QED
      BY <3>1
  <2> USE DEF TypeOK, Goto, HandlerOK, locals
  <2>1. ASSUME NEW t \in Tasks, Runnable(cpu, t)
        PROVE  Goal
    <3>1. CgroupOf[t] \in NonRoot /\ Level[CgroupOf[t]] \in Nat /\ Level[CgroupOf[t]] # 0
      BY LeafOfTask, TreeAssumption DEF NonRoot
    <3> QED
      BY <1>a, <2>1, <3>1, <2>k DEF Runnable, Idle, Enter
  <2>2. ASSUME NEW t \in Tasks, Quiescent(cpu, t)
        PROVE  Goal
    <3>1. CgroupOf[t] \in NonRoot
      BY LeafOfTask
    <3> QED
      BY <1>a, <2>2, <3>1, <2>k DEF Quiescent, Idle, Enter
  <2>3. ASSUME NEW c \in Cgroups, StartRefresh(cpu, c)
        PROVE  Goal
    <3>1. c \in NonRoot
      BY <2>3, LeafOfTask DEF StartRefresh
    <3> QED
      BY <1>a, <2>3, <3>1, <2>k DEF StartRefresh, control
  <2>4. CASE RefreshStart(cpu)
    BY <1>a, <2>4, <2>k, <2>l DEF RefreshStart, Refreshed, Return, control
  <2>5. CASE RefreshRoot(cpu)
    BY <1>a, <2>5, <2>k, <2>l DEF RefreshRoot, control
  <2>6. CASE RefreshLevel(cpu)
    BY <1>a, <2>6, <2>k, <2>l DEF RefreshLevel, Refreshed, Return, control
  <2>7. CASE Propagate(cpu)
    BY <1>a, <2>7, <2>k, <2>l DEF Propagate, PropagateLevel, control
  <2>8. CASE Expire(cpu)
    BY <1>a, <2>8, <2>k, <2>l DEF Expire, ExpireTo, Return, control
  <2> QED
    BY <2>1, <2>2, <2>3, <2>4, <2>5, <2>6, <2>7, <2>8 DEF Cpu
<1>e. \A a, b \in Cpus : task'[a] = task'[b] /\ task'[a] # None => a = b
  BY <1>b, <1>d DEF HandlersOK
<1> QED
  BY <1>c, <1>d, <1>e DEF HandlersOK

-----------------------------------------------------------------------------
(* The steps of a walk: it begins with the first task that wakes or the    *)
(* last that sleeps, goes on level by level, and all else leaves it alone. *)
Woken(cpu, t) == Runnable(cpu, t) /\ nr_runnable[CgroupOf[t]] = 0
Slept(cpu, t) == Quiescent(cpu, t) /\ nr_runnable[CgroupOf[t]] = 1

LEMMA WokenWalk ==
  ASSUME TypeOK, WalkInv, NEW cpu \in Cpus, NEW t \in Tasks, Woken(cpu, t)
  PROVE  /\ nr_active' = nr_active /\ nr_runnable[CgroupOf[t]] = 0
         /\ nr_runnable' = [nr_runnable EXCEPT ![CgroupOf[t]] = 1]
         /\ ~Waking(cpu) /\ Waking(cpu)' /\ ~Sleeping(cpu) /\ ~Sleeping(cpu)'
         /\ cgrp'[cpu] = CgroupOf[t] /\ level'[cpu] = Level[CgroupOf[t]]
         /\ At(cpu)' = CgroupOf[t] /\ task'[cpu] = t
         /\ weight' = weight /\ child_weight_sum' = child_weight_sum
<1>a. HandlerOK(cpu) /\ CgroupOf[t] \in Cgroups
  BY LeafOfTask DEF WalkInv, HandlersOK
<1>1. /\ pc[cpu] = "idle" /\ pc'[cpu] = "propagate" /\ op'[cpu] = "runnable"
      /\ cgrp'[cpu] = CgroupOf[t] /\ level'[cpu] = Level[CgroupOf[t]] /\ task'[cpu] = t
      /\ nr_active' = nr_active /\ nr_runnable[CgroupOf[t]] = 0
      /\ nr_runnable' = [nr_runnable EXCEPT ![CgroupOf[t]] = 1]
      /\ weight' = weight /\ child_weight_sum' = child_weight_sum
  BY DEF Woken, Runnable, Idle, Enter, Goto, TypeOK
<1>2. Ancestor(CgroupOf[t], Level[CgroupOf[t]]) = CgroupOf[t]
  BY <1>a, AncestorUp
<1>3. At(cpu)' = CgroupOf[t]
  BY <1>1, <1>2 DEF At
<1> QED
  BY <1>a, <1>1, <1>3 DEF Waking, Sleeping, HandlerOK

LEMMA SleptWalk ==
  ASSUME TypeOK, WalkInv, NEW cpu \in Cpus, NEW t \in Tasks, Slept(cpu, t)
  PROVE  /\ nr_active' = nr_active /\ nr_runnable[CgroupOf[t]] = 1
         /\ nr_runnable' = [nr_runnable EXCEPT ![CgroupOf[t]] = 0]
         /\ ~Waking(cpu) /\ ~Waking(cpu)' /\ ~Sleeping(cpu) /\ Sleeping(cpu)'
         /\ At(cpu)' = CgroupOf[t] /\ op'[cpu] # "runnable"
         /\ weight' = weight /\ child_weight_sum' = child_weight_sum
<1>a. HandlerOK(cpu) /\ CgroupOf[t] \in Cgroups
  BY LeafOfTask DEF WalkInv, HandlersOK
<1>1. /\ pc[cpu] = "idle" /\ pc'[cpu] = "refresh" /\ op'[cpu] = "quiescent"
      /\ cgrp'[cpu] = CgroupOf[t]
      /\ nr_active' = nr_active /\ nr_runnable[CgroupOf[t]] = 1
      /\ nr_runnable' = [nr_runnable EXCEPT ![CgroupOf[t]] = 0]
      /\ weight' = weight /\ child_weight_sum' = child_weight_sum
  BY DEF Slept, Quiescent, Idle, Enter, Goto, TypeOK
<1>3. At(cpu)' = CgroupOf[t]
  BY <1>1 DEF At
<1> QED
  BY <1>a, <1>1, <1>3 DEF Waking, Sleeping, HandlerOK

LEMMA QuietWalk ==
  ASSUME TypeOK, WalkInv, NEW cpu \in Cpus, Cpu(cpu), ~Propagate(cpu),
         \A t \in Tasks : ~Woken(cpu, t) /\ ~Slept(cpu, t)
  PROVE  /\ nr_active' = nr_active /\ \A c \in Cgroups : nr_runnable'[c] > 0 <=> nr_runnable[c] > 0
         /\ ~Waking(cpu) /\ ~Waking(cpu)' /\ Sleeping(cpu)' = Sleeping(cpu)
         /\ Sleeping(cpu) => At(cpu)' = At(cpu)
         /\ op'[cpu] \in {op[cpu], "refresh"} /\ (op'[cpu] = "runnable" => cgrp'[cpu] = cgrp[cpu])
         /\ weight' = weight /\ child_weight_sum' = child_weight_sum
<1> DEFINE Goal ==
         /\ nr_active' = nr_active /\ \A c \in Cgroups : nr_runnable'[c] > 0 <=> nr_runnable[c] > 0
         /\ ~Waking(cpu) /\ ~Waking(cpu)' /\ Sleeping(cpu)' = Sleeping(cpu)
         /\ Sleeping(cpu) => At(cpu)' = At(cpu)
         /\ op'[cpu] \in {op[cpu], "refresh"} /\ (op'[cpu] = "runnable" => cgrp'[cpu] = cgrp[cpu])
         /\ weight' = weight /\ child_weight_sum' = child_weight_sum
<1>a. HandlerOK(cpu)
  BY DEF WalkInv, HandlersOK
<1>b. cgrp[cpu] \in Cgroups /\ Ancestor(cgrp[cpu], Level[cgrp[cpu]]) = cgrp[cpu]
  BY AncestorUp DEF TypeOK
<1>c. \A c \in Cgroups : nr_runnable[c] \in Nat
  BY DEF TypeOK
<1> USE DEF TypeOK, Goto, HandlerOK, locals, counts, Waking, Sleeping, At
<1>1. ASSUME NEW t \in Tasks, Runnable(cpu, t)
      PROVE  Goal
  <2>1. CgroupOf[t] \in Cgroups /\ nr_runnable[CgroupOf[t]] # 0
    BY <1>1, LeafOfTask DEF Woken
  <2>2. nr_runnable[CgroupOf[t]] > 0 /\ nr_runnable[CgroupOf[t]] + 1 > 0
    BY <1>c, <2>1
  <2> QED
    BY <1>a, <1>c, <1>1, <2>1, <2>2 DEF Runnable, Idle
<1>2. ASSUME NEW t \in Tasks, Quiescent(cpu, t)
      PROVE  Goal
  <2>1. nr_runnable[CgroupOf[t]] # 0
    <3>1. CgroupOf[t] \in Cgroups /\ t \in RunnableIn(CgroupOf[t])
      BY <1>2, LeafOfTask DEF Quiescent, RunnableIn
    <3> QED
      BY <3>1, RunnablePositive DEF WalkInv
  <2>2. nr_runnable[CgroupOf[t]] # 1 /\ CgroupOf[t] \in Cgroups
    BY <1>2, LeafOfTask DEF Slept
  <2>3. nr_runnable[CgroupOf[t]] - 1 > 0
    BY <1>c, <2>1, <2>2
  <2> QED
    BY <1>a, <1>c, <1>2, <2>2, <2>3 DEF Quiescent, Idle
<1>3. ASSUME NEW c \in Cgroups, StartRefresh(cpu, c)
      PROVE  Goal
  BY <1>a, <1>3 DEF StartRefresh
<1>4. CASE RefreshStart(cpu)
  BY <1>a, <1>b, <1>4 DEF RefreshStart, Refreshed, Return
<1>5. CASE RefreshRoot(cpu)
  BY <1>a, <1>5 DEF RefreshRoot
<1>6. CASE RefreshLevel(cpu)
  BY <1>a, <1>b, <1>6 DEF RefreshLevel, Refreshed, Return
<1>8. CASE Expire(cpu)
  BY <1>a, <1>8 DEF Expire, ExpireTo, Return
<1> QED
  BY <1>1, <1>2, <1>3, <1>4, <1>5, <1>6, <1>8 DEF Cpu

(* One level of a wake-up.                                                 *)
LEMMA WakeUpWalk ==
  ASSUME TypeOK, WalkInv, NEW cpu \in Cpus, Propagate(cpu), op[cpu] = "runnable",
         NEW e, e = At(cpu)
  PROVE  /\ Waking(cpu) /\ ~Sleeping(cpu) /\ ~Sleeping(cpu)'
         /\ e \in NonRoot /\ Level[e] = level[cpu]
         /\ nr_active' = [nr_active EXCEPT ![e] = @ + 1] /\ nr_runnable' = nr_runnable
         /\ Waking(cpu)' <=> nr_active[e] = 0 /\ level[cpu] > 1
         /\ Waking(cpu)' => /\ At(cpu)' = Parent[e] /\ level'[cpu] = level[cpu] - 1
         /\ cgrp' = cgrp /\ op' = op /\ weight' = weight
         /\ child_weight_sum' = IF nr_active[e] = 0
                                THEN [child_weight_sum EXCEPT ![Parent[e]] = @ + weight[e]]
                                ELSE child_weight_sum
<1>1. /\ pc[cpu] = "propagate" /\ Waking(cpu) /\ ~Sleeping(cpu)
  BY DEF Propagate, Waking, Sleeping
<1>2. /\ e = Ancestor(cgrp[cpu], level[cpu]) /\ e \in NonRoot /\ Level[e] = level[cpu]
      /\ level[cpu] \in 1 .. Level[cgrp[cpu]] /\ cgrp[cpu] \in Cgroups
  BY <1>1, WakerAt DEF WalkInv
<1>3. PropagateLevel(cpu, e, nr_active[e] + 1, nr_active[e] = 0, nr_active[e] = 0)
  BY <1>2 DEF Propagate
<1>4. /\ nr_active' = [nr_active EXCEPT ![e] = @ + 1] /\ nr_runnable' = nr_runnable
      /\ cgrp' = cgrp /\ op' = op /\ weight' = weight
  BY <1>3 DEF PropagateLevel
<1>5. child_weight_sum' = IF nr_active[e] = 0
                          THEN [child_weight_sum EXCEPT ![Parent[e]] = @ + weight[e]]
                          ELSE child_weight_sum
  BY <1>3 DEF PropagateLevel
<1>6. /\ nr_active[e] = 0 /\ level[cpu] > 1 => pc' = pc /\ level'[cpu] = level[cpu] - 1
      /\ ~(nr_active[e] = 0 /\ level[cpu] > 1) => pc'[cpu] = "expire"
  BY <1>3 DEF PropagateLevel, Goto, TypeOK
<1>7. Ancestor(cgrp[cpu], level[cpu] - 1) = Parent[e]
  BY <1>2, AncestorUp
<1>8. Waking(cpu)' <=> nr_active[e] = 0 /\ level[cpu] > 1
  BY <1>1, <1>4, <1>6 DEF Waking
<1>9. Waking(cpu)' => At(cpu)' = Parent[e] /\ level'[cpu] = level[cpu] - 1
  BY <1>1, <1>4, <1>6, <1>7, <1>8 DEF At
<1>10. ~Sleeping(cpu)'
  BY <1>4 DEF Sleeping
<1> QED
  BY <1>1, <1>2, <1>4, <1>5, <1>8, <1>9, <1>10

(* One level of a sleep.                                                   *)
LEMMA SleepUpWalk ==
  ASSUME TypeOK, WalkInv, NEW cpu \in Cpus, Propagate(cpu), op[cpu] # "runnable",
         NEW e, e = At(cpu)
  PROVE  /\ ~Waking(cpu) /\ Sleeping(cpu) /\ ~Waking(cpu)'
         /\ e \in NonRoot /\ Level[e] = level[cpu]
         /\ nr_active' = [nr_active EXCEPT ![e] = @ - 1] /\ nr_runnable' = nr_runnable
         /\ Sleeping(cpu)' <=> nr_active[e] = 1 /\ level[cpu] > 1
         /\ Sleeping(cpu)' => At(cpu)' = Parent[e]
         /\ cgrp' = cgrp /\ op' = op /\ weight' = weight
         /\ child_weight_sum' = IF nr_active[e] = 1
                                THEN [child_weight_sum EXCEPT ![Parent[e]] = @ - weight[e]]
                                ELSE child_weight_sum
<1>a. HandlerOK(cpu)
  BY DEF WalkInv, HandlersOK
<1>1. /\ pc[cpu] = "propagate" /\ op[cpu] = "quiescent" /\ ~Waking(cpu) /\ Sleeping(cpu)
  BY <1>a DEF Propagate, Waking, Sleeping, HandlerOK, TypeOK
<1>2. /\ e = Ancestor(cgrp[cpu], level[cpu]) /\ e \in NonRoot /\ Level[e] = level[cpu]
      /\ level[cpu] \in 1 .. Level[cgrp[cpu]] /\ cgrp[cpu] \in Cgroups
  BY <1>a, <1>1, AncestorUp DEF HandlerOK, At, TypeOK
<1>3. PropagateLevel(cpu, e, nr_active[e] - 1, nr_active[e] = 1, nr_active[e] = 1)
  BY <1>1, <1>2 DEF Propagate
<1>4. /\ nr_active' = [nr_active EXCEPT ![e] = @ - 1] /\ nr_runnable' = nr_runnable
      /\ cgrp' = cgrp /\ op' = op /\ weight' = weight
  BY <1>3 DEF PropagateLevel
<1>5. child_weight_sum' = IF nr_active[e] = 1
                          THEN [child_weight_sum EXCEPT ![Parent[e]] = @ - weight[e]]
                          ELSE child_weight_sum
  BY <1>1, <1>3 DEF PropagateLevel
<1>6. /\ nr_active[e] = 1 /\ level[cpu] > 1 => pc' = pc /\ level'[cpu] = level[cpu] - 1
      /\ ~(nr_active[e] = 1 /\ level[cpu] > 1) => pc'[cpu] = "expire"
  BY <1>3 DEF PropagateLevel, Goto, TypeOK
<1>7. Ancestor(cgrp[cpu], level[cpu] - 1) = Parent[e]
  BY <1>2, AncestorUp
<1>8. Sleeping(cpu)' <=> nr_active[e] = 1 /\ level[cpu] > 1
  BY <1>1, <1>4, <1>6 DEF Sleeping
<1>9. Sleeping(cpu)' => At(cpu)' = Parent[e]
  BY <1>1, <1>4, <1>6, <1>7, <1>8 DEF At
<1>10. ~Waking(cpu)'
  BY <1>1, <1>4 DEF Waking
<1> QED
  BY <1>1, <1>2, <1>4, <1>5, <1>8, <1>9, <1>10

-----------------------------------------------------------------------------
(* How the walks that are due change with a step.                          *)
Bit(b) == IF b THEN 1 ELSE 0

LEMMA OthersWalk ==
  ASSUME TypeOK, NEW cpu \in Cpus, Cpu(cpu), NEW d \in Cpus, d # cpu
  PROVE  /\ Waking(d)' = Waking(d) /\ Sleeping(d)' = Sleeping(d) /\ At(d)' = At(d)
         /\ \A l : Passed(d, l)' = Passed(d, l)
         /\ cgrp'[d] = cgrp[d] /\ level'[d] = level[d] /\ op'[d] = op[d] /\ task'[d] = task[d]
  BY OthersKeep DEF Waking, Sleeping, At, Passed

LEMMA OneIn ==
  ASSUME NEW S, IsFiniteSet(S), NEW x
  PROVE  /\ Cardinality(S) = Cardinality(S \ {x}) + Bit(x \in S)
         /\ Cardinality(S \ {x}) \in Nat
<1>1. IsFiniteSet(S \ {x}) /\ Cardinality(S \ {x}) \in Nat /\ Cardinality(S) \in Nat
  BY FS_RemoveElement, FS_CardinalityType
<1>2. Cardinality(S \ {x}) = IF x \in S THEN Cardinality(S) - 1 ELSE Cardinality(S)
  BY FS_RemoveElement
<1> QED
  BY <1>1, <1>2 DEF Bit

LEMMA WakersStep ==
  ASSUME TypeOK, NEW cpu \in Cpus, Cpu(cpu), NEW c
  PROVE  /\ Cardinality(Wakers(c))' + Bit(Waking(cpu) /\ At(cpu) = c)
              = Cardinality(Wakers(c)) + Bit(Waking(cpu)' /\ At(cpu)' = c)
         /\ Cardinality(Wakers(c))' \in Nat
<1> DEFINE W == Wakers(c) \ {cpu}
<1>1. Wakers(c)' \ {cpu} = W
  <2>1. \A d \in Cpus \ {cpu} : d \in Wakers(c)' <=> d \in Wakers(c)
    BY OthersWalk DEF Wakers
  <2> QED
    BY <2>1 DEF Wakers
<1>2. IsFiniteSet(Wakers(c)) /\ IsFiniteSet(Wakers(c)')
  <2>1. Wakers(c)' \in SUBSET Cpus
    BY DEF Wakers
  <2> QED
    BY <2>1, FiniteSets, FiniteAssumption, FS_Subset
<1>3. Cardinality(Wakers(c)) = Cardinality(W) + Bit(cpu \in Wakers(c)) /\ Cardinality(W) \in Nat
  BY <1>2, OneIn
<1>4. Cardinality(Wakers(c)') = Cardinality(W) + Bit(cpu \in Wakers(c)')
  BY <1>1, <1>2, OneIn
<1>5. /\ cpu \in Wakers(c) <=> Waking(cpu) /\ At(cpu) = c
      /\ cpu \in Wakers(c)' <=> Waking(cpu)' /\ At(cpu)' = c
  BY DEF Wakers
<1> QED
  BY <1>3, <1>4, <1>5 DEF Bit

LEMMA SleepersStep ==
  ASSUME TypeOK, NEW cpu \in Cpus, Cpu(cpu), NEW c
  PROVE  /\ Cardinality(Sleepers(c))' + Bit(Sleeping(cpu) /\ At(cpu) = c)
              = Cardinality(Sleepers(c)) + Bit(Sleeping(cpu)' /\ At(cpu)' = c)
         /\ Cardinality(Sleepers(c))' \in Nat
<1> DEFINE W == Sleepers(c) \ {cpu}
<1>1. Sleepers(c)' \ {cpu} = W
  <2>1. \A d \in Cpus \ {cpu} : d \in Sleepers(c)' <=> d \in Sleepers(c)
    BY OthersWalk DEF Sleepers
  <2> QED
    BY <2>1 DEF Sleepers
<1>2. IsFiniteSet(Sleepers(c)) /\ IsFiniteSet(Sleepers(c)')
  <2>1. Sleepers(c)' \in SUBSET Cpus
    BY DEF Sleepers
  <2> QED
    BY <2>1, FiniteSets, FiniteAssumption, FS_Subset
<1>3. /\ Cardinality(Sleepers(c)) = Cardinality(W) + Bit(cpu \in Sleepers(c))
      /\ Cardinality(W) \in Nat
  BY <1>2, OneIn
<1>4. Cardinality(Sleepers(c)') = Cardinality(W) + Bit(cpu \in Sleepers(c)')
  BY <1>1, <1>2, OneIn
<1>5. /\ cpu \in Sleepers(c) <=> Sleeping(cpu) /\ At(cpu) = c
      /\ cpu \in Sleepers(c)' <=> Sleeping(cpu)' /\ At(cpu)' = c
  BY DEF Sleepers
<1> QED
  BY <1>3, <1>4, <1>5 DEF Bit

(* The parent's active children when one cgroup's count changes.           *)
LEMMA ActiveChildrenStep ==
  ASSUME NEW e \in NonRoot, NEW c, \A d \in NonRoot \ {e} : nr_active'[d] = nr_active[d]
  PROVE  Cardinality(ActiveChildren(c))' + Bit(c = Parent[e] /\ Active(e))
           = Cardinality(ActiveChildren(c)) + Bit(c = Parent[e] /\ Active(e)')
<1> DEFINE W == ActiveChildren(c) \ {e}
<1>1. ActiveChildren(c)' \ {e} = W
  <2>1. \A d \in NonRoot \ {e} : d \in ActiveChildren(c)' <=> d \in ActiveChildren(c)
    BY DEF ActiveChildren, Active, Children
  <2> QED
    BY <2>1 DEF ActiveChildren, Children, NonRoot
<1>2. IsFiniteSet(ActiveChildren(c)) /\ IsFiniteSet(ActiveChildren(c)')
  <2>1. ActiveChildren(c)' \in SUBSET Cgroups
    BY DEF ActiveChildren, Children
  <2> QED
    BY <2>1, FiniteSets, FiniteAssumption, FS_Subset
<1>3. /\ Cardinality(ActiveChildren(c)) = Cardinality(W) + Bit(e \in ActiveChildren(c))
      /\ Cardinality(W) \in Nat
  BY <1>2, OneIn
<1>4. Cardinality(ActiveChildren(c)') = Cardinality(W) + Bit(e \in ActiveChildren(c)')
  BY <1>1, <1>2, OneIn
<1>5. /\ e \in ActiveChildren(c) <=> c = Parent[e] /\ Active(e)
      /\ e \in ActiveChildren(c)' <=> c = Parent[e] /\ Active(e)'
  BY DEF ActiveChildren, Children, NonRoot
<1> QED
  BY <1>3, <1>4, <1>5 DEF Bit

-----------------------------------------------------------------------------
(* The balance, action by action.                                          *)

LEMMA BalanceWoken ==
  ASSUME TypeOK, WalkInv, NEW cpu \in Cpus, Cpu(cpu), NEW t \in Tasks, Woken(cpu, t)
  PROVE  Balanced'
<1> SUFFICES ASSUME NEW c \in NonRoot
             PROVE  nr_active'[c] + Cardinality(Wakers(c))'
                      = Base(c)' + Cardinality(Sleepers(c))'
  BY DEF Balanced
<1> DEFINE x == CgroupOf[t]
<1>1. c \in Cgroups /\ x \in Cgroups /\ x \in Leaves
  BY LeafOfTask DEF NonRoot
<1>2. /\ nr_active' = nr_active /\ nr_runnable[x] = 0
      /\ nr_runnable' = [nr_runnable EXCEPT ![x] = 1]
      /\ ~Waking(cpu) /\ Waking(cpu)' /\ ~Sleeping(cpu) /\ ~Sleeping(cpu)' /\ At(cpu)' = x
  BY WokenWalk
<1>3. Cardinality(Wakers(c))' = Cardinality(Wakers(c)) + Bit(x = c)
  BY <1>2, WakersStep, FiniteSets DEF Bit
<1>4. Cardinality(Sleepers(c))' = Cardinality(Sleepers(c))
  BY <1>2, SleepersStep, FiniteSets DEF Bit
<1>5. Base(c)' = Base(c) + Bit(x = c)
  <2>1. ActiveChildren(c)' = ActiveChildren(c)
    BY <1>2 DEF ActiveChildren, Active
  <2>2. CASE c \in Leaves
    BY <1>1, <1>2, <2>2 DEF Base, Bit, TypeOK
  <2>3. CASE c \notin Leaves
    <3>1. Base(c) \in Nat
      BY WakersBelowBase
    <3> QED
      BY <1>1, <2>1, <2>3, <3>1 DEF Base, Bit
  <2> QED
    BY <2>2, <2>3
<1>6. nr_active[c] + Cardinality(Wakers(c)) = Base(c) + Cardinality(Sleepers(c))
  BY DEF WalkInv, Balanced
<1>7. nr_active[c] \in Nat /\ Base(c) \in Nat /\ Bit(x = c) \in Nat
  BY <1>1, WakersBelowBase DEF TypeOK, Bit
<1> HIDE DEF x
<1> QED
  BY <1>2, <1>3, <1>4, <1>5, <1>6, <1>7, FiniteSets

LEMMA BalanceSlept ==
  ASSUME TypeOK, WalkInv, NEW cpu \in Cpus, Cpu(cpu), NEW t \in Tasks, Slept(cpu, t)
  PROVE  Balanced'
<1> SUFFICES ASSUME NEW c \in NonRoot
             PROVE  nr_active'[c] + Cardinality(Wakers(c))'
                      = Base(c)' + Cardinality(Sleepers(c))'
  BY DEF Balanced
<1> DEFINE x == CgroupOf[t]
<1>1. c \in Cgroups /\ x \in Cgroups /\ x \in Leaves
  BY LeafOfTask DEF NonRoot
<1>2. /\ nr_active' = nr_active /\ nr_runnable[x] = 1
      /\ nr_runnable' = [nr_runnable EXCEPT ![x] = 0]
      /\ ~Waking(cpu) /\ ~Waking(cpu)' /\ ~Sleeping(cpu) /\ Sleeping(cpu)' /\ At(cpu)' = x
  BY SleptWalk
<1>3. Cardinality(Wakers(c))' = Cardinality(Wakers(c))
  BY <1>2, WakersStep, FiniteSets DEF Bit
<1>4. Cardinality(Sleepers(c))' = Cardinality(Sleepers(c)) + Bit(x = c)
  BY <1>2, SleepersStep, FiniteSets DEF Bit
<1>5. Base(c)' = Base(c) - Bit(x = c)
  <2>1. ActiveChildren(c)' = ActiveChildren(c)
    BY <1>2 DEF ActiveChildren, Active
  <2>2. CASE c \in Leaves
    BY <1>1, <1>2, <2>2 DEF Base, Bit, TypeOK
  <2>3. CASE c \notin Leaves
    <3>1. Base(c) \in Nat
      BY WakersBelowBase
    <3> QED
      BY <1>1, <2>1, <2>3, <3>1 DEF Base, Bit
  <2> QED
    BY <2>2, <2>3
<1>6. nr_active[c] + Cardinality(Wakers(c)) = Base(c) + Cardinality(Sleepers(c))
  BY DEF WalkInv, Balanced
<1>7. nr_active[c] \in Nat /\ Base(c) \in Nat /\ Bit(x = c) \in Nat
  BY <1>1, WakersBelowBase DEF TypeOK, Bit
<1> HIDE DEF x
<1> QED
  BY <1>2, <1>3, <1>4, <1>5, <1>6, <1>7, FiniteSets

LEMMA BalanceQuiet ==
  ASSUME TypeOK, WalkInv, NEW cpu \in Cpus, Cpu(cpu), ~Propagate(cpu),
         \A t \in Tasks : ~Woken(cpu, t) /\ ~Slept(cpu, t)
  PROVE  Balanced'
<1> SUFFICES ASSUME NEW c \in NonRoot
             PROVE  nr_active'[c] + Cardinality(Wakers(c))'
                      = Base(c)' + Cardinality(Sleepers(c))'
  BY DEF Balanced
<1>1. c \in Cgroups
  BY DEF NonRoot
<1>2. /\ nr_active' = nr_active /\ (nr_runnable'[c] > 0 <=> nr_runnable[c] > 0)
      /\ ~Waking(cpu) /\ ~Waking(cpu)' /\ Sleeping(cpu)' = Sleeping(cpu)
      /\ Sleeping(cpu) => At(cpu)' = At(cpu)
  BY <1>1, QuietWalk
<1>3. Cardinality(Wakers(c))' = Cardinality(Wakers(c))
  BY <1>2, WakersStep, FiniteSets DEF Bit
<1>4. Cardinality(Sleepers(c))' = Cardinality(Sleepers(c))
  <2>0. Sleeping(cpu) \in BOOLEAN
    BY DEF Sleeping
  <2>2. Bit(Sleeping(cpu) /\ At(cpu) = c) = Bit(Sleeping(cpu)' /\ At(cpu)' = c)
    BY <1>2
  <2>3. Bit(Sleeping(cpu) /\ At(cpu) = c) \in Nat
    BY DEF Bit
  <2> QED
    BY <2>2, <2>3, SleepersStep, FiniteSets
<1>5. Base(c)' = Base(c)
  BY <1>2 DEF Base, ActiveChildren, Active
<1>6. nr_active[c] + Cardinality(Wakers(c)) = Base(c) + Cardinality(Sleepers(c))
  BY DEF WalkInv, Balanced
<1> QED
  BY <1>2, <1>3, <1>4, <1>5, <1>6

(* What a walk does to the cgroup it is at, and through it to the parent.  *)
LEMMA BaseStep ==
  ASSUME TypeOK, WalkInv, NEW e \in NonRoot, NEW c \in NonRoot, NEW n \in Int,
         nr_active' = [nr_active EXCEPT ![e] = n], nr_runnable' = nr_runnable
  PROVE  Base(c)' + Bit(c = Parent[e] /\ nr_active[e] > 0)
           = Base(c) + Bit(c = Parent[e] /\ n > 0)
<1>1. e \in Cgroups /\ c \in Cgroups
  BY DEF NonRoot
<1>2. Active(e) = (nr_active[e] > 0) /\ Active(e)' = (n > 0)
  BY <1>1 DEF Active, TypeOK
<1>3. CASE c \in Leaves
  <2>1. c # Parent[e]
    BY <1>3 DEF Leaves, Children, NonRoot
  <2>2. Base(c)' = Base(c)
    BY <1>3 DEF Base
  <2> QED
    BY <2>1, <2>2
<1>4. CASE c \notin Leaves
  <2>1. \A d \in NonRoot \ {e} : nr_active'[d] = nr_active[d]
    BY DEF TypeOK, NonRoot
  <2>2. Cardinality(ActiveChildren(c))' + Bit(c = Parent[e] /\ Active(e))
           = Cardinality(ActiveChildren(c)) + Bit(c = Parent[e] /\ Active(e)')
    BY <2>1, ActiveChildrenStep
  <2> QED
    BY <1>2, <1>4, <2>2 DEF Base
<1> QED
  BY <1>3, <1>4

LEMMA BalanceWakeUp ==
  ASSUME TypeOK, WalkInv, NEW cpu \in Cpus, Cpu(cpu), Propagate(cpu), op[cpu] = "runnable"
  PROVE  Balanced'
<1> SUFFICES ASSUME NEW c \in NonRoot
             PROVE  nr_active'[c] + Cardinality(Wakers(c))'
                      = Base(c)' + Cardinality(Sleepers(c))'
  BY DEF Balanced
<1>0. PICK e : e = At(cpu)
  OBVIOUS
<1>1. /\ Waking(cpu) /\ ~Sleeping(cpu) /\ ~Sleeping(cpu)'
      /\ e \in NonRoot /\ Level[e] = level[cpu]
      /\ nr_active' = [nr_active EXCEPT ![e] = @ + 1] /\ nr_runnable' = nr_runnable
      /\ Waking(cpu)' <=> nr_active[e] = 0 /\ level[cpu] > 1
      /\ Waking(cpu)' => At(cpu)' = Parent[e]
  BY <1>0, WakeUpWalk
<1>2. e \in Cgroups /\ c \in Cgroups /\ nr_active[e] \in Nat /\ nr_active[c] \in Nat
  BY <1>1 DEF NonRoot, TypeOK
<1>3. c = Parent[e] => level[cpu] > 1
  <2>1. Level[c] \in Nat /\ Level[c] # 0 /\ Level[e] = Level[Parent[e]] + 1
    BY <1>1, TreeAssumption DEF NonRoot
  <2> QED
    BY <1>1, <2>1
<1>4. c = Parent[e] => c # e
  <2>1. Level[c] \in Nat /\ Level[e] = Level[Parent[e]] + 1
    BY <1>1, TreeAssumption DEF NonRoot
  <2> QED
    BY <2>1
<1>5. /\ Cardinality(Wakers(c))' + Bit(e = c)
          = Cardinality(Wakers(c)) + Bit(c = Parent[e] /\ nr_active[e] = 0)
      /\ Cardinality(Wakers(c))' \in Nat /\ Cardinality(Wakers(c)) \in Nat
  <2>1. Bit(Waking(cpu) /\ At(cpu) = c) = Bit(e = c)
    BY <1>0, <1>1 DEF Bit
  <2>2. Bit(Waking(cpu)' /\ At(cpu)' = c) = Bit(c = Parent[e] /\ nr_active[e] = 0)
    BY <1>1, <1>3 DEF Bit
  <2> QED
    BY <2>1, <2>2, WakersStep, FiniteSets
<1>6. /\ Cardinality(Sleepers(c))' = Cardinality(Sleepers(c))
      /\ Cardinality(Sleepers(c)) \in Nat
  <2>1. Bit(Sleeping(cpu) /\ At(cpu) = c) = 0 /\ Bit(Sleeping(cpu)' /\ At(cpu)' = c) = 0
    BY <1>1 DEF Bit
  <2> QED
    BY <2>1, SleepersStep, FiniteSets
<1>7. Base(c)' + Bit(c = Parent[e] /\ nr_active[e] > 0)
           = Base(c) + Bit(c = Parent[e] /\ nr_active[e] + 1 > 0)
  <2>1. PICK n : n = nr_active[e] + 1
    OBVIOUS
  <2>2. n \in Int /\ nr_active' = [nr_active EXCEPT ![e] = n]
    BY <1>1, <1>2, <2>1
  <2> QED
    BY <1>1, <2>1, <2>2, BaseStep
<1>8. Base(c)' = Base(c) + Bit(c = Parent[e] /\ nr_active[e] = 0)
  <2>1. Base(c)' \in Nat
    <3>1. ActiveChildren(c)' \in SUBSET Cgroups
      BY DEF ActiveChildren, Children
    <3>2. Cardinality(ActiveChildren(c)') \in Nat
      BY <3>1, FiniteAssumption, FS_Subset, FS_CardinalityType
    <3> QED
      BY <3>2 DEF Base
  <2> QED
    BY <1>2, <1>7, <2>1, WakersBelowBase DEF Bit
<1>9. nr_active'[c] = nr_active[c] + Bit(e = c)
  BY <1>1, <1>2 DEF Bit, TypeOK
<1>10. nr_active[c] + Cardinality(Wakers(c)) = Base(c) + Cardinality(Sleepers(c))
  BY DEF WalkInv, Balanced
<1>11. Bit(e = c) \in Nat /\ Bit(c = Parent[e] /\ nr_active[e] = 0) \in Nat /\ Base(c) \in Nat
  BY WakersBelowBase DEF Bit
<1> QED
  BY <1>2, <1>5, <1>6, <1>8, <1>9, <1>10, <1>11

(* A sleep finds the cgroup active: nr_active is never taken below zero.   *)
LEMMA SleeperFindsActive ==
  ASSUME TypeOK, WalkInv, NEW cpu \in Cpus, Sleeping(cpu), NEW e \in NonRoot, e = At(cpu)
  PROVE  nr_active[e] > 0
<1>1. cpu \in Sleepers(e)
  BY DEF Sleepers
<1>2. Cardinality(Sleepers(e)) \in Nat /\ Cardinality(Sleepers(e)) # 0
  BY <1>1, FiniteSets, FS_EmptySet
<1>3. nr_active[e] + Cardinality(Wakers(e)) = Base(e) + Cardinality(Sleepers(e))
  BY DEF WalkInv, Balanced
<1> QED
  BY <1>2, <1>3, FiniteSets, WakersBelowBase DEF TypeOK, NonRoot

LEMMA BalanceSleepUp ==
  ASSUME TypeOK, WalkInv, NEW cpu \in Cpus, Cpu(cpu), Propagate(cpu), op[cpu] # "runnable"
  PROVE  Balanced'
<1> SUFFICES ASSUME NEW c \in NonRoot
             PROVE  nr_active'[c] + Cardinality(Wakers(c))'
                      = Base(c)' + Cardinality(Sleepers(c))'
  BY DEF Balanced
<1>0. PICK e : e = At(cpu)
  OBVIOUS
<1>1. /\ ~Waking(cpu) /\ Sleeping(cpu) /\ ~Waking(cpu)'
      /\ e \in NonRoot /\ Level[e] = level[cpu]
      /\ nr_active' = [nr_active EXCEPT ![e] = @ - 1] /\ nr_runnable' = nr_runnable
      /\ Sleeping(cpu)' <=> nr_active[e] = 1 /\ level[cpu] > 1
      /\ Sleeping(cpu)' => At(cpu)' = Parent[e]
  BY <1>0, SleepUpWalk
<1>2. e \in Cgroups /\ c \in Cgroups /\ nr_active[e] \in Nat /\ nr_active[c] \in Nat
  BY <1>1 DEF NonRoot, TypeOK
<1>a. nr_active[e] > 0
  BY <1>0, <1>1, SleeperFindsActive
<1>3. c = Parent[e] => level[cpu] > 1
  <2>1. Level[c] \in Nat /\ Level[c] # 0 /\ Level[e] = Level[Parent[e]] + 1
    BY <1>1, TreeAssumption DEF NonRoot
  <2> QED
    BY <1>1, <2>1
<1>5. /\ Cardinality(Sleepers(c))' + Bit(e = c)
          = Cardinality(Sleepers(c)) + Bit(c = Parent[e] /\ nr_active[e] = 1)
      /\ Cardinality(Sleepers(c))' \in Nat /\ Cardinality(Sleepers(c)) \in Nat
  <2>1. Bit(Sleeping(cpu) /\ At(cpu) = c) = Bit(e = c)
    BY <1>0, <1>1 DEF Bit
  <2>2. Bit(Sleeping(cpu)' /\ At(cpu)' = c) = Bit(c = Parent[e] /\ nr_active[e] = 1)
    BY <1>1, <1>3 DEF Bit
  <2> QED
    BY <2>1, <2>2, SleepersStep, FiniteSets
<1>6. /\ Cardinality(Wakers(c))' = Cardinality(Wakers(c))
      /\ Cardinality(Wakers(c)) \in Nat
  <2>1. Bit(Waking(cpu) /\ At(cpu) = c) = 0 /\ Bit(Waking(cpu)' /\ At(cpu)' = c) = 0
    BY <1>1 DEF Bit
  <2> QED
    BY <2>1, WakersStep, FiniteSets
<1>7. Base(c)' + Bit(c = Parent[e] /\ nr_active[e] > 0)
           = Base(c) + Bit(c = Parent[e] /\ nr_active[e] - 1 > 0)
  <2>1. PICK n : n = nr_active[e] - 1
    OBVIOUS
  <2>2. n \in Int /\ nr_active' = [nr_active EXCEPT ![e] = n]
    BY <1>1, <1>2, <2>1
  <2> QED
    BY <1>1, <2>1, <2>2, BaseStep
<1>8. Base(c)' + Bit(c = Parent[e] /\ nr_active[e] = 1) = Base(c) /\ Base(c)' \in Nat
  <2>1. Base(c)' \in Nat
    <3>1. ActiveChildren(c)' \in SUBSET Cgroups
      BY DEF ActiveChildren, Children
    <3>2. Cardinality(ActiveChildren(c)') \in Nat
      BY <3>1, FiniteAssumption, FS_Subset, FS_CardinalityType
    <3> QED
      BY <3>2 DEF Base
  <2> QED
    BY <1>2, <1>7, <1>a, <2>1, WakersBelowBase DEF Bit
<1>9. nr_active'[c] = nr_active[c] - Bit(e = c)
  BY <1>1, <1>2 DEF Bit, TypeOK
<1>10. nr_active[c] + Cardinality(Wakers(c)) = Base(c) + Cardinality(Sleepers(c))
  BY DEF WalkInv, Balanced
<1>11. Bit(e = c) \in Nat /\ Bit(c = Parent[e] /\ nr_active[e] = 1) \in Nat /\ Base(c) \in Nat
  BY WakersBelowBase DEF Bit
<1>12. nr_active'[c] \in Int
  BY <1>2, <1>9, <1>11
<1> QED
  BY <1>2, <1>5, <1>6, <1>8, <1>9, <1>10, <1>11, <1>12

-----------------------------------------------------------------------------
(* The rest of the walks' invariant.                                       *)

LEMMA CountsStep ==
  ASSUME TypeOK, WalkInv, NEW cpu \in Cpus, Cpu(cpu)
  PROVE  RunnableCounted'
<1> SUFFICES ASSUME NEW c \in Cgroups
             PROVE  nr_runnable'[c] = Cardinality(RunnableIn(c)')
  BY DEF RunnableCounted
<1>0. nr_runnable[c] = Cardinality(RunnableIn(c)) /\ IsFiniteSet(RunnableIn(c))
  <2>1. RunnableIn(c) \in SUBSET Tasks
    BY DEF RunnableIn, TypeOK
  <2> QED
    BY <2>1, FiniteAssumption, FS_Subset DEF WalkInv, RunnableCounted
<1>1. ASSUME NEW t \in Tasks, Runnable(cpu, t)
      PROVE  nr_runnable'[c] = Cardinality(RunnableIn(c)')
  <2>1. /\ t \notin runnable /\ runnable' = runnable \cup {t}
        /\ nr_runnable' = [nr_runnable EXCEPT ![CgroupOf[t]] = @ + 1]
    BY <1>1 DEF Runnable
  <2>2. CASE c = CgroupOf[t]
    <3>1. RunnableIn(c)' = RunnableIn(c) \cup {t} /\ t \notin RunnableIn(c)
      BY <2>1, <2>2 DEF RunnableIn
    <3>2. Cardinality(RunnableIn(c) \cup {t}) = Cardinality(RunnableIn(c)) + 1
      BY <1>0, <3>1, FS_AddElement
    <3>3. nr_runnable'[c] = nr_runnable[c] + 1
      BY <2>1, <2>2 DEF TypeOK
    <3> QED
      BY <1>0, <3>1, <3>2, <3>3
  <2>3. CASE c # CgroupOf[t]
    <3>1. RunnableIn(c)' = RunnableIn(c)
      BY <2>1, <2>3 DEF RunnableIn
    <3> QED
      BY <1>0, <2>1, <2>3, <3>1 DEF TypeOK
  <2> QED
    BY <2>2, <2>3
<1>2. ASSUME NEW t \in Tasks, Quiescent(cpu, t)
      PROVE  nr_runnable'[c] = Cardinality(RunnableIn(c)')
  <2>1. /\ t \in runnable /\ runnable' = runnable \ {t}
        /\ nr_runnable' = [nr_runnable EXCEPT ![CgroupOf[t]] = @ - 1]
    BY <1>2 DEF Quiescent
  <2>2. CASE c = CgroupOf[t]
    <3>1. RunnableIn(c)' = RunnableIn(c) \ {t} /\ t \in RunnableIn(c)
      BY <2>1, <2>2 DEF RunnableIn
    <3>2. Cardinality(RunnableIn(c) \ {t}) = Cardinality(RunnableIn(c)) - 1
      BY <1>0, <3>1, FS_RemoveElement
    <3>3. nr_runnable'[c] = nr_runnable[c] - 1
      BY <2>1, <2>2 DEF TypeOK
    <3> QED
      BY <1>0, <3>1, <3>2, <3>3
  <2>3. CASE c # CgroupOf[t]
    <3>1. RunnableIn(c)' = RunnableIn(c)
      BY <2>1, <2>3 DEF RunnableIn
    <3> QED
      BY <1>0, <2>1, <2>3, <3>1 DEF TypeOK
  <2> QED
    BY <2>2, <2>3
<1>3. ASSUME ~\E t \in Tasks : Runnable(cpu, t) \/ Quiescent(cpu, t)
      PROVE  nr_runnable'[c] = Cardinality(RunnableIn(c)')
  <2>1. runnable' = runnable /\ nr_runnable' = nr_runnable
    BY <1>3 DEF Cpu, StartRefresh, RefreshStart, RefreshRoot, RefreshLevel, Propagate,
       PropagateLevel, Expire, ExpireTo, control, counts
  <2> QED
    BY <1>0, <2>1 DEF RunnableIn
<1> QED
  BY <1>1, <1>2, <1>3

LEMMA OneWakerStep ==
  ASSUME TypeOK, WalkInv, NEW cpu \in Cpus, Cpu(cpu)
  PROVE  OneWaker'
<1>1. \A a \in Cpus : a # cpu => op'[a] = op[a] /\ cgrp'[a] = cgrp[a]
  BY OthersWalk
<1>2. ASSUME NEW t \in Tasks, Woken(cpu, t)
      PROVE  OneWaker'
  <2>1. cgrp'[cpu] = CgroupOf[t] /\ nr_runnable[CgroupOf[t]] = 0
    BY <1>2, WokenWalk
  <2>2. RunnableIn(CgroupOf[t]) = {}
    BY <2>1, LeafOfTask, RunnablePositive DEF WalkInv
  <2>3. ASSUME NEW b \in Cpus, op[b] = "runnable"
        PROVE  cgrp[b] # CgroupOf[t]
    <3>1. task[b] \in runnable /\ cgrp[b] = CgroupOf[task[b]]
      BY <2>3 DEF WalkInv, HandlersOK, HandlerOK
    <3> QED
      BY <2>2, <3>1 DEF RunnableIn
  <2> QED
    BY <1>1, <2>1, <2>3 DEF WalkInv, OneWaker
<1>3. ASSUME ~\E t \in Tasks : Woken(cpu, t)
      PROVE  OneWaker'
  <2>1. op'[cpu] = "runnable" => op[cpu] = "runnable" /\ cgrp'[cpu] = cgrp[cpu]
    <3>1. ASSUME NEW t \in Tasks, Slept(cpu, t) PROVE op'[cpu] # "runnable"
      BY <3>1, SleptWalk
    <3>2. CASE Propagate(cpu)
      BY <3>2 DEF Propagate, PropagateLevel
    <3>3. ASSUME ~Propagate(cpu), ~\E t \in Tasks : Slept(cpu, t)
          PROVE  op'[cpu] = "runnable" => op[cpu] = "runnable" /\ cgrp'[cpu] = cgrp[cpu]
      BY <1>3, <3>3, QuietWalk
    <3> QED
      BY <3>1, <3>2, <3>3
  <2> QED
    BY <1>1, <2>1 DEF WalkInv, OneWaker
<1> QED
  BY <1>2, <1>3

(* A cgroup on a path that is active behind a waking walk stays active.    *)
LEMMA PassedStaysActive ==
  ASSUME TypeOK, WalkInv, NEW cpu \in Cpus, Cpu(cpu),
         NEW d \in Cpus, NEW l \in Nat, Waking(d), Passed(d, l)
  PROVE  nr_active'[Ancestor(cgrp[d], l)] > 0
<1>0. PICK A : A = Ancestor(cgrp[d], l)
  OBVIOUS
<1>1. nr_active[A] > 0
  BY <1>0 DEF WalkInv, PathsActive, Active
<1>2. A \in NonRoot /\ Level[A] = l /\ A \in Cgroups
  <2>1. level[d] \in 1 .. Level[cgrp[d]] /\ cgrp[d] \in Cgroups
    BY WakerAt DEF WalkInv
  <2>2. l \in 1 .. Level[cgrp[d]]
    BY <2>1, AncestorUp DEF Passed
  <2> QED
    BY <1>0, <2>1, <2>2, AncestorUp DEF NonRoot
<1>3. CASE nr_active' = nr_active
  BY <1>0, <1>1, <1>3
<1>4. ASSUME Propagate(cpu), op[cpu] = "runnable"
      PROVE  nr_active'[A] > 0
  <2>0. PICK e : e = At(cpu)
    OBVIOUS
  <2>1. nr_active' = [nr_active EXCEPT ![e] = @ + 1]
    BY <1>4, <2>0, WakeUpWalk
  <2>2. nr_active[A] \in Nat /\ nr_active[A] > 0
    BY <1>1, <1>2 DEF TypeOK
  <2> QED
    BY <1>2, <2>1, <2>2 DEF TypeOK
<1>5. ASSUME Propagate(cpu), op[cpu] # "runnable"
      PROVE  nr_active'[A] > 0
  <2>0. PICK e : e = At(cpu)
    OBVIOUS
  <2>1. nr_active' = [nr_active EXCEPT ![e] = @ - 1] /\ Sleeping(cpu) /\ e \in NonRoot
    BY <1>5, <2>0, SleepUpWalk
  <2>2. CASE e = A
    <3>1. /\ Cardinality(Wakers(e)) < Base(e) /\ Base(e) \in Nat
          /\ Cardinality(Wakers(e)) \in Nat /\ Cardinality(Sleepers(e)) \in Nat
      BY <1>0, <1>2, <2>2, WakersBelowBase, FiniteSets
    <3>2. Cardinality(Sleepers(e)) # 0
      <4>1. cpu \in Sleepers(e)
        BY <2>0, <2>1 DEF Sleepers
      <4> QED
        BY <4>1, FiniteSets, FS_EmptySet
    <3>3. nr_active[e] + Cardinality(Wakers(e)) = Base(e) + Cardinality(Sleepers(e))
      BY <2>1 DEF WalkInv, Balanced
    <3>4. nr_active[e] \in Nat /\ nr_active'[e] = nr_active[e] - 1
      BY <1>2, <2>1, <2>2 DEF TypeOK
    <3>5. nr_active'[e] > 0
      BY <3>1, <3>2, <3>3, <3>4
    <3> QED
      BY <2>2, <3>5
  <2>3. CASE e # A
    <3>1. nr_active'[A] = nr_active[A]
      BY <1>2, <2>1, <2>3 DEF TypeOK
    <3> QED
      BY <1>1, <3>1
  <2> QED
    BY <2>2, <2>3
<1>6. ASSUME ~Propagate(cpu)
      PROVE  nr_active' = nr_active
  BY <1>6, WokenWalk, SleptWalk, QuietWalk
<1> QED
  BY <1>0, <1>3, <1>4, <1>5, <1>6

(* What a step makes of the path behind the walk that takes it.            *)
LEMMA OwnPath ==
  ASSUME TypeOK, WalkInv, NEW cpu \in Cpus, Cpu(cpu), Waking(cpu)', NEW l \in Nat, Passed(cpu, l)'
  PROVE  /\ Waking(cpu) /\ cgrp'[cpu] = cgrp[cpu] /\ l >= level[cpu] /\ level[cpu] \in Nat
         /\ level'[cpu] + 1 = level[cpu]
         /\ l > level[cpu] => Passed(cpu, l)
         /\ l = level[cpu] => LET e == Ancestor(cgrp[cpu], l)
                              IN  nr_active[e] = 0 /\ nr_active'[e] = 1
<1>1. ASSUME NEW t \in Tasks, Woken(cpu, t)
      PROVE  FALSE
  <2>1. level'[cpu] = Level[CgroupOf[t]] /\ cgrp'[cpu] = CgroupOf[t]
    BY <1>1, WokenWalk
  <2>2. Level[CgroupOf[t]] \in Nat
    BY LeafOfTask, TreeAssumption
  <2> QED
    BY <2>1, <2>2 DEF Passed
<1>2. Propagate(cpu) /\ op[cpu] = "runnable"
  BY <1>1, SleptWalk, QuietWalk, SleepUpWalk
<1>3. PICK e : e = At(cpu)
  OBVIOUS
<1>4. /\ Waking(cpu) /\ e \in NonRoot /\ nr_active[e] = 0
      /\ nr_active' = [nr_active EXCEPT ![e] = @ + 1]
      /\ cgrp' = cgrp /\ level'[cpu] = level[cpu] - 1
  BY <1>2, <1>3, WakeUpWalk
<1>5. /\ level[cpu] \in 1 .. Level[cgrp[cpu]] /\ Level[cgrp[cpu]] \in Nat
      /\ e = Ancestor(cgrp[cpu], level[cpu])
  BY <1>3, <1>4, WakerAt, AncestorUp DEF WalkInv
<1>6. nr_active'[e] = 1
  BY <1>4 DEF TypeOK, NonRoot
<1>7. l \in level[cpu] .. Level[cgrp[cpu]]
  BY <1>4, <1>5 DEF Passed
<1>8. l > level[cpu] => Passed(cpu, l)
  BY <1>5, <1>7 DEF Passed
<1> QED
  BY <1>4, <1>5, <1>6, <1>7, <1>8

LEMMA PathsStep ==
  ASSUME TypeOK, WalkInv, NEW cpu \in Cpus, Cpu(cpu)
  PROVE  PathsActive'
<1> SUFFICES ASSUME NEW d \in Cpus, NEW l \in Nat, Waking(d)', Passed(d, l)'
             PROVE  nr_active'[Ancestor(cgrp'[d], l)] > 0
  BY DEF PathsActive, Active
<1>1. CASE d # cpu
  BY <1>1, OthersWalk, PassedStaysActive
<1>2. CASE d = cpu
  <2>1. Waking(cpu) /\ cgrp'[cpu] = cgrp[cpu] /\ l >= level[cpu] /\ level[cpu] \in Nat
    BY <1>2, OwnPath
  <2>2. CASE l > level[cpu]
    BY <1>2, <2>1, <2>2, OwnPath, PassedStaysActive
  <2>3. CASE l = level[cpu]
    <3>1. nr_active'[Ancestor(cgrp[cpu], l)] = 1
      BY <1>2, <2>3, OwnPath
    <3> QED
      BY <1>2, <2>1, <3>1
  <2> QED
    BY <2>1, <2>2, <2>3
<1> QED
  BY <1>1, <1>2

LEMMA ReportedStep ==
  ASSUME TypeOK, WalkInv, NEW cpu \in Cpus, Cpu(cpu)
  PROVE  ReportedOnce'
<1> SUFFICES ASSUME NEW a \in Cpus, NEW b \in Cpus, NEW l, l = level'[a] + 1,
                    Waking(a)', Waking(b)', Passed(a, l)', Passed(b, l)',
                    Ancestor(cgrp'[a], l) = Ancestor(cgrp'[b], l), a # b
             PROVE  FALSE
  BY DEF ReportedOnce
<1>l. l \in Nat
  <2>1. HandlersOK' /\ pc'[a] = "propagate"
    BY HandlersStep DEF Waking
  <2>2. level'[a] \in 1 .. Level[cgrp'[a]]
    BY <2>1 DEF HandlersOK, HandlerOK
  <2> QED
    BY <2>2
<1>1. CASE a # cpu /\ b # cpu
  <2>1. /\ Waking(a) /\ Waking(b) /\ Passed(a, l) /\ Passed(b, l) /\ l = level[a] + 1
        /\ Ancestor(cgrp[a], l) = Ancestor(cgrp[b], l)
    BY <1>1, OthersWalk
  <2> QED
    BY <2>1 DEF WalkInv, ReportedOnce
<1>2. CASE a = cpu
  <2>1. cgrp'[cpu] = cgrp[cpu] /\ nr_active[Ancestor(cgrp[cpu], l)] = 0
    BY <1>2, <1>l, OwnPath
  <2>2. Waking(b) /\ Passed(b, l) /\ cgrp'[b] = cgrp[b]
    BY <1>2, OthersWalk
  <2>3. Active(Ancestor(cgrp[b], l))
    BY <1>l, <2>2 DEF WalkInv, PathsActive
  <2> QED
    BY <1>2, <2>1, <2>2, <2>3 DEF Active
<1>3. CASE b = cpu
  <2>1. Waking(a) /\ Passed(a, l) /\ cgrp'[a] = cgrp[a] /\ l = level[a] + 1
    BY <1>3, OthersWalk
  <2>2. Waking(cpu) /\ cgrp'[cpu] = cgrp[cpu] /\ l >= level[cpu] /\ level[cpu] \in Nat
    BY <1>3, <1>l, OwnPath
  <2>3. CASE l = level[cpu]
    <3>1. nr_active[Ancestor(cgrp[cpu], l)] = 0
      BY <1>3, <1>l, <2>3, OwnPath
    <3>2. Active(Ancestor(cgrp[a], l))
      BY <1>l, <2>1 DEF WalkInv, PathsActive
    <3> QED
      BY <1>3, <2>1, <2>2, <3>1, <3>2 DEF Active
  <2>4. CASE l > level[cpu]
    <3>1. Passed(cpu, l)
      BY <1>3, <1>l, <2>4, OwnPath
    <3> QED
      BY <1>3, <2>1, <2>2, <3>1 DEF WalkInv, ReportedOnce
  <2> QED
    BY <1>l, <2>2, <2>3, <2>4
<1> QED
  BY <1>1, <1>2, <1>3

LEMMA WalkStep ==
  ASSUME TypeOK, WalkInv, NEW cpu \in Cpus, Cpu(cpu)
  PROVE  WalkInv'
<1>1. Balanced'
  BY BalanceWoken, BalanceSlept, BalanceQuiet, BalanceWakeUp, BalanceSleepUp
<1> QED
  BY <1>1, HandlersStep, CountsStep, OneWakerStep, PathsStep, ReportedStep DEF WalkInv

(* A weight that is set is no matter to the walks.                         *)
LEMMA WalkKept ==
  ASSUME WalkInv, UNCHANGED <<counts, runnable, pc, locals, level>>
  PROVE  WalkInv'
<1> USE DEF WalkInv, counts, locals
<1>1. HandlersOK'
  BY DEF HandlersOK, HandlerOK
<1>2. RunnableCounted' /\ OneWaker'
  BY DEF RunnableCounted, RunnableIn, OneWaker
<1>3. \A cpu : /\ Waking(cpu)' = Waking(cpu) /\ Sleeping(cpu)' = Sleeping(cpu)
               /\ At(cpu)' = At(cpu) /\ \A l : Passed(cpu, l)' = Passed(cpu, l)
  BY DEF Waking, Sleeping, At, Passed
<1>4. \A c : Active(c)' = Active(c) /\ ActiveChildren(c)' = ActiveChildren(c)
  BY DEF Active, ActiveChildren
<1>5. PathsActive' /\ ReportedOnce'
  BY <1>3, <1>4 DEF PathsActive, ReportedOnce
<1>6. \A c : Wakers(c)' = Wakers(c) /\ Sleepers(c)' = Sleepers(c) /\ Base(c)' = Base(c)
  BY <1>3, <1>4 DEF Wakers, Sleepers, Base
<1>7. Balanced'
  BY <1>6 DEF Balanced
<1> QED
  BY <1>1, <1>2, <1>5, <1>7

-----------------------------------------------------------------------------
(* The sum of the weights.                                                 *)

LEMMA SumForm ==
  /\ SumOfActive <=>
       \A c \in Cgroups : child_weight_sum[c] = SumOver(weight, ActiveChildren(c))
  /\ SumOfActive' <=>
       \A c \in Cgroups : child_weight_sum'[c] = SumOver(weight', ActiveChildren(c)')
  BY DEF SumOfActive, SumOver, MapThenSumSet, MapThenFoldSet

LEMMA WeightIsNat ==
  ASSUME NEW w \in [Cgroups -> Weights], NEW c \in Cgroups
  PROVE  w[c] \in Nat /\ w[c] > 0 /\ w[c] \in Int
<1>1. w[c] \in Nat \ {0}
  BY WeightsAssumption
<1> QED
  BY <1>1

LEMMA SumsAreNat ==
  ASSUME NEW w \in [Cgroups -> Weights], NEW S \in SUBSET Cgroups
  PROVE  SumOver(w, S) \in Nat /\ \A c \in S : SumOver(w, S) >= w[c]
<1>1. IsFiniteSet(S)
  BY FiniteAssumption, FS_Subset
<1>2. \A c \in S : w[c] \in Nat
  BY WeightIsNat
<1>3. SumOver(w, S) \in Nat
  BY <1>1, <1>2, SumNat
<1>4. \A c \in S : w[c] <= SumOver(w, S)
  BY <1>1, <1>2, SumAtLeast
<1> QED
  BY <1>2, <1>3, <1>4

LEMMA NoFlip ==
  ASSUME NEW e \in Cgroups, nr_active \in [Cgroups -> Nat], NEW n \in Int,
         nr_active' = [nr_active EXCEPT ![e] = n], nr_active[e] > 0 <=> n > 0, NEW c
  PROVE  ActiveChildren(c)' = ActiveChildren(c)
<1>1. \A d \in Cgroups : nr_active'[d] > 0 <=> nr_active[d] > 0
  OBVIOUS
<1> QED
  BY <1>1 DEF ActiveChildren, Children, Active

LEMMA SumWakeUp ==
  ASSUME TypeOK, WalkInv, SumOfActive, NEW cpu \in Cpus, Propagate(cpu), op[cpu] = "runnable"
  PROVE  SumOfActive'
<1>0. PICK e : e = At(cpu)
  OBVIOUS
<1>1. /\ e \in NonRoot /\ nr_active' = [nr_active EXCEPT ![e] = @ + 1] /\ weight' = weight
      /\ child_weight_sum' = IF nr_active[e] = 0
                             THEN [child_weight_sum EXCEPT ![Parent[e]] = @ + weight[e]]
                             ELSE child_weight_sum
  BY <1>0, WakeUpWalk
<1>2. e \in Cgroups /\ Parent[e] \in Cgroups /\ nr_active[e] \in Nat
  BY <1>1, TreeAssumption DEF NonRoot, TypeOK
<1> SUFFICES ASSUME NEW c \in Cgroups
             PROVE  child_weight_sum'[c] = SumOver(weight, ActiveChildren(c)')
  BY <1>1, SumForm
<1>3. child_weight_sum[c] = SumOver(weight, ActiveChildren(c)) /\ child_weight_sum[c] \in Nat
  BY SumForm DEF TypeOK
<1>4. CASE nr_active[e] = 0
  <2>1. e \notin ActiveChildren(c) /\ \A d \in Cgroups \ {e} : nr_active'[d] = nr_active[d]
    BY <1>1, <1>2, <1>4 DEF ActiveChildren, Active, TypeOK
  <2>2. nr_active'[e] = 1
    BY <1>1, <1>2, <1>4 DEF TypeOK
  <2>3. CASE c = Parent[e]
    <3>1. ActiveChildren(c)' = ActiveChildren(c) \cup {e}
      BY <1>1, <2>1, <2>2, <2>3 DEF ActiveChildren, Active, Children, NonRoot
    <3>2. \A d \in ActiveChildren(c) \cup {e} : weight[d] \in Int
      BY <1>2, WeightIsNat DEF ActiveChildren, Children, TypeOK
    <3>3. SumOver(weight, ActiveChildren(c) \cup {e}) = weight[e] + SumOver(weight, ActiveChildren(c))
      BY <2>1, <3>2, FiniteSets, SumAdd
    <3>4. child_weight_sum'[c] = child_weight_sum[c] + weight[e] /\ weight[e] \in Nat
      BY <1>1, <1>2, <1>4, <2>3, WeightIsNat DEF TypeOK
    <3> QED
      BY <1>3, <3>1, <3>3, <3>4
  <2>4. CASE c # Parent[e]
    <3>1. ActiveChildren(c)' = ActiveChildren(c)
      BY <1>1, <2>1, <2>4 DEF ActiveChildren, Active, Children, NonRoot
    <3>2. child_weight_sum'[c] = child_weight_sum[c]
      BY <1>1, <1>4, <2>4 DEF TypeOK
    <3> QED
      BY <1>3, <3>1, <3>2
  <2> QED
    BY <2>3, <2>4
<1>5. CASE nr_active[e] # 0
  <2>1. PICK n : n = nr_active[e] + 1
    OBVIOUS
  <2>2. n \in Int /\ nr_active' = [nr_active EXCEPT ![e] = n] /\ (nr_active[e] > 0 <=> n > 0)
    BY <1>1, <1>2, <1>5, <2>1
  <2>3. ActiveChildren(c)' = ActiveChildren(c)
    BY <1>2, <2>2, NoFlip DEF TypeOK
  <2> QED
    BY <1>1, <1>3, <1>5, <2>3
<1> QED
  BY <1>4, <1>5

LEMMA SumSleepUp ==
  ASSUME TypeOK, WalkInv, SumOfActive, NEW cpu \in Cpus, Propagate(cpu), op[cpu] # "runnable"
  PROVE  SumOfActive'
<1>0. PICK e : e = At(cpu)
  OBVIOUS
<1>1. /\ e \in NonRoot /\ nr_active' = [nr_active EXCEPT ![e] = @ - 1] /\ weight' = weight
      /\ Sleeping(cpu)
      /\ child_weight_sum' = IF nr_active[e] = 1
                             THEN [child_weight_sum EXCEPT ![Parent[e]] = @ - weight[e]]
                             ELSE child_weight_sum
  BY <1>0, SleepUpWalk
<1>2. e \in Cgroups /\ Parent[e] \in Cgroups /\ nr_active[e] \in Nat /\ nr_active[e] > 0
  BY <1>0, <1>1, SleeperFindsActive, TreeAssumption DEF NonRoot, TypeOK
<1> SUFFICES ASSUME NEW c \in Cgroups
             PROVE  child_weight_sum'[c] = SumOver(weight, ActiveChildren(c)')
  BY <1>1, SumForm
<1>3. child_weight_sum[c] = SumOver(weight, ActiveChildren(c)) /\ child_weight_sum[c] \in Nat
  BY SumForm DEF TypeOK
<1>4. CASE nr_active[e] = 1
  <2>1. \A d \in Cgroups \ {e} : nr_active'[d] = nr_active[d]
    BY <1>1 DEF TypeOK
  <2>2. nr_active'[e] = 0
    BY <1>1, <1>2, <1>4 DEF TypeOK
  <2>3. CASE c = Parent[e]
    <3>1. ActiveChildren(c)' = ActiveChildren(c) \ {e} /\ e \in ActiveChildren(c)
      BY <1>1, <1>4, <2>1, <2>2, <2>3 DEF ActiveChildren, Active, Children, NonRoot
    <3>2. \A d \in ActiveChildren(c) : weight[d] \in Int
      BY WeightIsNat DEF ActiveChildren, Children, TypeOK
    <3>3. SumOver(weight, ActiveChildren(c)) = weight[e] + SumOver(weight, ActiveChildren(c) \ {e})
      BY <3>1, <3>2, FiniteSets, SumRemove
    <3>4. child_weight_sum'[c] = child_weight_sum[c] - weight[e] /\ weight[e] \in Nat
      BY <1>1, <1>2, <1>4, <2>3, WeightIsNat DEF TypeOK
    <3>5. SumOver(weight, ActiveChildren(c) \ {e}) \in Nat
      <4>1. ActiveChildren(c) \ {e} \in SUBSET Cgroups
        BY DEF ActiveChildren, Children
      <4> QED
        BY <4>1, SumsAreNat DEF TypeOK
    <3> QED
      BY <1>3, <3>1, <3>3, <3>4, <3>5
  <2>4. CASE c # Parent[e]
    <3>1. ActiveChildren(c)' = ActiveChildren(c)
      BY <1>1, <2>1, <2>4 DEF ActiveChildren, Active, Children, NonRoot
    <3>2. child_weight_sum'[c] = child_weight_sum[c]
      BY <1>1, <1>4, <2>4 DEF TypeOK
    <3> QED
      BY <1>3, <3>1, <3>2
  <2> QED
    BY <2>3, <2>4
<1>5. CASE nr_active[e] # 1
  <2>1. PICK n : n = nr_active[e] - 1
    OBVIOUS
  <2>2. n \in Int /\ nr_active' = [nr_active EXCEPT ![e] = n] /\ (nr_active[e] > 0 <=> n > 0)
    BY <1>1, <1>2, <1>5, <2>1
  <2>3. ActiveChildren(c)' = ActiveChildren(c)
    BY <1>2, <2>2, NoFlip DEF TypeOK
  <2> QED
    BY <1>1, <1>3, <1>5, <2>3
<1> QED
  BY <1>4, <1>5

LEMMA SumSetWeight ==
  ASSUME TypeOK, SumOfActive, NEW e \in NonRoot, NEW w \in Weights, SetWeight(e, w)
  PROVE  SumOfActive'
<1>1. /\ weight' = [weight EXCEPT ![e] = w] /\ nr_active' = nr_active
      /\ child_weight_sum' = IF nr_active[e] # 0
                             THEN [child_weight_sum EXCEPT ![Parent[e]] = @ + w - weight[e]]
                             ELSE child_weight_sum
  BY DEF SetWeight, SetWeightIf, counts
<1>2. e \in Cgroups /\ Parent[e] \in Cgroups /\ nr_active[e] \in Nat
  BY TreeAssumption DEF NonRoot, TypeOK
<1>3. weight' \in [Cgroups -> Weights] /\ weight'[e] = w /\ \A d \in Cgroups \ {e} : weight'[d] = weight[d]
  BY <1>1, <1>2 DEF TypeOK
<1> SUFFICES ASSUME NEW c \in Cgroups
             PROVE  child_weight_sum'[c] = SumOver(weight', ActiveChildren(c))
  <2>1. \A c \in Cgroups : ActiveChildren(c)' = ActiveChildren(c)
    BY <1>1 DEF ActiveChildren, Active
  <2> QED
    BY <2>1, SumForm
<1>4. child_weight_sum[c] = SumOver(weight, ActiveChildren(c)) /\ child_weight_sum[c] \in Nat
  BY SumForm DEF TypeOK
<1>5. /\ ActiveChildren(c) \in SUBSET Cgroups /\ IsFiniteSet(ActiveChildren(c))
      /\ e \in ActiveChildren(c) <=> c = Parent[e] /\ nr_active[e] # 0
  BY <1>2, FiniteSets DEF ActiveChildren, Children, Active, NonRoot
<1>6. CASE e \in ActiveChildren(c)
  <2>1. \A d \in ActiveChildren(c) : weight[d] \in Int /\ weight'[d] \in Int
    BY <1>3, <1>5, WeightIsNat DEF TypeOK
  <2>2. SumOver(weight', ActiveChildren(c)) = SumOver(weight, ActiveChildren(c)) - weight[e] + w
    <3>1. \A d \in ActiveChildren(c) \ {e} : weight'[d] = weight[d]
      BY <1>3, <1>5
    <3>2. SumOver(weight', ActiveChildren(c))
            = SumOver(weight, ActiveChildren(c)) - weight[e] + weight'[e]
      BY <1>5, <1>6, <2>1, <3>1, SumChange
    <3> QED
      BY <1>3, <3>2
  <2>3. child_weight_sum'[c] = child_weight_sum[c] + w - weight[e]
    BY <1>1, <1>5, <1>6 DEF TypeOK
  <2>4. w \in Int /\ weight[e] \in Int
    BY <1>2, <1>6, <2>1, WeightsAssumption
  <2> QED
    BY <1>4, <2>2, <2>3, <2>4
<1>7. CASE e \notin ActiveChildren(c)
  <2>1. SumOver(weight', ActiveChildren(c)) = SumOver(weight, ActiveChildren(c))
    <3>1. \A d \in ActiveChildren(c) : weight[d] = weight'[d]
      BY <1>3, <1>5, <1>7
    <3> QED
      BY <1>5, <3>1, SumSame
  <2>2. child_weight_sum'[c] = child_weight_sum[c]
    BY <1>1, <1>5, <1>7 DEF TypeOK
  <2> QED
    BY <1>4, <2>1, <2>2
<1> QED
  BY <1>6, <1>7

LEMMA SumStep ==
  ASSUME TypeOK, WalkInv, SumOfActive, NEW cpu \in Cpus, Cpu(cpu)
  PROVE  SumOfActive'
<1>1. CASE Propagate(cpu)
  BY <1>1, SumWakeUp, SumSleepUp
<1>2. CASE ~Propagate(cpu)
  <2>1. nr_active' = nr_active /\ weight' = weight /\ child_weight_sum' = child_weight_sum
    BY <1>2, WokenWalk, SleptWalk, QuietWalk
  <2>2. \A c : ActiveChildren(c)' = ActiveChildren(c)
    BY <2>1 DEF ActiveChildren, Active
  <2> QED
    BY <2>1, <2>2, SumForm
<1> QED
  BY <1>1, <1>2

(* A share is only handed to an active cgroup, and its parent's sum then   *)
(* holds its weight: the divisor of cgrp_refresh_hweight is never zero.    *)
LEMMA DivisorPositive ==
  ASSUME TypeOK, SumOfActive, NEW c \in NonRoot, nr_active[c] # 0
  PROVE  child_weight_sum[Parent[c]] \in Nat \ {0}
<1>1. c \in Cgroups /\ Parent[c] \in Cgroups /\ nr_active[c] \in Nat
  BY TreeAssumption DEF NonRoot, TypeOK
<1>2. c \in ActiveChildren(Parent[c]) /\ ActiveChildren(Parent[c]) \in SUBSET Cgroups
  BY <1>1 DEF ActiveChildren, Children, Active, NonRoot
<1>3. child_weight_sum[Parent[c]] = SumOver(weight, ActiveChildren(Parent[c]))
  BY <1>1, SumForm
<1>4. SumOver(weight, ActiveChildren(Parent[c])) \in Nat
      /\ SumOver(weight, ActiveChildren(Parent[c])) >= weight[c]
  BY <1>2, SumsAreNat DEF TypeOK
<1>5. weight[c] \in Nat /\ weight[c] > 0
  BY <1>1, WeightIsNat DEF TypeOK
<1> QED
  BY <1>3, <1>4, <1>5

LEMMA RoundedUpIsNat ==
  ASSUME NEW a \in Nat, NEW b \in Nat, NEW s \in Nat \ {0}
  PROVE  DivRoundUp(a * b, s) \in Nat
<1>1. PICK m : m = a * b
  OBVIOUS
<1>2. m \in Nat
  BY <1>1
<1>3. PICK n : n = m + s - 1
  OBVIOUS
<1>4. n \in Nat
  BY <1>2, <1>3
<1>5. n \div s \in Nat
  BY <1>4
<1> QED
  BY <1>1, <1>3, <1>5 DEF DivRoundUp

-----------------------------------------------------------------------------
(* The types.                                                              *)

LEMMA InitIInv == Init => IInv
<1> SUFFICES ASSUME Init
             PROVE  IInv
  OBVIOUS
<1> USE DEF Init
<1>1. TypeOK
  <2>1. weight \in [Cgroups -> Weights] /\ HweightOne \in Nat /\ MaxWakes \in Nat /\ MaxReweights \in Nat
    BY WeightsAssumption
  <2>2. Root \in Cgroups
    BY TreeAssumption
  <2>3. wakes \in 0 .. MaxWakes /\ reweights \in 0 .. MaxReweights /\ hweight_gen \in Nat
    BY <2>1
  <2>4. /\ nr_runnable \in [Cgroups -> Nat] /\ nr_active \in [Cgroups -> Nat]
        /\ child_weight_sum \in [Cgroups -> Nat] /\ cgrp_gen \in [Cgroups -> Nat]
        /\ level \in [Cpus -> Nat] /\ gen_read \in [Cpus -> Nat]
    OBVIOUS
  <2>5. /\ hweight \in [Cgroups -> Nat] /\ cgrp \in [Cpus -> Cgroups]
        /\ task \in [Cpus -> Tasks \cup {None}] /\ updated \in [Cpus -> BOOLEAN]
        /\ runnable \subseteq Tasks /\ reweighted \in BOOLEAN
    BY <2>1, <2>2
  <2> QED
    BY <2>1, <2>3, <2>4, <2>5 DEF TypeOK
<1>2. HandlersOK
  BY DEF HandlersOK, HandlerOK
<1>3. \A c \in Cgroups : RunnableIn(c) = {} /\ ActiveChildren(c) = {} /\ nr_runnable[c] = 0 /\ nr_active[c] = 0
  BY DEF RunnableIn, ActiveChildren, Children, Active
<1>4. RunnableCounted
  BY <1>3, FS_EmptySet DEF RunnableCounted
<1>5. \A cpu \in Cpus : ~Waking(cpu) /\ ~Sleeping(cpu)
  BY DEF Waking, Sleeping
<1>6. OneWaker /\ PathsActive /\ ReportedOnce
  BY <1>5 DEF OneWaker, PathsActive, ReportedOnce
<1>7. Balanced
  <2>1. \A c : Wakers(c) = {} /\ Sleepers(c) = {}
    BY <1>5 DEF Wakers, Sleepers
  <2>2. \A c \in NonRoot : Base(c) = 0 /\ nr_active[c] = 0
    BY <1>3, FS_EmptySet DEF Base, NonRoot
  <2> QED
    BY <2>1, <2>2, FS_EmptySet DEF Balanced
<1>8. SumOfActive
  BY <1>3, SumEmpty, SumForm
<1> QED
  BY <1>1, <1>2, <1>4, <1>6, <1>7, <1>8 DEF IInv, WalkInv

LEMMA TypeOfPropagate ==
  ASSUME IInv, SumOfActive', NEW cpu \in Cpus, Propagate(cpu)
  PROVE  TypeOK'
<1> USE DEF IInv, TypeOK
<1>0. PICK e : e = At(cpu)
  OBVIOUS
<1>1. /\ e \in NonRoot /\ weight' = weight /\ level[cpu] \in Nat
      /\ \/ nr_active' = [nr_active EXCEPT ![e] = @ + 1]
         \/ nr_active' = [nr_active EXCEPT ![e] = @ - 1] /\ nr_active[e] > 0
      /\ child_weight_sum' = [c \in Cgroups |-> child_weight_sum'[c]]
  <2>1. CASE op[cpu] = "runnable"
    <3>1. /\ e \in NonRoot /\ weight' = weight /\ nr_active' = [nr_active EXCEPT ![e] = @ + 1]
          /\ child_weight_sum' = IF nr_active[e] = 0
                                 THEN [child_weight_sum EXCEPT ![Parent[e]] = @ + weight[e]]
                                 ELSE child_weight_sum
      BY <1>0, <2>1, WakeUpWalk
    <3>2. child_weight_sum' = [c \in Cgroups |-> child_weight_sum'[c]]
      BY <3>1
    <3> QED
      BY <3>1, <3>2
  <2>2. CASE op[cpu] # "runnable"
    BY <1>0, <2>2, SleepUpWalk, SleeperFindsActive
  <2> QED
    BY <2>1, <2>2
<1>2. e \in Cgroups
  BY <1>1 DEF NonRoot
<1>3. nr_active' \in [Cgroups -> Nat]
  BY <1>1, <1>2
<1>4. child_weight_sum' \in [Cgroups -> Nat]
  <2>1. \A c \in Cgroups : child_weight_sum'[c] \in Nat
    <3>1. \A c \in Cgroups : ActiveChildren(c)' \in SUBSET Cgroups
      BY DEF ActiveChildren, Children
    <3> QED
      BY <1>1, <3>1, SumForm, SumsAreNat
  <2> QED
    BY <1>1, <2>1
<1>5. level' \in [Cpus -> Nat] /\ pc' \in [Cpus -> {"idle", "refresh", "refresh_root", "refresh_level", "propagate", "expire"}]
  BY <1>1 DEF Propagate, PropagateLevel, Goto
<1>6. updated' \in [Cpus -> BOOLEAN]
  <2>1. PICK b \in BOOLEAN : updated' = [updated EXCEPT ![cpu] = updated[cpu] \/ b]
    BY DEF Propagate, PropagateLevel
  <2> QED
    BY <2>1
<1>7. /\ UNCHANGED <<nr_runnable, weight, hweight, cgrp_gen, hweight_gen, op, task, cgrp, gen_read>>
      /\ UNCHANGED <<runnable, wakes, reweights, reweighted>>
  BY DEF Propagate, PropagateLevel, shares, control
<1> QED
  BY <1>3, <1>4, <1>5, <1>6, <1>7

LEMMA TypeOfReturn ==
  ASSUME TypeOK, NEW cpu \in Cpus, Return(cpu)
  PROVE  /\ pc' \in [Cpus -> {"idle", "refresh", "refresh_root", "refresh_level", "propagate", "expire"}]
         /\ op' \in [Cpus -> {"runnable", "quiescent", "refresh"}]
         /\ task' \in [Cpus -> Tasks \cup {None}] /\ cgrp' \in [Cpus -> Cgroups]
         /\ level' \in [Cpus -> Nat] /\ updated' \in [Cpus -> BOOLEAN]
         /\ gen_read' \in [Cpus -> Nat]
<1> USE DEF TypeOK, Return, Goto
<1>1. pc' \in [Cpus -> {"idle", "refresh", "refresh_root", "refresh_level", "propagate", "expire"}]
  OBVIOUS
<1>2. op' \in [Cpus -> {"runnable", "quiescent", "refresh"}] /\ updated' \in [Cpus -> BOOLEAN]
  OBVIOUS
<1>3. task' \in [Cpus -> Tasks \cup {None}] /\ cgrp' \in [Cpus -> Cgroups]
  BY TreeAssumption
<1>4. level' \in [Cpus -> Nat] /\ gen_read' \in [Cpus -> Nat]
  OBVIOUS
<1> QED
  BY <1>1, <1>2, <1>3, <1>4

LEMMA TypeOfRefreshed ==
  ASSUME TypeOK, NEW cpu \in Cpus, Refreshed(cpu)
  PROVE  /\ pc' \in [Cpus -> {"idle", "refresh", "refresh_root", "refresh_level", "propagate", "expire"}]
         /\ op' \in [Cpus -> {"runnable", "quiescent", "refresh"}]
         /\ task' \in [Cpus -> Tasks \cup {None}] /\ cgrp' \in [Cpus -> Cgroups]
         /\ level' \in [Cpus -> Nat] /\ updated' \in [Cpus -> BOOLEAN]
         /\ gen_read' \in [Cpus -> Nat]
<1>1. CASE Return(cpu)
  BY <1>1, TypeOfReturn
<1>2. CASE /\ Goto(cpu, "propagate") /\ UNCHANGED <<locals, gen_read>>
           /\ level' = [level EXCEPT ![cpu] = Level[cgrp[cpu]]]
  <2>1. Level[cgrp[cpu]] \in Nat
    BY TreeAssumption DEF TypeOK
  <2> QED
    BY <1>2, <2>1 DEF TypeOK, Goto, locals
<1> QED
  BY <1>1, <1>2 DEF Refreshed

LEMMA TypeOfRefreshLevel ==
  ASSUME IInv, NEW cpu \in Cpus, RefreshLevel(cpu)
  PROVE  TypeOK'
<1> USE DEF IInv, TypeOK
<1>0. PICK c : c = Ancestor(cgrp[cpu], level[cpu])
  OBVIOUS
<1>1. pc[cpu] = "refresh_level"
  BY DEF RefreshLevel
<1>2. level[cpu] \in 1 .. Level[cgrp[cpu]] /\ cgrp[cpu] \in Cgroups
  BY <1>1 DEF WalkInv, HandlersOK, HandlerOK
<1>3. c \in NonRoot /\ c \in Cgroups /\ Parent[c] \in Cgroups /\ level[cpu] \in Nat
  <2>1. c \in NonRoot
    BY <1>0, <1>2, AncestorUp
  <2> QED
    BY <2>1, TreeAssumption DEF NonRoot
<1>4. /\ pc' \in [Cpus -> {"idle", "refresh", "refresh_root", "refresh_level", "propagate", "expire"}]
      /\ op' \in [Cpus -> {"runnable", "quiescent", "refresh"}]
      /\ task' \in [Cpus -> Tasks \cup {None}] /\ cgrp' \in [Cpus -> Cgroups]
      /\ level' \in [Cpus -> Nat] /\ updated' \in [Cpus -> BOOLEAN]
      /\ gen_read' \in [Cpus -> Nat]
  <2>1. CASE Refreshed(cpu)
    BY <2>1, TypeOfRefreshed
  <2>2. CASE level' = [level EXCEPT ![cpu] = @ + 1] /\ UNCHANGED <<pc, locals, gen_read>>
    BY <1>3, <2>2 DEF locals
  <2> QED
    BY <2>1, <2>2 DEF RefreshLevel
<1>5. hweight' \in [Cgroups -> Nat] /\ cgrp_gen' \in [Cgroups -> Nat]
  <2>1. CASE nr_active[c] = 0
    BY <1>0, <2>1 DEF RefreshLevel, shares
  <2>2. CASE nr_active[c] # 0
    <3>1. child_weight_sum[Parent[c]] \in Nat \ {0}
      BY <1>3, <2>2, DivisorPositive
    <3>2. hweight[Parent[c]] \in Nat /\ weight[c] \in Nat /\ cgrp_gen[Parent[c]] \in Nat
      BY <1>3, WeightIsNat
    <3>3. DivRoundUp(hweight[Parent[c]] * weight[c], child_weight_sum[Parent[c]]) \in Nat
      BY <3>1, <3>2, RoundedUpIsNat
    <3>4. /\ cgrp_gen' = [cgrp_gen EXCEPT ![c] = cgrp_gen[Parent[c]]]
          /\ hweight' = [hweight EXCEPT ![c] =
                           DivRoundUp(hweight[Parent[c]] * weight[c], child_weight_sum[Parent[c]])]
      BY <1>0, <2>2 DEF RefreshLevel
    <3> QED
      BY <3>2, <3>3, <3>4
  <2> QED
    BY <2>1, <2>2
<1>6. /\ UNCHANGED <<nr_runnable, nr_active, weight, child_weight_sum, hweight_gen>>
      /\ UNCHANGED <<runnable, wakes, reweights, reweighted>>
  BY DEF RefreshLevel, counts, control
<1> QED
  BY <1>4, <1>5, <1>6

LEMMA TypeOfSetWeight ==
  ASSUME IInv, SumOfActive', NEW c \in Reweighted, NEW w \in Weights, SetWeight(c, w)
  PROVE  TypeOK'
<1> USE DEF IInv, TypeOK
<1>1. c \in Cgroups
  BY WeightsAssumption
<1>2. /\ weight' = [weight EXCEPT ![c] = w]
      /\ child_weight_sum' = [d \in Cgroups |-> child_weight_sum'[d]]
      /\ reweights < MaxReweights /\ reweights' = reweights + 1 /\ reweighted' = TRUE
      /\ UNCHANGED <<nr_runnable, nr_active, hweight, cgrp_gen, hweight_gen, runnable, wakes>>
      /\ UNCHANGED <<pc, op, task, cgrp, updated, level, gen_read>>
  BY DEF SetWeight, SetWeightIf, counts, shares, locals
<1>3. weight' \in [Cgroups -> Weights]
  BY <1>1, <1>2
<1>4. child_weight_sum' \in [Cgroups -> Nat]
  <2>1. \A d \in Cgroups : child_weight_sum'[d] \in Nat
    <3>1. \A d \in Cgroups : ActiveChildren(d)' \in SUBSET Cgroups
      BY DEF ActiveChildren, Children
    <3> QED
      BY <1>3, <3>1, SumForm, SumsAreNat
  <2> QED
    BY <1>2, <2>1
<1>5. reweights' \in 0 .. MaxReweights
  BY <1>2, WeightsAssumption
<1> QED
  BY <1>2, <1>3, <1>4, <1>5

LEMMA TypeStep ==
  ASSUME IInv, SumOfActive', NEW cpu \in Cpus, Cpu(cpu)
  PROVE  TypeOK'
<1> USE DEF IInv, TypeOK, Goto, shares, control, locals, counts
<1>0. Root \in Cgroups /\ \A c \in Cgroups : Level[c] \in Nat
  BY TreeAssumption
<1>a. MaxWakes \in Nat
  BY WeightsAssumption
<1>1. ASSUME NEW t \in Tasks, Runnable(cpu, t)
      PROVE  TypeOK'
  <2>1. CgroupOf[t] \in Cgroups
    BY LeafOfTask
  <2> QED
    BY <1>0, <1>a, <1>1, <2>1 DEF Runnable, Idle, Enter
<1>2. ASSUME NEW t \in Tasks, Quiescent(cpu, t)
      PROVE  TypeOK'
  <2>1. CgroupOf[t] \in Cgroups /\ t \in RunnableIn(CgroupOf[t])
    BY <1>2, LeafOfTask DEF Quiescent, RunnableIn
  <2>2. nr_runnable[CgroupOf[t]] - 1 \in Nat
    BY <2>1, RunnablePositive DEF WalkInv
  <2> QED
    BY <1>0, <1>a, <1>2, <2>1, <2>2 DEF Quiescent, Idle, Enter
<1>3. ASSUME NEW c \in Cgroups, StartRefresh(cpu, c)
      PROVE  TypeOK'
  BY <1>3 DEF StartRefresh
<1>4. CASE RefreshStart(cpu)
  <2>1. CASE Refreshed(cpu)
    BY <1>4, <2>1, TypeOfRefreshed DEF RefreshStart
  <2>2. CASE ~Refreshed(cpu)
    BY <1>4, <2>2 DEF RefreshStart
  <2> QED
    BY <2>1, <2>2
<1>5. CASE RefreshRoot(cpu)
  BY <1>0, <1>5, WeightsAssumption DEF RefreshRoot
<1>6. CASE RefreshLevel(cpu)
  BY <1>6, TypeOfRefreshLevel
<1>7. CASE Propagate(cpu)
  BY <1>7, TypeOfPropagate
<1>8. CASE Expire(cpu)
  <2>1. /\ hweight_gen' \in Nat /\ reweighted' \in BOOLEAN
        /\ UNCHANGED <<nr_runnable, nr_active, weight, child_weight_sum, hweight, cgrp_gen>>
        /\ UNCHANGED <<runnable, wakes, reweights>>
    BY <1>8 DEF Expire, ExpireTo
  <2>2. CASE Return(cpu)
    BY <2>1, <2>2, TypeOfReturn
  <2>3. CASE Goto(cpu, "refresh") /\ UNCHANGED <<locals, level, gen_read>>
    BY <2>1, <2>3
  <2> QED
    BY <1>8, <2>2, <2>3 DEF Expire, ExpireTo
<1> QED
  BY <1>1, <1>2, <1>3, <1>4, <1>5, <1>6, <1>7, <1>8 DEF Cpu

-----------------------------------------------------------------------------
LEMMA Inductive == IInv /\ [Next]_vars => IInv'
<1> SUFFICES ASSUME IInv, [Next]_vars
             PROVE  IInv'
  OBVIOUS
<1> USE DEF IInv
<1>1. ASSUME NEW cpu \in Cpus, Cpu(cpu)
      PROVE  IInv'
  BY <1>1, WalkStep, SumStep, TypeStep
<1>2. ASSUME NEW c \in Reweighted, NEW w \in Weights, SetWeight(c, w)
      PROVE  IInv'
  <2>1. c \in NonRoot
    BY WeightsAssumption DEF NonRoot
  <2>2. SumOfActive'
    BY <1>2, <2>1, SumSetWeight
  <2>3. TypeOK'
    BY <1>2, <2>2, TypeOfSetWeight
  <2>4. WalkInv'
    BY <1>2, WalkKept DEF SetWeight, SetWeightIf
  <2> QED
    BY <2>2, <2>3, <2>4
<1>3. CASE UNCHANGED vars
  <2>1. WalkInv'
    BY <1>3, WalkKept DEF vars, control
  <2>2. SumOfActive'
    BY <1>3, SumForm DEF vars, counts, ActiveChildren, Active
  <2>3. TypeOK'
    BY <1>3 DEF vars, counts, shares, control, locals, TypeOK
  <2> QED
    BY <2>1, <2>2, <2>3
<1> QED
  BY <1>1, <1>2, <1>3 DEF Next

LEMMA Invariance == Spec => []IInv
  BY InitIInv, Inductive, PTL DEF Spec

(* Every variable has its type: nr_active and child_weight_sum, a u32 and  *)
(* a u64, are never taken below zero by a sleep that overtakes a wake-up.  *)
THEOREM TypeCorrect == Spec => []TypeOK
<1>1. IInv => TypeOK
  BY DEF IInv
<1> QED
  BY Invariance, <1>1, PTL

(* child_weight_sum is the sum of the weights of the active children in    *)
(* every state, in the middle of every walk and after every set_weight.    *)
THEOREM SumsAreOfActive == Spec => []SumOfActive
<1>1. IInv => SumOfActive
  BY DEF IInv
<1> QED
  BY Invariance, <1>1, PTL

(* When no walk is under way, nr_active of a leaf says whether it has      *)
(* runnable tasks, and that of an inner cgroup counts its active children. *)
THEOREM ActiveWhenAtRest == Spec => []ActiveAtRest
<1>1. IInv => ActiveAtRest
  <2> SUFFICES ASSUME IInv, AtRest
               PROVE  \A c \in NonRoot : nr_active[c] = Base(c)
    BY DEF ActiveAtRest, Base, Leaves, NonRoot
  <2>1. \A cpu \in Cpus : ~Waking(cpu) /\ ~Sleeping(cpu)
    BY DEF AtRest, Waking, Sleeping
  <2>2. \A c : Wakers(c) = {} /\ Sleepers(c) = {}
    BY <2>1 DEF Wakers, Sleepers
  <2> QED
    <3>1. \A c \in NonRoot : nr_active[c] \in Nat /\ Base(c) \in Nat
      BY WakersBelowBase DEF IInv, TypeOK, NonRoot
    <3>2. \A c \in NonRoot : nr_active[c] + 0 = Base(c) + 0
      BY <2>2, FS_EmptySet DEF IInv, WalkInv, Balanced
    <3> QED
      BY <3>1, <3>2
<1> QED
  BY Invariance, <1>1, PTL

-----------------------------------------------------------------------------
(* The cached shares.  A walk that has changed a sum raises hweight_gen    *)
(* before it ends; until then what is cached need not be right.            *)
Dirty(cpu) == updated[cpu] /\ pc[cpu] \in {"propagate", "expire"}
Clean == ~reweighted /\ \A cpu \in Cpus : ~Dirty(cpu)
GenBounded ==
  /\ \A c \in Cgroups : cgrp_gen[c] <= hweight_gen
  /\ \A cpu \in Cpus : gen_read[cpu] <= hweight_gen
Cached(c) == cgrp_gen[c] = hweight_gen => hweight[c] = Entitled(c)
FreshInv == GenBounded /\ hweight[Root] = HweightOne /\ (Clean => \A c \in Cgroups : Cached(c))

(* The shares of the cgroups of T, which holds the parents of its members. *)
IsEntitled(e, T) ==
  e = [d \in T |-> IF d = Root THEN HweightOne
                   ELSE DivRoundUp(e[Parent[d]] * weight[d], child_weight_sum[Parent[d]])]
Upto(n) == {d \in Cgroups : Level[d] <= n}

LEMMA EntitledExists == \E e : IsEntitled(e, Cgroups)
<1> DEFINE A == {n \in Nat : \E e : IsEntitled(e, Upto(n))}
<1>l. \A d \in Cgroups : /\ Level[d] \in Nat /\ (Level[d] = 0 <=> d = Root)
                         /\ d # Root => /\ Parent[d] \in Cgroups /\ Level[Parent[d]] \in Nat
                                        /\ Level[d] = Level[Parent[d]] + 1
  BY TreeAssumption
<1>1. 0 \in A
  <2> DEFINE e == [d \in Upto(0) |-> HweightOne]
  <2>1. \A d \in Upto(0) : d = Root
    BY <1>l DEF Upto
  <2>2. IsEntitled(e, Upto(0))
    BY <2>1 DEF IsEntitled
  <2> QED
    BY <2>2
<1>2. ASSUME NEW n \in Nat, n \in A
      PROVE  n + 1 \in A
  <2>1. PICK e : IsEntitled(e, Upto(n))
    BY <1>2
  <2> DEFINE share(d) == IF d = Root THEN HweightOne
                         ELSE DivRoundUp(e[Parent[d]] * weight[d], child_weight_sum[Parent[d]])
             g == [d \in Upto(n + 1) |-> share(d)]
  <2>2. \A d \in Upto(n) : e[d] = share(d)
    BY <2>1 DEF IsEntitled
  <2>3. \A d \in Upto(n + 1) : d # Root => Parent[d] \in Upto(n) /\ Parent[d] \in Upto(n + 1)
    BY <1>l DEF Upto
  <2>4. \A d \in Upto(n + 1) : d # Root => g[Parent[d]] = e[Parent[d]]
    <3> HIDE DEF share
    <3> QED
      BY <2>2, <2>3
  <2>5. g = [d \in Upto(n + 1) |-> IF d = Root THEN HweightOne
               ELSE DivRoundUp(g[Parent[d]] * weight[d], child_weight_sum[Parent[d]])]
    <3>1. ASSUME NEW d \in Upto(n + 1)
          PROVE  share(d) = IF d = Root THEN HweightOne
                            ELSE DivRoundUp(g[Parent[d]] * weight[d], child_weight_sum[Parent[d]])
      <4> HIDE DEF g
      <4> QED
        BY <2>4
    <3> QED
      BY <3>1
  <2>6. IsEntitled(g, Upto(n + 1))
    <3> HIDE DEF g
    <3> QED
      BY <2>5 DEF IsEntitled
  <2> QED
    BY <2>6
<1>3. \A n \in Nat : n \in A
  <2> HIDE DEF A
  <2> QED
    BY <1>1, <1>2, NumberInduction
<1>4. PICK n : n = SumOver(Level, Cgroups)
  OBVIOUS
<1>5. n \in Nat /\ \A d \in Cgroups : Level[d] <= n
  BY <1>l, <1>4, FiniteAssumption, SumNat, SumAtLeast
<1>6. Upto(n) = Cgroups
  BY <1>5 DEF Upto
<1> QED
  BY <1>3, <1>5, <1>6

LEMMA EntitledIs ==
  ASSUME NEW c \in Cgroups
  PROVE  Entitled(c) = IF c = Root THEN HweightOne
           ELSE DivRoundUp(Entitled(Parent[c]) * weight[c], child_weight_sum[Parent[c]])
<1> DEFINE e == CHOOSE e : IsEntitled(e, Cgroups)
<1>1. IsEntitled(e, Cgroups)
  BY EntitledExists
<1>2. \A d : Entitled(d) = e[d]
  BY DEF Entitled, IsEntitled
<1> HIDE DEF e
<1>3. e[c] = IF c = Root THEN HweightOne
             ELSE DivRoundUp(e[Parent[c]] * weight[c], child_weight_sum[Parent[c]])
  BY <1>1 DEF IsEntitled
<1> QED
  BY <1>2, <1>3

LEMMA EntitledKept ==
  ASSUME weight' = weight, child_weight_sum' = child_weight_sum, NEW c
  PROVE  Entitled(c)' = Entitled(c)
  BY DEF Entitled

LEMMA CacheKept ==
  ASSUME FreshInv, Clean' => Clean, \A cpu \in Cpus : gen_read'[cpu] <= hweight_gen,
         UNCHANGED <<shares, hweight_gen, weight, child_weight_sum>>
  PROVE  FreshInv'
<1> USE DEF FreshInv, shares
<1>1. \A c : Entitled(c)' = Entitled(c)
  BY EntitledKept
<1>2. \A c \in Cgroups : Cached(c) => Cached(c)'
  BY <1>1 DEF Cached
<1>3. GenBounded'
  BY DEF GenBounded
<1> QED
  BY <1>2, <1>3

(* The refresh writes a share that is right if the parent's is, and gives  *)
(* it the parent's generation.                                             *)
LEMMA CacheRefreshLevel ==
  ASSUME IInv, FreshInv, NEW cpu \in Cpus, RefreshLevel(cpu)
  PROVE  FreshInv'
<1> USE DEF IInv, TypeOK, FreshInv, GenBounded
<1>0. PICK c : c = Ancestor(cgrp[cpu], level[cpu])
  OBVIOUS
<1>1. pc[cpu] = "refresh_level"
  BY DEF RefreshLevel
<1>2. level[cpu] \in 1 .. Level[cgrp[cpu]] /\ cgrp[cpu] \in Cgroups
  BY <1>1 DEF WalkInv, HandlersOK, HandlerOK
<1>3. c \in NonRoot /\ c \in Cgroups /\ Parent[c] \in Cgroups /\ c # Root
  <2>1. c \in NonRoot
    BY <1>0, <1>2, AncestorUp
  <2> QED
    BY <2>1, TreeAssumption DEF NonRoot
<1>4. /\ weight' = weight /\ child_weight_sum' = child_weight_sum /\ hweight_gen' = hweight_gen
      /\ reweighted' = reweighted
  BY DEF RefreshLevel, control
<1>5. \A d \in Cpus : gen_read'[d] <= hweight_gen /\ (Dirty(d) => Dirty(d)')
  <2>1. \/ UNCHANGED <<pc, locals, gen_read>>
        \/ Refreshed(cpu)
    BY DEF RefreshLevel
  <2>2. CASE UNCHANGED <<pc, locals, gen_read>>
    BY <2>2 DEF Dirty, locals
  <2>3. CASE Refreshed(cpu)
    <3>1. /\ \A d \in Cpus : gen_read'[d] = gen_read[d] \/ gen_read'[d] = 0
          /\ \A d \in Cpus \ {cpu} : pc'[d] = pc[d] /\ updated'[d] = updated[d]
      BY <2>3 DEF Refreshed, Return, Goto, locals
    <3>2. ~Dirty(cpu)
      BY <1>1 DEF Dirty
    <3> QED
      BY <3>1, <3>2 DEF Dirty
  <2> QED
    BY <2>1, <2>2, <2>3
<1>6. Clean' => Clean
  BY <1>4, <1>5 DEF Clean
<1>7. CASE nr_active[c] = 0
  <2>1. UNCHANGED shares
    BY <1>0, <1>7 DEF RefreshLevel
  <2> QED
    BY <1>4, <1>5, <1>6, <2>1, CacheKept
<1>8. CASE nr_active[c] # 0
  <2>1. /\ cgrp_gen' = [cgrp_gen EXCEPT ![c] = cgrp_gen[Parent[c]]]
        /\ hweight' = [hweight EXCEPT ![c] =
                         DivRoundUp(hweight[Parent[c]] * weight[c], child_weight_sum[Parent[c]])]
    BY <1>0, <1>8 DEF RefreshLevel
  <2>2. GenBounded'
    BY <1>3, <1>4, <1>5, <2>1
  <2>3. hweight'[Root] = HweightOne
    BY <1>3, <2>1, TreeAssumption
  <2>4. ASSUME Clean', NEW d \in Cgroups
        PROVE  Cached(d)'
    <3>1. Cached(d) /\ Cached(Parent[c])
      BY <1>3, <1>6, <2>4
    <3>2. Entitled(d)' = Entitled(d)
      BY <1>4, EntitledKept
    <3>3. CASE d = c
      <4>1. cgrp_gen'[d] = cgrp_gen[Parent[c]]
        BY <1>3, <2>1, <3>3
      <4>2. hweight'[d] = DivRoundUp(hweight[Parent[c]] * weight[c], child_weight_sum[Parent[c]])
        BY <1>3, <2>1, <3>3
      <4>3. Entitled(d) = DivRoundUp(Entitled(Parent[c]) * weight[c], child_weight_sum[Parent[c]])
        BY <1>3, <3>3, EntitledIs
      <4> QED
        BY <1>4, <3>1, <3>2, <4>1, <4>2, <4>3 DEF Cached
    <3>4. CASE d # c
      <4>1. cgrp_gen'[d] = cgrp_gen[d] /\ hweight'[d] = hweight[d]
        BY <2>1, <3>4
      <4> QED
        BY <1>4, <3>1, <3>2, <4>1 DEF Cached
    <3> QED
      BY <3>3, <3>4
  <2> QED
    BY <2>2, <2>3, <2>4
<1> QED
  BY <1>7, <1>8

LEMMA CacheRefreshRoot ==
  ASSUME IInv, FreshInv, NEW cpu \in Cpus, RefreshRoot(cpu)
  PROVE  FreshInv'
<1> USE DEF IInv, TypeOK, FreshInv, GenBounded
<1>1. /\ hweight' = [hweight EXCEPT ![Root] = HweightOne]
      /\ cgrp_gen' = [cgrp_gen EXCEPT ![Root] = gen_read[cpu]]
      /\ gen_read' = gen_read /\ weight' = weight /\ child_weight_sum' = child_weight_sum
      /\ hweight_gen' = hweight_gen
  BY DEF RefreshRoot
<1>2. Clean' => Clean
  BY DEF RefreshRoot, control, locals, Goto, Clean, Dirty
<1>3. Root \in Cgroups
  BY TreeAssumption
<1>4. GenBounded' /\ hweight'[Root] = HweightOne
  BY <1>1, <1>3
<1>5. ASSUME Clean', NEW d \in Cgroups
      PROVE  Cached(d)'
  <2>1. Entitled(d)' = Entitled(d)
    BY <1>1, EntitledKept
  <2>2. CASE d = Root
    <3>1. Entitled(d) = HweightOne
      BY <2>2, EntitledIs
    <3> QED
      BY <1>4, <2>1, <2>2, <3>1 DEF Cached
  <2>3. CASE d # Root
    <3>1. cgrp_gen'[d] = cgrp_gen[d] /\ hweight'[d] = hweight[d] /\ Cached(d)
      BY <1>1, <1>2, <1>5, <2>3
    <3> QED
      BY <1>1, <2>1, <3>1 DEF Cached
  <2> QED
    BY <2>2, <2>3
<1> QED
  BY <1>4, <1>5

LEMMA CacheExpire ==
  ASSUME IInv, FreshInv, NEW cpu \in Cpus, Expire(cpu)
  PROVE  FreshInv'
<1> USE DEF IInv, TypeOK
<1>1. /\ UNCHANGED <<shares, weight, child_weight_sum>>
      /\ hweight_gen' = IF updated[cpu] THEN hweight_gen + 1 ELSE hweight_gen
      /\ reweighted' = (reweighted /\ ~updated[cpu])
  BY DEF Expire, ExpireTo
<1>2. /\ \A d \in Cpus : gen_read'[d] = gen_read[d] \/ gen_read'[d] = 0
      /\ \A d \in Cpus \ {cpu} : pc'[d] = pc[d] /\ updated'[d] = updated[d]
  BY DEF Expire, ExpireTo, Return, Goto, locals
<1>3. \A d \in Cpus : gen_read'[d] <= hweight_gen /\ gen_read'[d] <= hweight_gen + 1
  <2>1. \A d \in Cpus : gen_read[d] \in Nat /\ gen_read[d] <= hweight_gen /\ hweight_gen \in Nat
    BY DEF FreshInv, GenBounded
  <2> QED
    BY <1>2, <2>1
<1>4. CASE updated[cpu]
  <2>1. \A c \in Cgroups : cgrp_gen'[c] \in Nat /\ cgrp_gen'[c] <= hweight_gen /\ hweight_gen \in Nat
    BY <1>1 DEF FreshInv, GenBounded, shares
  <2>2. hweight_gen' = hweight_gen + 1
    BY <1>1, <1>4
  <2>3. GenBounded' /\ \A c \in Cgroups : Cached(c)'
    BY <1>3, <2>1, <2>2 DEF GenBounded, Cached
  <2> QED
    BY <1>1, <2>3 DEF FreshInv, shares
<1>5. CASE ~updated[cpu]
  <2>1. Clean' => Clean
    BY <1>1, <1>2, <1>5 DEF Clean, Dirty
  <2>2. UNCHANGED <<shares, hweight_gen, weight, child_weight_sum>>
    BY <1>1, <1>5
  <2> QED
    BY <1>3, <2>1, <2>2, CacheKept
<1> QED
  BY <1>4, <1>5

LEMMA CachePropagate ==
  ASSUME IInv, FreshInv, NEW cpu \in Cpus, Propagate(cpu)
  PROVE  FreshInv'
<1> USE DEF IInv, TypeOK
<1>0. PICK e : e = Ancestor(cgrp[cpu], level[cpu])
  OBVIOUS
<1>1. /\ UNCHANGED <<shares, hweight_gen, weight, gen_read, reweighted>>
      /\ pc[cpu] = "propagate" /\ pc'[cpu] \in {"propagate", "expire"}
      /\ \A d \in Cpus \ {cpu} : pc'[d] = pc[d] /\ updated'[d] = updated[d]
      /\ \/ updated'[cpu]
         \/ updated'[cpu] = updated[cpu] /\ child_weight_sum' = child_weight_sum
  <2>1. ASSUME NEW n, NEW flips \in BOOLEAN, PropagateLevel(cpu, e, n, flips, flips)
        PROVE  /\ UNCHANGED <<shares, hweight_gen, weight, gen_read, reweighted>>
               /\ pc[cpu] = "propagate" /\ pc'[cpu] \in {"propagate", "expire"}
               /\ \A d \in Cpus \ {cpu} : pc'[d] = pc[d] /\ updated'[d] = updated[d]
               /\ \/ updated'[cpu]
                  \/ updated'[cpu] = updated[cpu] /\ child_weight_sum' = child_weight_sum
    <3>1. UNCHANGED <<shares, hweight_gen, weight, gen_read, reweighted>>
      BY <2>1 DEF PropagateLevel, control
    <3>2. pc[cpu] = "propagate" /\ (pc' = pc \/ pc' = [pc EXCEPT ![cpu] = "expire"])
      BY <2>1 DEF Propagate, PropagateLevel, Goto
    <3>3. updated' = [updated EXCEPT ![cpu] = @ \/ flips]
      BY <2>1 DEF PropagateLevel
    <3>4. ~flips => child_weight_sum' = child_weight_sum
      BY <2>1 DEF PropagateLevel
    <3> QED
      BY <3>1, <3>2, <3>3, <3>4
  <2>2. CASE op[cpu] = "runnable"
    <3>1. PropagateLevel(cpu, e, nr_active[e] + 1, nr_active[e] = 0, nr_active[e] = 0)
      BY <1>0, <2>2 DEF Propagate
    <3> QED
      BY <2>1, <3>1
  <2>3. CASE op[cpu] # "runnable"
    <3>1. PropagateLevel(cpu, e, nr_active[e] - 1, nr_active[e] = 1, nr_active[e] = 1)
      BY <1>0, <2>3 DEF Propagate
    <3> QED
      BY <2>1, <3>1
  <2> QED
    BY <2>2, <2>3
<1>2. CASE updated'[cpu]
  <2>1. ~Clean'
    BY <1>1, <1>2 DEF Clean, Dirty
  <2> QED
    BY <1>1, <2>1 DEF FreshInv, GenBounded, shares
<1>3. CASE updated'[cpu] = updated[cpu] /\ child_weight_sum' = child_weight_sum
  <2>1. Clean' => Clean
    BY <1>1, <1>3 DEF Clean, Dirty
  <2> QED
    BY <1>1, <1>3, <2>1, CacheKept DEF FreshInv, GenBounded
<1> QED
  BY <1>1, <1>2, <1>3

LEMMA CacheStep ==
  ASSUME IInv, FreshInv, NEW cpu \in Cpus, Cpu(cpu)
  PROVE  FreshInv'
<1> USE DEF IInv, TypeOK
<1> DEFINE Harmless ==
      /\ UNCHANGED <<shares, hweight_gen, weight, child_weight_sum, reweighted>>
      /\ pc[cpu] \notin {"propagate", "expire"}
      /\ \A d \in Cpus : gen_read'[d] \in {0, gen_read[d], hweight_gen}
      /\ \A d \in Cpus \ {cpu} : pc'[d] = pc[d] /\ updated'[d] = updated[d]
<1>h. ASSUME Harmless
      PROVE  FreshInv'
  <2>1. Clean' => Clean
    BY <1>h DEF Clean, Dirty
  <2>2. \A d \in Cpus : gen_read'[d] <= hweight_gen
    BY <1>h DEF FreshInv, GenBounded
  <2> QED
    BY <1>h, <2>1, <2>2, CacheKept
<1> USE DEF Goto, locals, control
<1>1. ASSUME NEW t \in Tasks, Runnable(cpu, t)
      PROVE  Harmless
  BY <1>1 DEF Runnable, Idle, Enter
<1>2. ASSUME NEW t \in Tasks, Quiescent(cpu, t)
      PROVE  Harmless
  BY <1>2 DEF Quiescent, Idle, Enter
<1>3. ASSUME NEW c \in Cgroups, StartRefresh(cpu, c)
      PROVE  Harmless
  BY <1>3 DEF StartRefresh
<1>4. CASE RefreshStart(cpu)
  <2>1. Harmless
    BY <1>4 DEF RefreshStart, Refreshed, Return
  <2> QED
    BY <1>h, <2>1
<1> HIDE DEF Harmless
<1> QED
  BY <1>h, <1>1, <1>2, <1>3, <1>4, CacheRefreshRoot, CacheRefreshLevel, CachePropagate,
     CacheExpire DEF Cpu

LEMMA FreshInductive == IInv /\ FreshInv /\ [Next]_vars => FreshInv'
<1> SUFFICES ASSUME IInv, FreshInv, [Next]_vars
             PROVE  FreshInv'
  OBVIOUS
<1>1. ASSUME NEW c \in Reweighted, NEW w \in Weights, SetWeight(c, w)
      PROVE  FreshInv'
  <2>1. ~Clean' /\ UNCHANGED <<shares, hweight_gen, gen_read>>
    BY <1>1 DEF SetWeight, SetWeightIf, Clean
  <2> QED
    BY <2>1 DEF FreshInv, GenBounded, shares
<1>2. CASE UNCHANGED vars
  <2>1. Clean' = Clean /\ UNCHANGED <<shares, hweight_gen, weight, child_weight_sum, gen_read>>
    BY <1>2 DEF vars, locals, control, Clean, Dirty
  <2> QED
    BY <2>1, CacheKept DEF FreshInv, GenBounded
<1> QED
  BY <1>1, <1>2, CacheStep DEF Next

(* No race of a refresh with a walk leaves a wrong share that passes for a *)
(* current one; only a changed weight does, until the next wake-up.        *)
THEOREM FreshShares == Spec => []FreshUnlessReweighted
<1>1. Init => FreshInv
  <2> SUFFICES ASSUME Init
               PROVE  FreshInv
    OBVIOUS
  <2>1. Root \in Cgroups
    BY TreeAssumption
  <2>2. \A c \in Cgroups : cgrp_gen[c] = 0 /\ hweight[c] = HweightOne
    BY DEF Init
  <2>3. hweight_gen = 1 /\ \A cpu \in Cpus : gen_read[cpu] = 0
    BY DEF Init
  <2> QED
    BY <2>1, <2>2, <2>3 DEF FreshInv, GenBounded, Cached
<1>2. FreshInv => FreshUnlessReweighted
  <2> SUFFICES ASSUME FreshInv, ~reweighted, AtRest, NEW c \in Leaves, Fresh(c)
               PROVE  hweight[c] = Entitled(c)
    BY DEF FreshUnlessReweighted, HweightIsFresh
  <2>1. Clean
    BY DEF Clean, Dirty, AtRest
  <2> QED
    BY <2>1 DEF FreshInv, Cached, Fresh, Leaves
<1> QED
  BY Invariance, <1>1, <1>2, FreshInductive, PTL DEF Spec

-----------------------------------------------------------------------------
(* The shares in sum.  Once the walks are over, the cgroups that have a    *)
(* share are the root and those that are active, and all of a cgroup's     *)
(* share, rounded up, is with its active children.                         *)
Shared == {c \in Cgroups : c = Root \/ Active(c)}
EntitledTo == [c \in Cgroups |-> Entitled(c)]

(* The shares a hierarchy cut off at level n would give out.               *)
CutAt(n) == {c \in Shared : Level[c] = n \/ (c \in Leaves /\ Level[c] < n)}

LEMMA RoundedUp ==
  ASSUME NEW a \in Nat, NEW s \in Nat \ {0}
  PROVE  DivRoundUp(a, s) \in Nat /\ a <= s * DivRoundUp(a, s)
<1> DEFINE q == DivRoundUp(a, s)
<1>1. q \in Nat /\ s * q <= a + s - 1 /\ a + s - 1 < s * q + s
  BY DEF DivRoundUp
<1> QED
  BY <1>1

LEMMA Levels ==
  \A d \in Cgroups : /\ Level[d] \in Nat /\ (Level[d] = 0 <=> d = Root)
                     /\ d # Root => /\ Parent[d] \in Cgroups /\ Level[Parent[d]] \in Nat
                                    /\ Level[d] = Level[Parent[d]] + 1
  BY TreeAssumption

LEMMA AtRestUpwards ==
  ASSUME TypeOK, ActiveAtRest, AtRest
  PROVE  /\ \A d \in NonRoot : Active(d) => Parent[d] \in Shared
         /\ \A p \in Shared : p \notin Leaves /\ p # Root => ActiveChildren(p) # {}
<1>1. ASSUME NEW c \in NonRoot, c \notin Leaves
      PROVE  nr_active[c] = Cardinality(ActiveChildren(c))
  BY <1>1 DEF ActiveAtRest, NonRoot
<1>2. ASSUME NEW d \in NonRoot, Active(d)
      PROVE  Parent[d] \in Shared
  <2>1. Parent[d] \in Cgroups /\ d \in ActiveChildren(Parent[d])
    BY <1>2, Levels DEF NonRoot, ActiveChildren, Children
  <2>2. CASE Parent[d] = Root
    BY <2>1, <2>2 DEF Shared
  <2>3. CASE Parent[d] # Root
    <3>1. Parent[d] \in NonRoot /\ Parent[d] \notin Leaves
      BY <2>1, <2>3 DEF NonRoot, Leaves, ActiveChildren
    <3>2. IsFiniteSet(ActiveChildren(Parent[d]))
      BY FiniteAssumption, FS_Subset DEF ActiveChildren, Children
    <3>3. Cardinality(ActiveChildren(Parent[d])) \in Nat /\ Cardinality(ActiveChildren(Parent[d])) # 0
      BY <2>1, <3>2, FS_CardinalityType, FS_EmptySet
    <3> QED
      BY <1>1, <2>1, <3>1, <3>3 DEF Shared, Active
  <2> QED
    BY <2>2, <2>3
<1>3. ASSUME NEW p \in Shared, p \notin Leaves, p # Root
      PROVE  ActiveChildren(p) # {}
  <2>1. nr_active[p] = Cardinality(ActiveChildren(p)) /\ nr_active[p] > 0
    BY <1>1, <1>3 DEF Shared, NonRoot, Active
  <2> QED
    BY <2>1, FS_EmptySet
<1> QED
  BY <1>2, <1>3

(* With an active leaf the root has an active child.                       *)
LEMMA RootShares ==
  ASSUME TypeOK, ActiveAtRest, AtRest, NEW leaf \in NonRoot, Active(leaf)
  PROVE  ActiveChildren(Root) # {}
<1> DEFINE A == {n \in Nat : \A c \in NonRoot : Active(c) /\ Level[c] = n => ActiveChildren(Root) # {}}
<1>1. 0 \in A
  BY Levels DEF NonRoot
<1>2. ASSUME NEW n \in Nat, n \in A
      PROVE  n + 1 \in A
  <2> SUFFICES ASSUME NEW c \in NonRoot, Active(c), Level[c] = n + 1
               PROVE  ActiveChildren(Root) # {}
    OBVIOUS
  <2>1. Parent[c] \in Cgroups /\ Level[Parent[c]] = n
    BY Levels DEF NonRoot
  <2>2. CASE Parent[c] = Root
    BY <2>2 DEF ActiveChildren, Children, NonRoot
  <2>3. CASE Parent[c] # Root
    <3>1. Parent[c] \in NonRoot /\ Active(Parent[c])
      BY <2>1, <2>3, AtRestUpwards DEF Shared, NonRoot
    <3> QED
      BY <1>2, <2>1, <3>1
  <2> QED
    BY <2>2, <2>3
<1>3. \A n \in Nat : n \in A
  <2> HIDE DEF A
  <2> QED
    BY <1>1, <1>2, NumberInduction
<1> QED
  BY <1>3, Levels DEF NonRoot

LEMMA EntitledChild ==
  ASSUME TypeOK, SumOfActive, ActiveAtRest, AtRest, NEW d \in NonRoot, Active(d),
         Entitled(Parent[d]) \in Nat
  PROVE  /\ child_weight_sum[Parent[d]] \in Nat \ {0}
         /\ Entitled(d) \in Nat
         /\ Entitled(Parent[d]) * weight[d] <= child_weight_sum[Parent[d]] * Entitled(d)
<1> DEFINE p == Parent[d]
           s == child_weight_sum[p]
<1>1. p \in Cgroups /\ d \in ActiveChildren(p) /\ d # Root /\ d \in Cgroups
  BY Levels DEF NonRoot, ActiveChildren, Children
<1>2. weight[d] \in Nat \ {0} /\ s \in Nat
  BY <1>1, WeightsAssumption DEF TypeOK
<1>3. s = SumOver(weight, ActiveChildren(p))
  BY <1>1 DEF SumOfActive, SumOver
<1>4. weight[d] <= s
  <2>1. IsFiniteSet(ActiveChildren(p)) /\ \A c \in ActiveChildren(p) : weight[c] \in Nat
    BY FiniteAssumption, WeightsAssumption, FS_Subset DEF ActiveChildren, Children, TypeOK
  <2> QED
    BY <1>1, <1>3, <2>1, SumAtLeast
<1>5. s \in Nat \ {0}
  BY <1>2, <1>4
<1>6. Entitled(d) = DivRoundUp(Entitled(p) * weight[d], s)
  BY <1>1, EntitledIs
<1>7. Entitled(p) * weight[d] \in Nat
  BY <1>2
<1> HIDE DEF p, s
<1>8. Entitled(d) \in Nat /\ Entitled(p) * weight[d] <= s * Entitled(d)
  BY <1>5, <1>6, <1>7, RoundedUp
<1> QED
  BY <1>5, <1>8 DEF p, s

LEMMA EntitledIsNat ==
  ASSUME TypeOK, SumOfActive, ActiveAtRest, AtRest
  PROVE  \A c \in Shared : Entitled(c) \in Nat
<1> DEFINE A == {n \in Nat : \A c \in Shared : Level[c] = n => Entitled(c) \in Nat}
<1>1. 0 \in A
  <2>1. Root \in Cgroups /\ HweightOne \in Nat
    BY TreeAssumption, WeightsAssumption
  <2>2. Entitled(Root) \in Nat
    BY <2>1, EntitledIs
  <2> QED
    BY <2>2, Levels DEF Shared
<1>2. ASSUME NEW n \in Nat, n \in A
      PROVE  n + 1 \in A
  <2> SUFFICES ASSUME NEW c \in Shared, Level[c] = n + 1
               PROVE  Entitled(c) \in Nat
    OBVIOUS
  <2>1. c \in NonRoot /\ Active(c) /\ Level[Parent[c]] = n
    BY Levels DEF Shared, NonRoot
  <2>2. Entitled(Parent[c]) \in Nat
    BY <1>2, <2>1, AtRestUpwards
  <2> QED
    BY <2>1, <2>2, EntitledChild
<1>3. \A n \in Nat : n \in A
  <2> HIDE DEF A
  <2> QED
    BY <1>1, <1>2, NumberInduction
<1> QED
  BY <1>3, Levels DEF Shared

LEMMA ChildrenCover ==
  ASSUME TypeOK, SumOfActive, ActiveAtRest, AtRest, NEW p \in Shared, ActiveChildren(p) # {}
  PROVE  /\ IsFiniteSet(ActiveChildren(p)) /\ ActiveChildren(p) \subseteq Shared
         /\ SumOver(EntitledTo, ActiveChildren(p)) >= EntitledTo[p]
<1> DEFINE kids == ActiveChildren(p)
           s == child_weight_sum[p]
           e == EntitledTo[p]
<1>1. IsFiniteSet(kids) /\ kids \subseteq Shared
  BY FiniteAssumption, FS_Subset DEF ActiveChildren, Children, Shared
<1>2. p \in Cgroups /\ e = Entitled(p) /\ e \in Nat
  BY EntitledIsNat DEF Shared, EntitledTo
<1>3. ASSUME NEW d \in kids
      PROVE  /\ s \in Nat \ {0} /\ weight[d] \in Nat /\ EntitledTo[d] \in Nat
             /\ e * weight[d] <= s * EntitledTo[d]
  <2>1. d \in NonRoot /\ Active(d) /\ Parent[d] = p
    BY DEF ActiveChildren, Children, NonRoot
  <2>2. weight[d] \in Nat /\ EntitledTo[d] = Entitled(d)
    BY <2>1, WeightsAssumption DEF TypeOK, NonRoot, EntitledTo
  <2> QED
    BY <1>2, <2>1, <2>2, EntitledChild
<1>4. s = SumOver(weight, kids)
  BY <1>2 DEF SumOfActive, SumOver
<1>5. s \in Nat \ {0}
  BY <1>3
<1> DEFINE sum == SumOver(EntitledTo, kids)
<1>6. sum \in Nat /\ e * SumOver(weight, kids) <= s * sum
  <2> HIDE DEF kids, s, e
  <2> QED
    BY <1>1, <1>2, <1>3, <1>5, SumProportion, SumNat
<1>7. sum >= e
  <2>1. e * s <= s * sum
    BY <1>4, <1>6
  <2> HIDE DEF sum, s, e
  <2>2. s * e <= s * sum
    BY <1>2, <1>5, <2>1
  <2> SUFFICES ASSUME sum < e PROVE FALSE
    BY <1>2, <1>6
  <2>3. PICK k \in Nat : e = sum + 1 + k
    <3>1. e - sum - 1 \in Nat /\ e = sum + 1 + (e - sum - 1)
      BY <1>2, <1>6
    <3> QED
      BY <3>1
  <2>4. s * e = s * sum + s + s * k /\ s * k \in Nat /\ s * sum \in Nat
    BY <1>5, <1>6, <2>3
  <2> QED
    BY <1>5, <2>2, <2>4
<1> QED
  BY <1>1, <1>7

(* One level deeper the inner cgroups give way to their active children,   *)
(* and nothing gets lost.                                                  *)
LEMMA CutDeeper ==
  ASSUME TypeOK, SumOfActive, ActiveAtRest, AtRest, ActiveChildren(Root) # {}, NEW n \in Nat,
         SumOver(EntitledTo, CutAt(n)) >= HweightOne
  PROVE  SumOver(EntitledTo, CutAt(n + 1)) >= HweightOne
<1> DEFINE kept == {c \in CutAt(n) : c \in Leaves}
           inner == {c \in CutAt(n) : c \notin Leaves}
           kids == [p \in inner |-> ActiveChildren(p)]
           next == UNION {kids[p] : p \in inner}
<1>1. \A c \in CutAt(n) : c \in Shared /\ c \in Cgroups
  BY DEF CutAt, Shared
<1>2. IsFiniteSet(kept) /\ IsFiniteSet(inner) /\ kept \cap inner = {} /\ CutAt(n) = kept \cup inner
  BY <1>1, FiniteAssumption, FS_Subset
<1>3. ASSUME NEW p \in inner
      PROVE  p \in Shared /\ Level[p] = n /\ ActiveChildren(p) # {}
  BY AtRestUpwards DEF CutAt
<1>4. \A c \in Shared : EntitledTo[c] \in Nat
  BY EntitledIsNat DEF EntitledTo, Shared
<1>5. /\ \A p \in inner : /\ IsFiniteSet(kids[p]) /\ kids[p] \subseteq Shared
                          /\ \A x \in kids[p] : EntitledTo[x] \in Int
                          /\ EntitledTo[p] \in Int
                          /\ SumOver(EntitledTo, kids[p]) >= EntitledTo[p]
      /\ \A p, q \in inner : p # q => kids[p] \cap kids[q] = {}
  <2>1. ASSUME NEW p \in inner
        PROVE  /\ IsFiniteSet(ActiveChildren(p)) /\ ActiveChildren(p) \subseteq Shared
               /\ EntitledTo[p] \in Nat
               /\ SumOver(EntitledTo, ActiveChildren(p)) >= EntitledTo[p]
    BY <1>3, <1>4, ChildrenCover
  <2>2. \A p \in inner : kids[p] = ActiveChildren(p)
    OBVIOUS
  <2>3. \A p, q \in inner : p # q => ActiveChildren(p) \cap ActiveChildren(q) = {}
    BY DEF ActiveChildren, Children
  <2> HIDE DEF kids, inner
  <2>4. \A p \in inner : \A x \in kids[p] : EntitledTo[x] \in Int
    BY <1>4, <2>1, <2>2
  <2> QED
    BY <2>1, <2>2, <2>3, <2>4
<1>6. SumOver(EntitledTo, next) >= SumOver(EntitledTo, inner)
  <2> HIDE DEF kids, inner
  <2> QED
    BY <1>2, <1>5, SumGrouped
<1>7. \A c \in kept : Level[c] <= n /\ c \in Cgroups
  BY Levels DEF CutAt, Shared
<1>8. \A d \in next : d \in Shared /\ d \in Cgroups /\ Level[d] = n + 1
  <2> SUFFICES ASSUME NEW p \in inner, NEW d \in kids[p]
               PROVE  d \in Shared /\ d \in Cgroups /\ Level[d] = n + 1
    OBVIOUS
  <2>1. d \in Shared /\ d # Root /\ Parent[d] = p
    BY <1>5 DEF ActiveChildren, Children
  <2> QED
    BY <1>3, <2>1, Levels DEF Shared
<1>9. CutAt(n + 1) = kept \cup next
  <2>1. ASSUME NEW c \in CutAt(n + 1)
        PROVE  c \in kept \cup next
    <3>1. CASE Level[c] = n + 1
      <4>1. c \in NonRoot /\ Active(c) /\ Parent[c] \in Shared /\ Level[Parent[c]] = n
        BY <3>1, Levels, AtRestUpwards DEF CutAt, Shared, NonRoot
      <4>2. c \in ActiveChildren(Parent[c]) /\ Parent[c] \notin Leaves
        BY <4>1 DEF ActiveChildren, Children, Leaves, NonRoot
      <4>3. Parent[c] \in inner
        BY <4>1, <4>2 DEF CutAt
      <4> QED
        BY <4>2, <4>3
    <3>2. CASE Level[c] # n + 1
      <4>1. c \in Shared /\ c \in Leaves /\ Level[c] < n + 1 /\ Level[c] \in Nat
        BY <3>2, Levels DEF CutAt, Shared
      <4>2. Level[c] = n \/ Level[c] < n
        BY <4>1
      <4> QED
        BY <4>1, <4>2 DEF CutAt
    <3> QED
      BY <3>1, <3>2
  <2>2. ASSUME NEW c \in kept
        PROVE  c \in CutAt(n + 1)
    <3>1. c \in Shared /\ c \in Leaves /\ Level[c] \in Nat /\ Level[c] <= n
      BY <1>7, Levels DEF CutAt
    <3> QED
      BY <3>1 DEF CutAt
  <2>3. ASSUME NEW c \in next
        PROVE  c \in CutAt(n + 1)
    BY <1>8 DEF CutAt
  <2> HIDE DEF kept, next
  <2> QED
    BY <2>1, <2>2, <2>3
<1>10. IsFiniteSet(next) /\ kept \cap next = {}
  <2>1. next \subseteq Cgroups
    BY <1>8
  <2>2. IsFiniteSet(next)
    <3> HIDE DEF next
    <3> QED
      BY <2>1, FiniteAssumption, FS_Subset
  <2>3. \A c \in kept : Level[c] \in Nat /\ Level[c] <= n
    BY <1>7, Levels
  <2>4. \A c \in kept : c \notin next
    <3> HIDE DEF kept, next
    <3> QED
      BY <1>8, <2>3
  <2> QED
    BY <2>2, <2>4
<1>11. /\ \A x \in kept \cup inner : EntitledTo[x] \in Int
       /\ \A x \in kept \cup next : EntitledTo[x] \in Int
  <2>1. \A x \in kept \cup inner : x \in Shared
    BY <1>1
  <2>2. \A x \in kept \cup next : x \in Shared
    BY <1>1, <1>8
  <2> HIDE DEF kept, inner, next
  <2> QED
    BY <1>4, <2>1, <2>2
<1> HIDE DEF kept, inner, next
<1>12. SumOver(EntitledTo, kept \cup inner) = SumOver(EntitledTo, kept) + SumOver(EntitledTo, inner)
  BY <1>2, <1>11, SumDisjoint
<1>13. SumOver(EntitledTo, kept \cup next) = SumOver(EntitledTo, kept) + SumOver(EntitledTo, next)
  BY <1>2, <1>10, <1>11, SumDisjoint
<1>14. /\ SumOver(EntitledTo, kept) \in Int /\ SumOver(EntitledTo, inner) \in Int
       /\ SumOver(EntitledTo, next) \in Int
  BY <1>2, <1>10, <1>11, SumType
<1>15. SumOver(EntitledTo, CutAt(n)) = SumOver(EntitledTo, kept) + SumOver(EntitledTo, inner)
  BY <1>2, <1>12
<1>16. SumOver(EntitledTo, CutAt(n + 1)) = SumOver(EntitledTo, kept) + SumOver(EntitledTo, next)
  BY <1>9, <1>13
<1> QED
  BY <1>6, <1>14, <1>15, <1>16, WeightsAssumption

LEMMA LeavesCover ==
  ASSUME TypeOK, SumOfActive, ActiveAtRest, FreshUnlessReweighted
  PROVE  SharesCoverCpus
<1> DEFINE active == {c \in Leaves : Active(c)}
<1> SUFFICES ASSUME AtRest, ~reweighted, active # {}, \A c \in active : Fresh(c)
             PROVE  SumOver(hweight, active) >= HweightOne
  BY DEF SharesCoverCpus, SumOver
<1>1. ActiveChildren(Root) # {}
  BY RootShares DEF Leaves, NonRoot
<1> DEFINE A == {n \in Nat : SumOver(EntitledTo, CutAt(n)) >= HweightOne}
<1>2. 0 \in A
  <2>1. CutAt(0) = {Root} /\ Root \in Cgroups /\ Root \notin {}
    BY Levels, TreeAssumption DEF CutAt, Shared
  <2>2. EntitledTo[Root] = HweightOne /\ HweightOne \in Nat
    BY <2>1, EntitledIs, WeightsAssumption DEF EntitledTo
  <2>3. SumOver(EntitledTo, {} \cup {Root}) = EntitledTo[Root] + SumOver(EntitledTo, {})
    BY <2>2, FS_EmptySet, SumAdd
  <2>4. {} \cup {Root} = {Root}
    OBVIOUS
  <2>5. SumOver(EntitledTo, CutAt(0)) = HweightOne + 0
    BY <2>1, <2>2, <2>3, <2>4, SumEmpty
  <2> QED
    BY <2>2, <2>5
<1>3. \A n \in Nat : n \in A => n + 1 \in A
  BY <1>1, CutDeeper
<1>4. \A n \in Nat : n \in A
  <2> HIDE DEF A
  <2> QED
    BY <1>2, <1>3, NumberInduction
<1>5. PICK n \in Nat : \A d \in Cgroups : Level[d] <= n
  <2>1. \A d \in Cgroups : Level[d] \in Nat
    BY Levels
  <2> QED
    BY <2>1, FiniteAssumption, SumNat, SumAtLeast
<1>6. CutAt(n + 1) = active
  <2>1. \A d \in Cgroups : Level[d] # n + 1 /\ Level[d] < n + 1
    BY <1>5, Levels
  <2> QED
    BY <2>1 DEF CutAt, Shared, Leaves
<1>7. SumOver(EntitledTo, active) >= HweightOne
  BY <1>4, <1>5, <1>6
<1>8. \A c \in active : hweight[c] = EntitledTo[c]
  BY DEF FreshUnlessReweighted, HweightIsFresh, Leaves, EntitledTo
<1>9. IsFiniteSet(active)
  BY FiniteAssumption, FS_Subset DEF Leaves
<1> HIDE DEF active
<1> QED
  BY <1>7, <1>8, <1>9, SumSame

(* Rounding never loses any of the CPUs: the current shares of the active  *)
(* leaves are together at least the whole, in any hierarchy.               *)
THEOREM SharesCover == Spec => []SharesCoverCpus
BY TypeCorrect, SumsAreOfActive, ActiveWhenAtRest, FreshShares, LeavesCover, PTL
=============================================================================
