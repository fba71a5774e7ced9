------------------------ MODULE RlockSchedulerProofs ------------------------
(***************************************************************************)
(* What holds of RlockScheduler for any number of cores, groups and        *)
(* processes, any weights and tick, any width of int and any run time:     *)
(* the locks and the heap; then where the processes are, each in exactly   *)
(* one place whatever the cores interleave, so that the counts of the      *)
(* groups are right and the scheduler implements ProcLifecycle.            *)
(***************************************************************************)
EXTENDS RlockScheduler, FiniteSetTheorems, SequenceTheorems, TLAPS

(* Where the list lock is write-held and read-held, and a group's lock.    *)
ListWriteLabels == {"fix_down", "fix_up", "pick", "pick_down", "pick_up", "take"}
ListReadLabels == {"enq_sum", "deq_sum"}
GroupWriteLabels == {"index", "pick_down", "pick_up", "take", "dequeue"}

(* Where a core is at a group, and where it has a process at hand.         *)
CollapseLabels == {"weight", "collapse", "index", "fix", "fix_down", "fix_up"}
PickLabels == {"pick", "pick_down", "pick_up", "take", "dequeue", "deq_avg",
               "deq_sum", "set_lag"}
EnqueueLabels == {"enqueue", "enq_avg", "enq_sum", "set_svt"}

LocalOK ==
  \A c \in Cores :
    /\ pc[c] \in {"dec"} \cup CollapseLabels \cup EnqueueLabels \cup PickLabels
         => grp[c] \in Groups
    /\ pc[c] \in {"dec", "enqueue"} \cup CollapseLabels => proc[c] \in Procs
    /\ op[c] = "yield" => proc[c] \in Procs /\ pc[c] # "enqueue"

LocksOK ==
  /\ \A c \in Cores :
       /\ listWriter = c <=> pc[c] \in ListWriteLabels
       /\ c \in listReaders <=> pc[c] \in ListReadLabels
  /\ listWriter # None => listReaders = {}
  /\ \A c \in Cores, g \in Groups :
       groupWriter[g] = c <=> pc[c] \in GroupWriteLabels /\ grp[c] = g

IInv == TypeOK /\ LocalOK /\ LocksOK /\ HeapIndexed /\ QueueCount /\ PickNeverEmpty

-----------------------------------------------------------------------------
(* Arithmetic of ints.                                                     *)

LEMMA WrapInt == \A x \in Int : Wrap(x) \in Int32
  BY SizeAssumption, SMT DEF Wrap, Int32

LEMMA WrapType ==
  /\ \A x \in Int32, d \in Int : Wrap(x + d) \in Int32
  /\ \A x, y \in Int32 : Wrap(x - y) \in Int32 /\ Wrap(x + y) \in Int32
<1>1. \A x \in Int32 : x \in Int
  BY SizeAssumption, SMT DEF Int32
<1> QED
  BY <1>1, WrapInt

LEMMA DivCType == \A a \in Int32, b \in Nat \ {0} : DivC(a, b) \in Int32
  BY SizeAssumption, SMT DEF DivC, Int32

LEMMA ChargeType == \A g \in Groups, t \in Nat : Charge(g, t) \in Nat
  BY WeightAssumption, SMT DEF Charge

LEMMA ZeroTypes == 0 \in Groups /\ 0 \in Int32 /\ IntMax \in Int32
  BY SizeAssumption, SMT DEF Groups, Int32

(* What a sift's step returns stays within the heap.                       *)
LEMMA SmallestType ==
  ASSUME NEW i \in Groups
  PROVE  Smallest(heap, NumGroups, threads_queued, spec_virt_time, i) \in Groups
  BY SizeAssumption, SMT DEF Smallest, Groups, Left, Right

LEMMA ParentType == \A i \in Groups : i > 0 => Parent(i) \in Groups
  BY SizeAssumption, SMT DEF Parent, Groups

(* main leaves a state in which everything holds.                          *)
LEMMA InitInv == Init => IInv
<1> SUFFICES ASSUME Init PROVE IInv
  OBVIOUS
<1> USE DEF Init
<1>1. TypeOK
  <2>1. LocksType /\ HeapType /\ TimesType /\ SiftType
    BY ZeroTypes, SMT DEF LocksType, HeapType, TimesType, SiftType
  <2>2. CountsType
    BY InitQueueAssumption, LenProperties DEF CountsType
  <2>3. QueuesType
    BY InitQueueAssumption, EmptySeq DEF QueuesType
  <2>4. ControlType /\ HandType
    BY RoundsAssumption DEF ControlType, HandType, Labels
  <2>5. AverageType
    BY ZeroTypes, SizeAssumption, SMT DEF AverageType, NoSum
  <2> QED
    BY <2>1, <2>2, <2>3, <2>4, <2>5 DEF TypeOK
<1>2. LocalOK
  BY DEF LocalOK, CollapseLabels, EnqueueLabels, PickLabels
<1>3. LocksOK
  BY NoneAssumption DEF LocksOK, ListWriteLabels, ListReadLabels, GroupWriteLabels
<1>4. HeapIndexed
  BY DEF HeapIndexed
<1>5. QueueCount
  BY InitQueueAssumption, LenProperties, SMT DEF QueueCount, Taking
<1>6. PickNeverEmpty
  BY DEF PickNeverEmpty
<1> QED
  BY <1>1, <1>2, <1>3, <1>4, <1>5, <1>6 DEF IInv

-----------------------------------------------------------------------------
(* Type correctness, part by part: the actions that change a part, and the *)
(* others, which leave its variables alone.                                *)

LEMMA LocksTypeStep ==
  ASSUME LocksType, NEW c \in Cores, Core(c)
  PROVE  LocksType'
<1>1. \/ listWriter' = listWriter
      \/ listWriter' \in {c, None}
  BY DEF Core, StartTick, Exit, RunOn, TakeFromPool, StartYield, Return,
     DecNThread, GetWeight, CollapseSvt, ReadIndex, LockFix, SiftDownStep, SiftUpStep,
     MoveTo, EnqueueProc, EnqueueWith, SetSvt, LockAvg, SumGroup, UnlockAvg, PeekMin, PeekWith, RootEmpty, LockPick,
     TakeThread, Dequeue, DequeueWith, SetLag, locks
<1>2. \/ listReaders' = listReaders
      \/ listReaders' \in {listReaders \cup {c}, listReaders \ {c}}
  BY DEF Core, StartTick, Exit, RunOn, TakeFromPool, StartYield, Return,
     DecNThread, GetWeight, CollapseSvt, ReadIndex, LockFix, SiftDownStep, SiftUpStep,
     MoveTo, EnqueueProc, EnqueueWith, SetSvt, LockAvg, SumGroup, UnlockAvg, PeekMin, PeekWith, RootEmpty, LockPick,
     TakeThread, Dequeue, DequeueWith, SetLag, locks
<1>3. \/ groupWriter' = groupWriter
      \/ \E g, w : groupWriter' = [groupWriter EXCEPT ![g] = w] /\ w \in {c, None}
  BY DEF Core, StartTick, Exit, RunOn, TakeFromPool, StartYield, Return,
     DecNThread, GetWeight, CollapseSvt, ReadIndex, LockFix, SiftDownStep, SiftUpStep,
     MoveTo, EnqueueProc, EnqueueWith, SetSvt, LockAvg, SumGroup, UnlockAvg, PeekMin, PeekWith, RootEmpty, LockPick,
     TakeThread, Dequeue, DequeueWith, SetLag, locks
<1> QED
  BY <1>1, <1>2, <1>3, SMT DEF LocksType

LEMMA HeapTypeStep ==
  ASSUME HeapType, SiftType, NEW c \in Cores, Core(c)
  PROVE  HeapType'
<1>1. ASSUME NEW j \in Groups, MoveTo(c, j)
      PROVE  HeapType'
  BY <1>1 DEF HeapType, SiftType, MoveTo, SwapHeap, SwapIndex
<1>2. CASE SiftDownStep(c)
  BY <1>1, <1>2, SmallestType DEF SiftDownStep, SiftDownTo, HeapType, SiftType, heapVars
<1>3. CASE SiftUpStep(c)
  BY <1>1, <1>3, ParentType DEF SiftUpStep, Climbs, HeapType, SiftType, heapVars
<1>4. CASE UNCHANGED heapVars
  BY <1>4 DEF HeapType, heapVars
<1> QED
  BY <1>2, <1>3, <1>4 DEF Core, StartTick, Exit, RunOn, TakeFromPool, StartYield, Return,
     DecNThread, GetWeight, CollapseSvt, ReadIndex, LockFix, EnqueueProc, EnqueueWith, SetSvt,
     LockAvg, SumGroup, UnlockAvg, PeekMin, PeekWith, RootEmpty, LockPick, TakeThread, Dequeue, DequeueWith, SetLag

(* The group an action works on is one.                                    *)
LEMMA GrpType ==
  ASSUME LocalOK, NEW c \in Cores,
         pc[c] \in {"dec"} \cup CollapseLabels \cup EnqueueLabels \cup PickLabels
  PROVE  grp[c] \in Groups
  BY DEF LocalOK

LEMMA ChargeDiffType ==
  ASSUME NEW c \in Cores, grp[c] \in Groups
  PROVE  Charge(grp[c], TickLength) \in Nat /\ Diff(c) \in Int
<1>1. TimePassed(c) \in Nat
  BY TimeAssumption DEF TimePassed
<1> QED
  BY <1>1, ChargeType, TimeAssumption, SMT DEF Diff

LEMMA CountsTypeStep ==
  ASSUME CountsType, LocalOK, PickNeverEmpty, NEW c \in Cores, Core(c)
  PROVE  CountsType'
<1>1. CASE DecNThread(c)
  BY <1>1, GrpType, SMT DEF DecNThread, CountsType
<1>2. CASE EnqueueProc(c)
  BY <1>2, GrpType, SMT DEF EnqueueProc, EnqueueWith, CountsType, EnqueueLabels
<1>3. CASE TakeThread(c)
  BY <1>3, GrpType, SMT DEF TakeThread, CountsType, PickNeverEmpty, PickLabels
<1>4. CASE UNCHANGED <<num_threads, threads_queued>>
  BY <1>4 DEF CountsType
<1> QED
  BY <1>1, <1>2, <1>3, <1>4
  DEF Core, StartTick, Exit, RunOn, TakeFromPool, StartYield, Return, GetWeight,
     CollapseSvt, ReadIndex, LockFix, SiftDownStep, SiftUpStep, SetSvt, LockAvg,
     SumGroup, UnlockAvg, PeekMin, PeekWith, RootEmpty, LockPick, Dequeue, DequeueWith, SetLag, groupVars

LEMMA TimesTypeStep ==
  ASSUME TimesType, LocalOK, AverageType, NEW c \in Cores, Core(c)
  PROVE  TimesType'
<1>1. CASE CollapseSvt(c)
  <2>1. grp[c] \in Groups
    BY <1>1, GrpType DEF CollapseSvt, CollapseLabels
  <2>2. Wrap(spec_virt_time[grp[c]] + Diff(c)) \in Int32
    BY <2>1, ChargeDiffType, WrapType DEF TimesType
  <2> QED
    BY <1>1, <2>1, <2>2 DEF CollapseSvt, TimesType
<1>2. CASE SetSvt(c)
  <2>1. grp[c] \in Groups
    BY <1>2, GrpType DEF SetSvt, EnqueueLabels
  <2>2. Wrap(avg[c] - virt_lag[grp[c]]) \in Int32
    BY <2>1, WrapType DEF TimesType, AverageType
  <2> QED
    BY <1>2, <2>1, <2>2 DEF SetSvt, TimesType, AverageType
<1>3. CASE LockPick(c)
  <2>1. grp[c] \in Groups
    BY <1>3, GrpType DEF LockPick, PickLabels
  <2>2. Wrap(spec_virt_time[grp[c]] + Charge(grp[c], TickLength)) \in Int32
    BY <2>1, ChargeDiffType, WrapType DEF TimesType
  <2> QED
    BY <1>3, <2>1, <2>2 DEF LockPick, TimesType
<1>4. CASE SetLag(c)
  <2>1. grp[c] \in Groups
    BY <1>4, GrpType DEF SetLag, PickLabels
  <2>2. Wrap(avg[c] - spec_virt_time[grp[c]]) \in Int32
    BY <2>1, WrapType DEF TimesType, AverageType
  <2> QED
    BY <1>4, <2>1, <2>2 DEF SetLag, TimesType, AverageType
<1>5. CASE UNCHANGED <<spec_virt_time, virt_lag, last_virt_time>>
  BY <1>5 DEF TimesType
<1> QED
  BY <1>1, <1>2, <1>3, <1>4, <1>5
  DEF Core, StartTick, Exit, RunOn, TakeFromPool, StartYield, Return,
     DecNThread, GetWeight, ReadIndex, LockFix, SiftDownStep, SiftUpStep,
     EnqueueProc, EnqueueWith, LockAvg, SumGroup, UnlockAvg, PeekMin, PeekWith, RootEmpty, TakeThread, Dequeue, DequeueWith,
     groupVars

LEMMA QueuesTypeStep ==
  ASSUME QueuesType, HandType, LocalOK, PickNeverEmpty, NEW c \in Cores, Core(c)
  PROVE  QueuesType'
<1>1. CASE TakeFromPool(c)
  BY <1>1, HeadTailProperties DEF TakeFromPool, groupVars, QueuesType
<1>2. CASE Return(c)
  BY <1>2, ConcatProperties, SMT DEF Return, groupVars, LocalOK, QueuesType
<1>3. CASE EnqueueProc(c)
  <2>1. grp[c] \in Groups /\ proc[c] \in Procs
    BY <1>3 DEF EnqueueProc, EnqueueWith, LocalOK, EnqueueLabels
  <2>2. <<proc[c]>> \o runqueue[grp[c]] \in Seq(Procs)
    BY <2>1, ConcatProperties DEF QueuesType
  <2> QED
    BY <1>3, <2>2 DEF EnqueueProc, EnqueueWith, coreVars, QueuesType
<1>4. CASE Dequeue(c)
  <2>1. grp[c] \in Groups /\ runqueue[grp[c]] # <<>>
    BY <1>4, GrpType DEF Dequeue, DequeueWith, PickLabels, PickNeverEmpty
  <2>2. Tail(runqueue[grp[c]]) \in Seq(Procs)
    BY <2>1, HeadTailProperties DEF QueuesType
  <2> QED
    BY <1>4, <2>1, <2>2 DEF Dequeue, DequeueWith, QueuesType
<1>5. CASE UNCHANGED <<runqueue, pool>>
  BY <1>5 DEF QueuesType
<1> QED
  BY <1>1, <1>2, <1>3, <1>4, <1>5
  DEF Core, StartTick, Exit, RunOn, StartYield, DecNThread, GetWeight,
     CollapseSvt, ReadIndex, LockFix, SiftDownStep, SiftUpStep, SetSvt, LockAvg,
     SumGroup, UnlockAvg, PeekMin, PeekWith, RootEmpty, LockPick, TakeThread, SetLag, groupVars,
     coreVars

LEMMA ControlTypeStep ==
  ASSUME ControlType, NEW c \in Cores, Core(c)
  PROVE  ControlType'
<1>1. ASSUME NEW label \in Labels, Goto(c, label)
      PROVE  pc' \in [Cores -> Labels]
  BY <1>1 DEF Goto, ControlType
<1>2. pc' \in [Cores -> Labels]
  BY <1>1
  DEF Core, StartTick, Exit, RunOn, TakeFromPool, StartYield, Return,
     DecNThread, GetWeight, CollapseSvt, ReadIndex, LockFix, SiftDownStep,
     SiftUpStep, EnqueueProc, EnqueueWith, SetSvt, LockAvg, SumGroup, UnlockAvg, PeekMin, PeekWith, RootEmpty,
     LockPick, TakeThread, Dequeue, DequeueWith, SetLag, ControlType, Labels, AfterCollapse,
     AfterEnqueue, MoveTo
<1>3. rounds' \in [Cores -> 0 .. MaxRounds]
  <2>1. CASE StartTick(c)
    BY <2>1, RoundsAssumption, SMT DEF StartTick, ControlType
  <2>2. CASE UNCHANGED rounds
    BY <2>2 DEF ControlType
  <2> QED
    BY <2>1, <2>2
    DEF Core, Exit, RunOn, TakeFromPool, StartYield, Return, DecNThread,
      GetWeight, CollapseSvt, ReadIndex, LockFix, SiftDownStep, SiftUpStep,
      EnqueueProc, EnqueueWith, SetSvt, LockAvg, SumGroup, UnlockAvg, PeekMin, PeekWith, RootEmpty, LockPick,
      TakeThread, Dequeue, DequeueWith, SetLag, MoveTo, localVars
<1>4. op' \in [Cores -> {"none", "sched", "yield", "enq"}]
  <2>1. CASE StartTick(c) \/ TakeFromPool(c) \/ StartYield(c) \/ Return(c)
    BY <2>1, SMT DEF StartTick, TakeFromPool, StartYield, Return, ControlType
  <2>2. CASE UNCHANGED op
    BY <2>2 DEF ControlType
  <2> QED
    BY <2>1, <2>2
    DEF Core, Exit, RunOn, DecNThread, GetWeight, CollapseSvt, ReadIndex, LockFix,
      SiftDownStep, SiftUpStep, EnqueueProc, EnqueueWith, SetSvt, LockAvg, SumGroup,
      UnlockAvg, PeekMin, PeekWith, RootEmpty, LockPick, TakeThread, Dequeue,
      DequeueWith, SetLag, MoveTo, localVars
<1> QED
  BY <1>2, <1>3, <1>4 DEF ControlType

LEMMA HandTypeStep ==
  ASSUME HandType, QueuesType, HeapType, LocalOK, PickNeverEmpty, NEW c \in Cores, Core(c)
  PROVE  HandType'
<1>1. CASE StartTick(c)
  BY <1>1, GroupOfAssumption DEF StartTick, coreVars, HandType
<1>2. CASE TakeFromPool(c)
  BY <1>2, GroupOfAssumption, HeadTailProperties DEF TakeFromPool, HandType,
     QueuesType
<1>3. CASE StartYield(c)
  BY <1>3, GroupOfAssumption DEF StartYield, coreVars, HandType
<1>4. CASE Return(c)
  BY <1>4 DEF Return, HandType
<1>5. CASE EnqueueProc(c)
  BY <1>5 DEF EnqueueProc, EnqueueWith, coreVars, HandType
<1>6. CASE PeekMin(c)
  BY <1>6, ZeroTypes DEF PeekMin, PeekWith, RootEmpty, HandType, HeapType
<1>7. CASE Dequeue(c)
  <2>1. grp[c] \in Groups /\ runqueue[grp[c]] # <<>>
    BY <1>7, GrpType DEF Dequeue, DequeueWith, PickLabels, PickNeverEmpty
  <2>2. Head(runqueue[grp[c]]) \in Procs
    BY <2>1, HeadTailProperties DEF QueuesType
  <2> QED
    BY <1>7, <2>2 DEF Dequeue, DequeueWith, localVars, HandType
<1>8. CASE UNCHANGED <<current_process, proc, grp>>
  BY <1>8 DEF HandType
<1> QED
  BY <1>1, <1>2, <1>3, <1>4, <1>5, <1>6, <1>7, <1>8
  DEF Core, Exit, RunOn, DecNThread, GetWeight, CollapseSvt, ReadIndex, LockFix,
     SiftDownStep, SiftUpStep, SetSvt, LockAvg, SumGroup, UnlockAvg, LockPick,
     TakeThread, SetLag, MoveTo, coreVars, localVars

LEMMA SiftTypeStep ==
  ASSUME SiftType, HeapType, LocalOK, NEW c \in Cores, Core(c)
  PROVE  SiftType'
<1>1. CASE ReadIndex(c)
  BY <1>1 DEF ReadIndex, LocalOK, CollapseLabels, SiftType, HeapType
<1>2. CASE LockFix(c)
  BY <1>2 DEF LockFix, SiftType
<1>3. CASE SiftDownStep(c)
  BY <1>3, SmallestType DEF SiftDownStep, SiftDownTo, MoveTo, SiftType
<1>4. CASE SiftUpStep(c)
  BY <1>4, ParentType, ZeroTypes DEF SiftUpStep, Climbs, MoveTo, SiftType
<1>5. CASE LockPick(c)
  BY <1>5 DEF LockPick, LocalOK, PickLabels, SiftType, HeapType
<1>6. CASE UNCHANGED <<idx, cursor>>
  BY <1>6 DEF SiftType
<1> QED
  BY <1>1, <1>2, <1>3, <1>4, <1>5, <1>6
  DEF Core, StartTick, Exit, RunOn, TakeFromPool, StartYield, Return,
     DecNThread, GetWeight, CollapseSvt, EnqueueProc, EnqueueWith, SetSvt, LockAvg, SumGroup,
     UnlockAvg, PeekMin, PeekWith, RootEmpty, TakeThread, Dequeue, DequeueWith, SetLag, localVars

LEMMA AverageTypeStep ==
  ASSUME AverageType, TimesType, HeapType, NEW c \in Cores, Core(c)
  PROVE  AverageType'
<1>1. CASE SetSvt(c)
  BY <1>1, ZeroTypes DEF SetSvt, AverageType
<1>2. CASE SumGroup(c)
  <2> DEFINE s == sum[c]
             g == heap[s.i]
  <2>1. /\ s.i \in 0 .. NumGroups
        /\ s.count \in Nat
        /\ s.total \in Int32
    BY DEF AverageType
  <2>2. s.i \in Groups
    BY <1>2, <2>1, SizeAssumption, SMT DEF SumGroup, Groups
  <2>3. GetSvt(g) \in Int32
    BY <2>2, ZeroTypes DEF GetSvt, HeapType, TimesType
  <2>4. Wrap(s.total + GetSvt(g)) \in Int32
    BY <2>1, <2>3, WrapType
  <2> QED
    BY <1>2, <2>1, <2>2, <2>4, SizeAssumption, SMT DEF SumGroup, Groups, AverageType
<1>3. CASE UnlockAvg(c)
  <2>1. sum[c].count \in Nat /\ sum[c].total \in Int32
    BY DEF AverageType
  <2>2. sum[c].count # 0 => DivC(sum[c].total, sum[c].count) \in Int32
    BY <2>1, DivCType, SizeAssumption
  <2> QED
    BY <1>3, <2>2, ZeroTypes, SizeAssumption DEF UnlockAvg, NoSum, AverageType
<1>4. CASE SetLag(c)
  BY <1>4, ZeroTypes DEF SetLag, AverageType
<1>5. CASE UNCHANGED <<sum, avg>>
  BY <1>5 DEF AverageType
<1> QED
  BY <1>1, <1>2, <1>3, <1>4, <1>5
  DEF Core, StartTick, Exit, RunOn, TakeFromPool, StartYield, Return,
     DecNThread, GetWeight, CollapseSvt, ReadIndex, LockFix, SiftDownStep,
     SiftUpStep, EnqueueProc, EnqueueWith, LockAvg, PeekMin, PeekWith, RootEmpty, LockPick, TakeThread, Dequeue, DequeueWith,
     MoveTo, localVars

-----------------------------------------------------------------------------
(* What a core has at hand at each label.                                  *)

LEMMA LocalStep ==
  ASSUME TypeOK, LocalOK, NEW c \in Cores, Core(c)
  PROVE  LocalOK'
<1> USE DEF TypeOK, ControlType, HandType, HeapType, QueuesType, LocalOK, CollapseLabels, EnqueueLabels, PickLabels
<1>1. CASE StartTick(c)
  BY <1>1, GroupOfAssumption DEF StartTick, Goto, localVars
<1>2. CASE Exit(c)
  BY <1>2 DEF Exit, Goto, localVars
<1>3. CASE RunOn(c)
  BY <1>3 DEF RunOn, Goto, localVars
<1>4. CASE TakeFromPool(c)
  BY <1>4, GroupOfAssumption, HeadTailProperties DEF TakeFromPool, Goto,
     localVars
<1>5. CASE StartYield(c)
  BY <1>5, GroupOfAssumption DEF StartYield, Goto, localVars
<1>6. CASE Return(c)
  BY <1>6 DEF Return, Goto, localVars
<1>7. CASE DecNThread(c)
  BY <1>7 DEF DecNThread, Goto, localVars
<1>8. CASE GetWeight(c)
  BY <1>8 DEF GetWeight, Goto, AfterCollapse, localVars
<1>9. CASE CollapseSvt(c)
  BY <1>9 DEF CollapseSvt, Goto, GroupFree, localVars
<1>10. CASE ReadIndex(c)
  BY <1>10 DEF ReadIndex, Goto, AfterCollapse, localVars
<1>11. CASE LockFix(c)
  BY <1>11 DEF LockFix, Goto, ListFree, localVars
<1>12. CASE SiftDownStep(c)
  BY <1>12 DEF SiftDownStep, Goto, MoveTo, localVars
<1>13. CASE SiftUpStep(c)
  BY <1>13 DEF SiftUpStep, Goto, MoveTo, AfterCollapse, localVars
<1>14. CASE EnqueueProc(c)
  BY <1>14 DEF EnqueueProc, EnqueueWith, Goto, AfterEnqueue, GroupFree, localVars
<1>15. CASE SetSvt(c)
  BY <1>15 DEF SetSvt, Goto, AfterEnqueue, localVars
<1>16. CASE LockAvg(c)
  BY <1>16 DEF LockAvg, Goto, localVars
<1>17. CASE SumGroup(c)
  BY <1>17 DEF SumGroup, Goto, localVars
<1>18. CASE UnlockAvg(c)
  BY <1>18 DEF UnlockAvg, Goto, localVars
<1>19. CASE PeekMin(c)
  BY <1>19, ZeroTypes DEF PeekMin, PeekWith, RootEmpty, Goto, ListFree, localVars
<1>20. CASE LockPick(c)
  BY <1>20 DEF LockPick, Goto, GroupFree, localVars
<1>21. CASE TakeThread(c)
  BY <1>21 DEF TakeThread, Goto, localVars
<1>22. CASE Dequeue(c)
  BY <1>22 DEF Dequeue, DequeueWith, Goto, localVars
<1>23. CASE SetLag(c)
  BY <1>23 DEF SetLag, Goto, localVars
<1> QED
  BY <1>1, <1>2, <1>3, <1>4, <1>5, <1>6, <1>7, <1>8, <1>9, <1>10, <1>11, <1>12,
     <1>13, <1>14, <1>15, <1>16, <1>17, <1>18, <1>19, <1>20, <1>21, <1>22, <1>23
     DEF Core

-----------------------------------------------------------------------------
(* Who holds which lock: a core takes and releases it as it passes the     *)
(* labels at which it holds it.                                            *)

LEMMA LocksStep ==
  ASSUME TypeOK, LocalOK, LocksOK, NEW c \in Cores, Core(c)
  PROVE  LocksOK'
<1> USE NoneAssumption DEF TypeOK, LocksType, ControlType, HandType, LocksOK,
    ListWriteLabels, ListReadLabels, GroupWriteLabels
<1>1. CASE StartTick(c)
  BY <1>1, GroupOfAssumption DEF StartTick, Goto, locks, localVars
<1>2. CASE Exit(c)
  BY <1>2 DEF Exit, Goto, locks, localVars
<1>3. CASE RunOn(c)
  BY <1>3 DEF RunOn, Goto, locks, localVars
<1>4. CASE TakeFromPool(c)
  BY <1>4, GroupOfAssumption, HeadTailProperties DEF TakeFromPool, Goto, locks,
     localVars
<1>5. CASE StartYield(c)
  BY <1>5, GroupOfAssumption DEF StartYield, Goto, locks, localVars
<1>6. CASE Return(c)
  BY <1>6 DEF Return, Goto, locks, localVars
<1>7. CASE DecNThread(c)
  BY <1>7 DEF DecNThread, Goto, locks, localVars
<1>8. CASE GetWeight(c)
  BY <1>8 DEF GetWeight, Goto, AfterCollapse, locks, localVars
<1>9. CASE CollapseSvt(c)
  BY <1>9 DEF CollapseSvt, Goto, GroupFree, locks, localVars
<1>10. CASE ReadIndex(c)
  BY <1>10 DEF ReadIndex, Goto, AfterCollapse, locks, localVars
<1>11. CASE LockFix(c)
  BY <1>11 DEF LockFix, Goto, ListFree, locks, localVars
<1>12. CASE SiftDownStep(c)
  BY <1>12 DEF SiftDownStep, Goto, MoveTo, locks, localVars
<1>13. CASE SiftUpStep(c)
  BY <1>13 DEF SiftUpStep, Goto, MoveTo, AfterCollapse, locks, localVars
<1>14. CASE EnqueueProc(c)
  BY <1>14 DEF EnqueueProc, EnqueueWith, Goto, AfterEnqueue, GroupFree, locks, localVars
<1>15. CASE SetSvt(c)
  BY <1>15 DEF SetSvt, Goto, AfterEnqueue, locks, localVars
<1>16. CASE LockAvg(c)
  BY <1>16 DEF LockAvg, Goto, locks, localVars
<1>17. CASE SumGroup(c)
  BY <1>17 DEF SumGroup, Goto, locks, localVars
<1>18. CASE UnlockAvg(c)
  BY <1>18 DEF UnlockAvg, Goto, locks, localVars
<1>19. CASE PeekMin(c)
  BY <1>19, ZeroTypes DEF PeekMin, PeekWith, RootEmpty, Goto, ListFree, locks, localVars
<1>20. CASE LockPick(c)
  BY <1>20 DEF LockPick, Goto, GroupFree, locks, localVars
<1>21. CASE TakeThread(c)
  BY <1>21 DEF TakeThread, Goto, locks, localVars
<1>22. CASE Dequeue(c)
  BY <1>22 DEF Dequeue, DequeueWith, Goto, locks, localVars
<1>23. CASE SetLag(c)
  BY <1>23 DEF SetLag, Goto, locks, localVars
<1> QED
  BY <1>1, <1>2, <1>3, <1>4, <1>5, <1>6, <1>7, <1>8, <1>9, <1>10, <1>11, <1>12,
     <1>13, <1>14, <1>15, <1>16, <1>17, <1>18, <1>19, <1>20, <1>21, <1>22, <1>23
     DEF Core

-----------------------------------------------------------------------------
(* The heap and its indices: only the two sifts change them, by a swap.    *)

LEMMA SwapIndexed ==
  ASSUME HeapType, HeapIndexed, NEW i \in Groups, NEW j \in Groups
  PROVE  \A g \in Groups :
           SwapHeap(heap, i, j)[SwapIndex(heap, heap_index, i, j)[g]] = g
<1> TAKE g \in Groups
<1>1. CASE g = heap[i]
  BY <1>1 DEF HeapType, SwapHeap, SwapIndex
<1>2. CASE g # heap[i] /\ g = heap[j]
  BY <1>2 DEF HeapType, SwapHeap, SwapIndex
<1>3. CASE g # heap[i] /\ g # heap[j]
  <2>1. heap_index[g] # i /\ heap_index[g] # j
    BY <1>3 DEF HeapIndexed
  <2> QED
    BY <1>3, <2>1 DEF HeapType, HeapIndexed, SwapHeap, SwapIndex
<1> QED
  BY <1>1, <1>2, <1>3

LEMMA HeapIndexedStep ==
  ASSUME TypeOK, HeapIndexed, NEW c \in Cores, Core(c)
  PROVE  HeapIndexed'
<1>1. cursor[c] \in Groups
  BY DEF TypeOK, SiftType
<1>2. ASSUME NEW j \in Groups, MoveTo(c, j)
      PROVE  HeapIndexed'
  BY <1>1, <1>2, SwapIndexed DEF TypeOK, MoveTo, HeapIndexed
<1>3. CASE SiftDownStep(c)
  BY <1>1, <1>2, <1>3, SmallestType DEF SiftDownStep, SiftDownTo, HeapIndexed, heapVars
<1>4. CASE SiftUpStep(c)
  BY <1>1, <1>2, <1>4, ParentType DEF SiftUpStep, Climbs, HeapIndexed, heapVars
<1>5. CASE UNCHANGED heapVars
  BY <1>5 DEF HeapIndexed, heapVars
<1> QED
  BY <1>3, <1>4, <1>5
  DEF Core, StartTick, Exit, RunOn, TakeFromPool, StartYield, Return,
     DecNThread, GetWeight, CollapseSvt, ReadIndex, LockFix, EnqueueProc, EnqueueWith,
     SetSvt, LockAvg, SumGroup, UnlockAvg, PeekMin, PeekWith, RootEmpty, LockPick, TakeThread,
     Dequeue, DequeueWith, SetLag

-----------------------------------------------------------------------------
(* A step of a core leaves the others where they are.                      *)
LEMMA OthersStay ==
  ASSUME TypeOK, NEW c \in Cores, Core(c)
  PROVE  \A d \in Cores \ {c} : pc'[d] = pc[d] /\ grp'[d] = grp[d]
<1>1. \A d \in Cores \ {c} : pc'[d] = pc[d]
  BY DEF Core, StartTick, Exit, RunOn, TakeFromPool, StartYield, Return,
     DecNThread, GetWeight, CollapseSvt, ReadIndex, LockFix, SiftDownStep,
     SiftUpStep, EnqueueProc, EnqueueWith, SetSvt, LockAvg, SumGroup, UnlockAvg, PeekMin, PeekWith, RootEmpty,
     LockPick, TakeThread, Dequeue, DequeueWith, SetLag, TypeOK, ControlType, MoveTo, Goto
<1>2. \A d \in Cores \ {c} : grp'[d] = grp[d]
  BY DEF Core, StartTick, Exit, RunOn, TakeFromPool, StartYield, Return,
     DecNThread, GetWeight, CollapseSvt, ReadIndex, LockFix, SiftDownStep,
     SiftUpStep, EnqueueProc, EnqueueWith, SetSvt, LockAvg, SumGroup, UnlockAvg, PeekMin, PeekWith, RootEmpty,
     LockPick, TakeThread, Dequeue, DequeueWith, SetLag, TypeOK, HandType, MoveTo, localVars
<1> QED
  BY <1>1, <1>2

(* The count of a group and its queue: both change by one under the lock   *)
(* of the group, but a pick does it in two steps.                          *)

LEMMA QueueCountStep ==
  ASSUME TypeOK, LocalOK, LocksOK, QueueCount, PickNeverEmpty,
         NEW c \in Cores, Core(c)
  PROVE  QueueCount'
<1> USE DEF TypeOK, CountsType, QueuesType, ControlType, HandType
<1>1. \A g \in Groups : Len(runqueue[g]) \in Nat /\ threads_queued[g] \in Nat
  BY LenProperties
<1>2. CASE EnqueueProc(c)
  <2>1. grp[c] \in Groups /\ proc[c] \in Procs
    BY <1>2 DEF EnqueueProc, EnqueueWith, LocalOK, EnqueueLabels
  <2>2. Len(<<proc[c]>> \o runqueue[grp[c]]) = Len(runqueue[grp[c]]) + 1
    BY <2>1, ConcatProperties, SMT
  <2>3. \A g \in Groups : Taking(g)' <=> Taking(g)
    BY <1>2 DEF EnqueueProc, EnqueueWith, Taking, Goto, AfterEnqueue
  <2> QED
    BY <1>1, <1>2, <2>1, <2>2, <2>3, SMT DEF EnqueueProc, EnqueueWith, QueueCount
<1>3. CASE TakeThread(c)
  <2>1. grp[c] \in Groups /\ groupWriter[grp[c]] = c
    BY <1>3 DEF TakeThread, LocalOK, PickLabels, LocksOK, GroupWriteLabels
  <2>2. ~Taking(grp[c])
    BY <1>3, <2>1 DEF Taking, TakeThread, LocksOK, GroupWriteLabels
  <2>3. \A g \in Groups : Taking(g)' <=> Taking(g) \/ g = grp[c]
    BY <1>3 DEF TakeThread, Taking, Goto, localVars
  <2> QED
    BY <1>1, <1>3, <2>1, <2>2, <2>3, SMT DEF TakeThread, QueueCount
<1>4. CASE Dequeue(c)
  <2>1. grp[c] \in Groups /\ groupWriter[grp[c]] = c /\ runqueue[grp[c]] # <<>>
    BY <1>4 DEF Dequeue, DequeueWith, LocalOK, PickLabels, LocksOK, GroupWriteLabels, PickNeverEmpty
  <2>2. Len(Tail(runqueue[grp[c]])) = Len(runqueue[grp[c]]) - 1
    BY <2>1, HeadTailProperties
  <2>3. Taking(grp[c])
    BY <1>4 DEF Dequeue, DequeueWith, Taking
  <2>4. \A g \in Groups : Taking(g)' <=> Taking(g) /\ g # grp[c]
    <3>1. \A d \in Cores : pc[d] = "dequeue" /\ grp[d] = grp[c] => d = c
      BY <2>1 DEF LocksOK, GroupWriteLabels
    <3> QED
      BY <1>4, <3>1 DEF Dequeue, DequeueWith, Taking, Goto, localVars
  <2> QED
    BY <1>1, <1>4, <2>1, <2>2, <2>3, <2>4, SMT DEF Dequeue, DequeueWith, QueueCount
<1>5. ASSUME UNCHANGED <<runqueue, threads_queued>>, \A g \in Groups : Taking(g)' <=> Taking(g)
      PROVE  QueueCount'
  BY <1>5 DEF QueueCount
<1>6. ASSUME pc[c] # "dequeue", pc'[c] # "dequeue"
      PROVE  \A g \in Groups : Taking(g)' <=> Taking(g)
  BY <1>6, OthersStay DEF Taking
<1>7. CASE ~(EnqueueProc(c) \/ TakeThread(c) \/ Dequeue(c))
  <2>1. UNCHANGED <<runqueue, threads_queued>> /\ pc[c] # "dequeue" /\ pc'[c] # "dequeue"
    BY <1>7 DEF Core, StartTick, Exit, RunOn, TakeFromPool, StartYield, Return,
     DecNThread, GetWeight, CollapseSvt, ReadIndex, LockFix, SiftDownStep,
     SiftUpStep, SetSvt, LockAvg, SumGroup, UnlockAvg, PeekMin, PeekWith, RootEmpty, LockPick,
     SetLag, AfterCollapse, AfterEnqueue, MoveTo, Goto, groupVars
  <2> QED
    BY <1>5, <1>6, <2>1
<1> QED
  BY <1>2, <1>3, <1>4, <1>7

-----------------------------------------------------------------------------
(* A group that is being picked from keeps its threads: only the holder of *)
(* the list lock takes one off a count, and only one core holds it.        *)

LEMMA PickNeverEmptyStep ==
  ASSUME TypeOK, LocalOK, LocksOK, QueueCount, PickNeverEmpty,
         NEW c \in Cores, Core(c)
  PROVE  PickNeverEmpty'
<1>a. \A d \in Cores \ {c} : pc'[d] = pc[d] /\ grp'[d] = grp[d]
  BY OthersStay
<1>b. ASSUME threads_queued' = threads_queued, runqueue' = runqueue,
             pc'[c] \in {"pick", "pick_down", "pick_up", "take"} => threads_queued[grp'[c]] > 0,
             pc'[c] = "dequeue" => runqueue[grp'[c]] # <<>>
      PROVE  PickNeverEmpty'
  <2> SUFFICES ASSUME NEW d \in Cores
               PROVE  /\ pc'[d] \in {"pick", "pick_down", "pick_up", "take"}
                           => threads_queued'[grp'[d]] > 0
                      /\ pc'[d] = "dequeue" => runqueue'[grp'[d]] # <<>>
    BY DEF PickNeverEmpty
  <2>1. CASE d = c
    BY <1>b, <2>1
  <2>2. CASE d # c
    <3>1. pc'[d] = pc[d] /\ grp'[d] = grp[d]
      BY <1>a, <2>2
    <3> QED
      BY <1>b, <3>1 DEF PickNeverEmpty
  <2> QED
    BY <2>1, <2>2
<1> USE DEF TypeOK, CountsType, QueuesType, ControlType, HandType
<1>1. \A g \in Groups : Len(runqueue[g]) \in Nat /\ threads_queued[g] \in Nat
  BY LenProperties
<1>2. CASE EnqueueProc(c)
  <2>1. grp[c] \in Groups /\ proc[c] \in Procs
    BY <1>2 DEF EnqueueProc, EnqueueWith, LocalOK, EnqueueLabels
  <2>2. <<proc[c]>> \o runqueue[grp[c]] # <<>>
    BY <2>1, ConcatEqualIffEmpty, SMT
  <2>3. /\ \A g \in Groups : threads_queued'[g] >= threads_queued[g]
        /\ \A g \in Groups : runqueue[g] # <<>> => runqueue'[g] # <<>>
    BY <1>1, <1>2, <2>2, SMT DEF EnqueueProc, EnqueueWith
  <2>4. /\ pc'[c] \notin PickLabels
        /\ grp' = grp
        /\ \A d \in Cores \ {c} : pc'[d] = pc[d]
    BY <1>2 DEF EnqueueProc, EnqueueWith, Goto, AfterEnqueue, PickLabels
  <2>5. \A d \in Cores : pc[d] \in PickLabels => grp[d] \in Groups
    BY DEF LocalOK
  <2>6. \A g \in Groups : threads_queued'[g] \in Nat
    BY <1>1, <1>2, <2>1, SMT DEF EnqueueProc, EnqueueWith
  <2>7. ASSUME NEW d \in Cores,
               pc'[d] \in {"pick", "pick_down", "pick_up", "take"}
        PROVE  threads_queued'[grp'[d]] > 0
    <3>1. d # c /\ pc'[d] = pc[d] /\ grp'[d] = grp[d] /\ grp[d] \in Groups
      BY <2>4, <2>5, <2>7 DEF PickLabels
    <3>2. threads_queued[grp[d]] > 0
      BY <2>7, <3>1 DEF PickNeverEmpty
    <3> QED
      BY <1>1, <2>3, <2>6, <3>1, <3>2, SMT
  <2>8. ASSUME NEW d \in Cores, pc'[d] = "dequeue"
        PROVE  runqueue'[grp'[d]] # <<>>
    BY <2>3, <2>4, <2>5, <2>8 DEF PickLabels, PickNeverEmpty
  <2> QED
    BY <2>7, <2>8 DEF PickNeverEmpty
<1>3. CASE TakeThread(c)
  <2>1. grp[c] \in Groups /\ listWriter = c /\ threads_queued[grp[c]] > 0
    BY <1>3 DEF TakeThread, LocalOK, PickLabels, LocksOK, ListWriteLabels, PickNeverEmpty
  <2>2. \A d \in Cores \ {c} : pc'[d] \notin {"pick", "pick_down", "pick_up", "take"}
    BY <1>3, <2>1, <1>a DEF LocksOK, ListWriteLabels
  <2>3. runqueue[grp[c]] # <<>>
    <3>1. \/ Len(runqueue[grp[c]]) = threads_queued[grp[c]] + 0
          \/ Len(runqueue[grp[c]]) = threads_queued[grp[c]] + 1
      BY <2>1 DEF QueueCount
    <3>2. Len(runqueue[grp[c]]) > 0
      BY <1>1, <2>1, <3>1, SMT
    <3> QED
      BY <3>2, EmptySeq
  <2>4. pc'[c] = "dequeue" /\ UNCHANGED <<runqueue, grp>>
    BY <1>3 DEF TakeThread, Goto, localVars
  <2> QED
    BY <2>2, <2>3, <2>4, <1>a DEF PickNeverEmpty
<1>4. CASE Dequeue(c)
  <2>1. grp[c] \in Groups /\ groupWriter[grp[c]] = c
    BY <1>4 DEF Dequeue, DequeueWith, LocalOK, PickLabels, LocksOK, GroupWriteLabels
  <2>2. \A d \in Cores \ {c} : pc[d] = "dequeue" => grp[d] # grp[c]
    BY <2>1 DEF LocksOK, GroupWriteLabels
  <2>3. /\ pc'[c] \in {"deq_avg", "return"}
        /\ \A g \in Groups \ {grp[c]} : runqueue'[g] = runqueue[g]
        /\ UNCHANGED <<threads_queued, grp>>
    BY <1>4 DEF Dequeue, DequeueWith, Goto, localVars
  <2>4. \A d \in Cores : pc[d] = "dequeue" => grp[d] \in Groups
    BY DEF LocalOK, PickLabels
  <2> QED
    BY <2>2, <2>3, <2>4, <1>a DEF PickNeverEmpty
<1>5. CASE PeekMin(c)
  <2>1. /\ pc'[c] = "pick" => threads_queued[grp'[c]] > 0
        /\ pc'[c] \in {"pick", "return"}
        /\ UNCHANGED <<threads_queued, runqueue>>
    BY <1>1, <1>5, ZeroTypes, SMT DEF PeekMin, PeekWith, RootEmpty, HeapType, Goto, groupVars
  <2>2. /\ threads_queued' = threads_queued /\ runqueue' = runqueue
        /\ pc'[c] \in {"pick", "pick_down", "pick_up", "take"} => threads_queued[grp'[c]] > 0
        /\ pc'[c] # "dequeue"
    BY ONLY <2>1
  <2> QED
    BY ONLY <1>b, <2>2
<1>6. CASE ~(EnqueueProc(c) \/ TakeThread(c) \/ Dequeue(c) \/ PeekMin(c))
  <2>1. /\ UNCHANGED <<runqueue, threads_queued>>
        /\ pc'[c] # "dequeue"
        /\ pc'[c] \in {"pick_down", "pick_up", "take"}
             => pc[c] \in {"pick", "pick_down", "pick_up"} /\ grp'[c] = grp[c]
        /\ pc'[c] # "pick"
    BY <1>6 DEF Core, StartTick, Exit, RunOn, TakeFromPool, StartYield, Return,
     DecNThread, GetWeight, CollapseSvt, ReadIndex, LockFix, SiftDownStep,
     SiftUpStep, SetSvt, LockAvg, SumGroup, UnlockAvg, LockPick, SetLag,
     AfterCollapse, AfterEnqueue, MoveTo, Goto, groupVars, localVars
  <2>2. pc'[c] \in {"pick_down", "pick_up", "take"} => threads_queued[grp'[c]] > 0
    BY <2>1 DEF PickNeverEmpty
  <2>3. /\ threads_queued' = threads_queued /\ runqueue' = runqueue
        /\ pc'[c] \in {"pick", "pick_down", "pick_up", "take"} => threads_queued[grp'[c]] > 0
        /\ pc'[c] # "dequeue"
    BY ONLY <2>1, <2>2
  <2> QED
    BY ONLY <1>b, <2>3
<1> QED
  BY <1>2, <1>3, <1>4, <1>5, <1>6

-----------------------------------------------------------------------------
(* The inductive invariant and what it shows.                              *)

LEMMA StepInv == IInv /\ [Next]_vars => IInv'
<1> SUFFICES ASSUME IInv, [Next]_vars PROVE IInv'
  OBVIOUS
<1> USE DEF IInv
<1>1. ASSUME NEW c \in Cores, Core(c)
      PROVE  IInv'
  <2> USE <1>1
  <2>1. TypeOK'
    BY LocksTypeStep, HeapTypeStep, CountsTypeStep, TimesTypeStep, QueuesTypeStep,
       ControlTypeStep, HandTypeStep, SiftTypeStep, AverageTypeStep
    DEF TypeOK
  <2>2. LocalOK' /\ LocksOK' /\ HeapIndexed' /\ QueueCount' /\ PickNeverEmpty'
    BY LocalStep, LocksStep, HeapIndexedStep, QueueCountStep, PickNeverEmptyStep
  <2> QED
    BY <2>1, <2>2
<1>2. CASE UNCHANGED vars
  BY <1>2
  DEF vars, locks, heapVars, groupVars, coreVars, localVars, TypeOK, LocksType, HeapType,
      CountsType, TimesType, QueuesType, ControlType, HandType, SiftType, AverageType,
      LocalOK, LocksOK, HeapIndexed, QueueCount, Taking, PickNeverEmpty
<1> QED
  BY <1>1, <1>2 DEF Next, Terminating

LEMMA Invariance == Spec => []IInv
  BY InitInv, StepInv, PTL DEF Spec

(* Every variable keeps its type; among others the count of queued threads *)
(* never goes below zero and no index leaves the heap.                     *)
THEOREM TypeCorrect == Spec => []TypeOK
  BY Invariance, PTL DEF IInv

(* The heap and the indices the groups keep of it agree in every state,    *)
(* that a core reads an index without the list lock notwithstanding.       *)
THEOREM HeapStaysIndexed == Spec => []HeapIndexed
  BY Invariance, PTL DEF IInv

(* threads_queued counts the run queue, which is what the disabled assert  *)
(* assert_threads_queued_correct says, at every step of every core.        *)
THEOREM CountsMatchQueues == Spec => []QueueCount
  BY Invariance, PTL DEF IInv

(* The assert of schedule at 645 holds, and dequeue finds a process: the   *)
(* unlocked look of gl_peek_min_group at the count is not out of date when *)
(* schedule relies on it.                                                  *)
THEOREM PicksFindThreads == Spec => []PickNeverEmpty
  BY Invariance, PTL DEF IInv

(* No circle of cores waits for locks of each other: a core that waits for *)
(* the list lock holds none, and one that holds a group's lock is past all *)
(* its waiting.                                                            *)
THEOREM LocksAreOrdered == Spec => []NoLockCycle
<1>1. IInv => NoLockCycle
  <2> SUFFICES ASSUME IInv, NEW S \in SUBSET Cores, S # {}
               PROVE  \E c \in S : \A d \in S : ~WaitsFor(c, d)
    BY DEF NoLockCycle
  <2> DEFINE ListWait == {"peek", "fix", "enq_avg", "deq_avg"}
             GroupWait == {"dec", "weight", "collapse", "enqueue", "set_svt", "pick",
                           "set_lag", "enq_sum", "deq_sum"}
  <2>1. ASSUME NEW c \in S, NEW d \in S, WaitsFor(c, d), pc[c] \in GroupWait
        PROVE  pc[d] \notin ListWait \cup GroupWait
    <3>1. \E g \in Groups : groupWriter[g] = d
      <4>1. CASE pc[c] \in {"enq_sum", "deq_sum"}
        <5>1. sum[c].i < NumGroups /\ groupWriter[heap[sum[c].i]] = d
          BY <2>1, <4>1 DEF WaitsFor
        <5>2. sum[c].i \in Groups
          BY <5>1, SizeAssumption, SMT DEF IInv, TypeOK, AverageType, Groups
        <5> QED
          BY <5>1, <5>2 DEF IInv, TypeOK, HeapType
      <4>2. CASE pc[c] \notin {"enq_sum", "deq_sum"}
        BY <2>1, <4>2 DEF WaitsFor, IInv, LocalOK, CollapseLabels, EnqueueLabels, PickLabels
      <4> QED
        BY <4>1, <4>2
    <3> QED
      BY <3>1 DEF IInv, LocksOK, GroupWriteLabels
  <2>2. ASSUME NEW c \in S, NEW d \in S, WaitsFor(c, d), pc[c] \in ListWait
        PROVE  pc[d] \notin ListWait
    <3>1. listWriter = d \/ d \in listReaders
      BY <2>2 DEF WaitsFor
    <3> QED
      BY <3>1 DEF IInv, LocksOK, ListWriteLabels, ListReadLabels
  <2>3. ASSUME NEW c \in S, NEW d \in S, WaitsFor(c, d)
        PROVE  pc[c] \in ListWait \cup GroupWait
    BY <2>3 DEF WaitsFor
  <2>4. CASE \E c \in S : pc[c] \notin ListWait \cup GroupWait
    BY <2>3, <2>4
  <2>5. CASE /\ \A c \in S : pc[c] \in ListWait \cup GroupWait
             /\ \E c \in S : pc[c] \in GroupWait
    BY <2>1, <2>5
  <2>6. CASE \A c \in S : pc[c] \in ListWait
    BY <2>2, <2>6
  <2> QED
    BY <2>4, <2>5, <2>6
<1> QED
  BY <1>1, Invariance, PTL

-----------------------------------------------------------------------------
IdleLabels == {"loop", "choose", "done"}
HoldLabels == {"dec"} \cup CollapseLabels

(* What a core has in its hands at each label of each operation: schedule  *)
(* has its process twice, as p and as current_process, until enqueue; a    *)
(* yield has it so until it clears current_process.                        *)
CoreHandOK(c) ==
  /\ op[c] = "none" <=> pc[c] \in IdleLabels
  /\ op[c] = "none" => proc[c] = None
  /\ pc[c] = "dec" => op[c] = "yield"
  /\ op[c] = "enq" => /\ pc[c] \in EnqueueLabels \cup {"return"}
                      /\ pc[c] = "enqueue" <=> proc[c] # None
                      /\ proc[c] # None => current_process[c] # proc[c]
  /\ op[c] = "sched" => IF pc[c] \in CollapseLabels \cup {"enqueue"}
                        THEN proc[c] = current_process[c] /\ proc[c] # None
                        ELSE proc[c] = None
  /\ op[c] = "yield" => /\ pc[c] \notin EnqueueLabels
                        /\ pc[c] \in HoldLabels \cup {"peek"} <=> current_process[c] = proc[c]
  /\ pc[c] \in {"pick", "pick_down", "pick_up", "take", "dequeue"} => current_process[c] = None
  /\ pc[c] \in HoldLabels \cup {"enqueue"} => grp[c] = GroupOf[proc[c]]
HandOK == \A c \in Cores : CoreHandOK(c)

(* No list has a process twice, and a run queue those of its group only.   *)
Distinct(s) == \A i, j \in 1 .. Len(s) : s[i] = s[j] => i = j
ListsOK ==
  /\ \A g \in Groups : Distinct(runqueue[g]) /\ \A p \in SetOf(runqueue[g]) : GroupOf[p] = g
  /\ \A c \in Cores : Distinct(pool[c])

(* The queues, hands and pools that have process p: one in all.            *)
QueuesOf(p) == {g \in Groups : p \in SetOf(runqueue[g])}
HandsOf(p) == {c \in Cores : p \in Hand(c)}
PoolsOf(p) == {c \in Cores : p \in SetOf(pool[c])}
Single(S) == \E x \in S : S = {x}
OneOf(Q, H, P) ==
  \/ Single(Q) /\ H = {} /\ P = {}
  \/ Q = {} /\ Single(H) /\ P = {}
  \/ Q = {} /\ H = {} /\ Single(P)
Owned == \A p \in Procs : OneOf(QueuesOf(p), HandsOf(p), PoolsOf(p))

(* num_threads counts the processes of the group that are not parked.      *)
Parked(c) ==
  SetOf(pool[c]) \cup (IF Leaving(c) \/ op[c] = "enq" THEN {proc[c]} \ {None} ELSE {})
Members(g) == {p \in Procs : GroupOf[p] = g /\ \A c \in Cores : p \notin Parked(c)}
MembersCounted == \A g \in Groups : num_threads[g] = Cardinality(Members(g))

OwnInv == IInv /\ HandOK /\ ListsOK /\ Owned /\ MembersCounted

-----------------------------------------------------------------------------
(* Lists without repetition.                                               *)

LEMMA ConsList ==
  ASSUME NEW s \in Seq(Procs), NEW p \in Procs, Distinct(s), p \notin SetOf(s)
  PROVE  /\ SetOf(<<p>> \o s) = SetOf(s) \cup {p}
         /\ Distinct(<<p>> \o s)
<1> DEFINE t == <<p>> \o s
<1>1. /\ Len(s) \in Nat /\ Len(t) = Len(s) + 1
      /\ t[1] = p /\ \A i \in 2 .. Len(t) : t[i] = s[i - 1]
  BY ConcatProperties, LenProperties
<1> HIDE DEF t
<1>2. \A i \in 1 .. Len(s) : t[i + 1] = s[i]
  BY <1>1
<1>3. SetOf(t) = SetOf(s) \cup {p}
  <2>1. \A x \in SetOf(t) : x \in SetOf(s) \cup {p}
    BY <1>1 DEF SetOf
  <2>2. \A x \in SetOf(s) : x \in SetOf(t)
    <3> SUFFICES ASSUME NEW i \in 1 .. Len(s) PROVE s[i] \in SetOf(t)
      BY DEF SetOf
    <3> QED
      BY <1>1, <1>2 DEF SetOf
  <2>3. p \in SetOf(t)
    BY <1>1 DEF SetOf
  <2> QED
    BY <2>1, <2>2, <2>3
<1>4. Distinct(t)
  <2> SUFFICES ASSUME NEW i \in 1 .. Len(t), NEW j \in 1 .. Len(t), t[i] = t[j]
               PROVE  i = j
    BY DEF Distinct
  <2>1. \A k \in 2 .. Len(t) : k - 1 \in 1 .. Len(s) /\ t[k] = s[k - 1] /\ t[k] # p
    BY <1>1 DEF SetOf
  <2> QED
    BY <1>1, <2>1 DEF Distinct
<1> QED
  BY <1>3, <1>4 DEF t

LEMMA UnconsList ==
  ASSUME NEW s \in Seq(Procs), s # <<>>, Distinct(s)
  PROVE  /\ Head(s) \in SetOf(s)
         /\ SetOf(Tail(s)) = SetOf(s) \ {Head(s)}
         /\ Distinct(Tail(s))
<1> DEFINE t == Tail(s)
<1>1. /\ Len(s) \in Nat \ {0} /\ Len(t) = Len(s) - 1 /\ Head(s) = s[1]
      /\ \A i \in 1 .. Len(t) : t[i] = s[i + 1]
  BY HeadTailProperties, EmptySeq
<1> HIDE DEF t
<1>2. \A i \in 2 .. Len(s) : i - 1 \in 1 .. Len(t) /\ t[i - 1] = s[i] /\ s[i] # s[1]
  BY <1>1 DEF Distinct
<1>3. Head(s) \in SetOf(s)
  BY <1>1 DEF SetOf
<1>4. SetOf(t) = SetOf(s) \ {Head(s)}
  <2>1. \A x \in SetOf(t) : x \in SetOf(s) \ {Head(s)}
    <3> SUFFICES ASSUME NEW i \in 1 .. Len(t) PROVE t[i] \in SetOf(s) \ {Head(s)}
      BY DEF SetOf
    <3>1. i + 1 \in 2 .. Len(s) /\ t[i] = s[i + 1]
      BY <1>1
    <3> QED
      BY <1>1, <1>2, <3>1 DEF SetOf
  <2>2. \A x \in SetOf(s) \ {Head(s)} : x \in SetOf(t)
    <3> SUFFICES ASSUME NEW i \in 1 .. Len(s), s[i] # s[1] PROVE s[i] \in SetOf(t)
      BY <1>1 DEF SetOf
    <3>1. i \in 2 .. Len(s)
      BY <1>1
    <3> QED
      BY <1>2, <3>1 DEF SetOf
  <2> QED
    BY <2>1, <2>2
<1>5. Distinct(t)
  BY <1>1 DEF Distinct
<1> QED
  BY <1>3, <1>4, <1>5 DEF t

LEMMA CountList ==
  ASSUME NEW s \in Seq(Procs), Distinct(s)
  PROVE  IsFiniteSet(SetOf(s)) /\ Cardinality(SetOf(s)) = Len(s)
<1>1. Len(s) \in Nat /\ s \in [1 .. Len(s) -> Procs] /\ DOMAIN s = 1 .. Len(s)
  BY LenProperties
<1>2. s \in [1 .. Len(s) -> SetOf(s)]
  BY <1>1 DEF SetOf
<1>3. s \in Bijection(1 .. Len(s), SetOf(s))
  BY <1>1, <1>2 DEF SetOf, Distinct, Bijection, Injection, Surjection, IsInjective
<1>4. ExistsBijection(1 .. Len(s), SetOf(s))
  BY <1>3 DEF ExistsBijection
<1> QED
  BY <1>1, <1>4, FS_CountingElements, FS_NatBijection

LEMMA OccursInList ==
  ASSUME NEW s \in Seq(Procs), Distinct(s), NEW p \in Procs
  PROVE  /\ Occurrences(s, p) > 0 <=> p \in SetOf(s)
         /\ p \in SetOf(s) => Occurrences(s, p) = 1
<1> DEFINE I == {i \in 1 .. Len(s) : s[i] = p}
<1>1. CASE p \in SetOf(s)
  <2>1. \E i \in 1 .. Len(s) : I = {i}
    BY <1>1 DEF SetOf, Distinct
  <2>2. Cardinality(I) = 1
    BY <2>1, FS_Singleton
  <2> QED
    BY <1>1, <2>2 DEF Occurrences
<1>2. CASE p \notin SetOf(s)
  <2>1. I = {}
    BY <1>2 DEF SetOf
  <2>2. Cardinality(I) = 0
    BY <2>1, FS_EmptySet
  <2> QED
    BY <1>2, <2>2 DEF Occurrences
<1> QED
  BY <1>1, <1>2

LEMMA SetOfEmpty == SetOf(<<>>) = {} /\ Distinct(<<>>)
  BY EmptySeq DEF SetOf, Distinct

-----------------------------------------------------------------------------
(* What a core has in its hands.                                           *)

(* A step of a core changes nothing that another has.                      *)
LEMMA OthersKeep ==
  ASSUME TypeOK, NEW c \in Cores, Core(c), NEW d \in Cores \ {c}
  PROVE  /\ pc'[d] = pc[d] /\ grp'[d] = grp[d]
         /\ op'[d] = op[d] /\ proc'[d] = proc[d]
         /\ current_process'[d] = current_process[d] /\ pool'[d] = pool[d]
<1>1. pc'[d] = pc[d] /\ grp'[d] = grp[d]
  BY OthersStay
<1>2. op'[d] = op[d]
  BY DEF Core, StartTick, Exit, RunOn, TakeFromPool, StartYield, Return, DecNThread,
     GetWeight, CollapseSvt, ReadIndex, LockFix, SiftDownStep, SiftUpStep, MoveTo,
     EnqueueProc, EnqueueWith, SetSvt, LockAvg, SumGroup, UnlockAvg, PeekMin, PeekWith,
     LockPick, TakeThread, Dequeue, DequeueWith, SetLag,
     TypeOK, ControlType, localVars
<1>3. proc'[d] = proc[d]
  BY DEF Core, StartTick, Exit, RunOn, TakeFromPool, StartYield, Return, DecNThread,
     GetWeight, CollapseSvt, ReadIndex, LockFix, SiftDownStep, SiftUpStep, MoveTo,
     EnqueueProc, EnqueueWith, SetSvt, LockAvg, SumGroup, UnlockAvg, PeekMin, PeekWith,
     LockPick, TakeThread, Dequeue, DequeueWith, SetLag,
     TypeOK, HandType, localVars
<1>4. current_process'[d] = current_process[d]
  BY DEF Core, StartTick, Exit, RunOn, TakeFromPool, StartYield, Return, DecNThread,
     GetWeight, CollapseSvt, ReadIndex, LockFix, SiftDownStep, SiftUpStep, MoveTo,
     EnqueueProc, EnqueueWith, SetSvt, LockAvg, SumGroup, UnlockAvg, PeekMin, PeekWith,
     LockPick, TakeThread, Dequeue, DequeueWith, SetLag,
     TypeOK, HandType, coreVars
<1>5. pool'[d] = pool[d]
  BY DEF Core, StartTick, Exit, RunOn, TakeFromPool, StartYield, Return, DecNThread,
     GetWeight, CollapseSvt, ReadIndex, LockFix, SiftDownStep, SiftUpStep, MoveTo,
     EnqueueProc, EnqueueWith, SetSvt, LockAvg, SumGroup, UnlockAvg, PeekMin, PeekWith,
     LockPick, TakeThread, Dequeue, DequeueWith, SetLag,
     TypeOK, QueuesType, coreVars
<1> QED
  BY <1>1, <1>2, <1>3, <1>4, <1>5

(* A process on a queue is in nobody's hands.                              *)
LEMMA QueuedNotHeld ==
  ASSUME Owned, NEW g \in Groups, NEW p \in Procs, p \in SetOf(runqueue[g]),
         NEW c \in Cores
  PROVE  p \notin Hand(c)
  BY DEF Owned, OneOf, Single, QueuesOf, HandsOf

(* Nor is one in a pool.                                                   *)
LEMMA PooledNotHeld ==
  ASSUME Owned, NEW d \in Cores, NEW p \in Procs, p \in SetOf(pool[d]),
         NEW c \in Cores
  PROVE  p \notin Hand(c)
  BY DEF Owned, OneOf, Single, PoolsOf, HandsOf

(* Labels and hands of the core that steps.                                *)
LEMMA HandStep ==
  ASSUME IInv, HandOK, Owned, NEW c \in Cores, Core(c)
  PROVE  HandOK'
<1> SUFFICES CoreHandOK(c)'
  <2>1. ASSUME NEW d \in Cores \ {c}
        PROVE  CoreHandOK(d)'
    <3>1. CoreHandOK(d)
      BY DEF HandOK
    <3> QED
      BY <2>1, <3>1, OthersKeep DEF IInv, CoreHandOK
  <2> QED
    BY <2>1 DEF HandOK
<1>a. CoreHandOK(c)
  BY DEF HandOK
<1> USE <1>a, NoneAssumption, GroupOfAssumption DEF CoreHandOK, IInv, TypeOK, ControlType, HandType, IdleLabels,
    HoldLabels, CollapseLabels, EnqueueLabels
<1>1. CASE StartTick(c)
  BY <1>1 DEF StartTick, Goto, coreVars, localVars
<1>2. CASE Exit(c)
  BY <1>2 DEF Exit, Goto, coreVars, localVars
<1>3. CASE RunOn(c)
  BY <1>3 DEF RunOn, Goto, coreVars, localVars
<1>4. CASE TakeFromPool(c)
  <2>1. Head(pool[c]) \in Procs /\ Head(pool[c]) \in SetOf(pool[c])
    BY <1>4, HeadTailProperties, EmptySeq DEF TakeFromPool, QueuesType, SetOf
  <2>2. Head(pool[c]) \notin Hand(c)
    BY <2>1, PooledNotHeld
  <2>3. Head(pool[c]) # current_process[c]
    BY <1>4, <2>1, <2>2 DEF TakeFromPool, Hand, Requeued
  <2> QED
    BY <1>4, <2>1, <2>3 DEF TakeFromPool, Goto, coreVars, localVars
<1>5. CASE StartYield(c)
  BY <1>5 DEF StartYield, Goto, coreVars, localVars
<1>6. CASE Return(c)
  BY <1>6 DEF Return, Goto, coreVars, localVars
<1>7. CASE DecNThread(c)
  BY <1>7 DEF DecNThread, Goto, coreVars, localVars
<1>8. CASE GetWeight(c)
  BY <1>8 DEF GetWeight, Goto, AfterCollapse, coreVars, localVars
<1>9. CASE CollapseSvt(c)
  BY <1>9 DEF CollapseSvt, Goto, GroupFree, coreVars, localVars
<1>10. CASE ReadIndex(c)
  BY <1>10 DEF ReadIndex, Goto, AfterCollapse, coreVars, localVars
<1>11. CASE LockFix(c)
  BY <1>11 DEF LockFix, Goto, ListFree, coreVars, localVars
<1>12. CASE SiftDownStep(c)
  BY <1>12 DEF SiftDownStep, Goto, MoveTo, coreVars, localVars
<1>13. CASE SiftUpStep(c)
  BY <1>13 DEF SiftUpStep, Goto, MoveTo, AfterCollapse, coreVars, localVars
<1>14. CASE EnqueueProc(c)
  BY <1>14 DEF EnqueueProc, Goto, EnqueueWith, AfterEnqueue, GroupFree, coreVars, localVars
<1>15. CASE SetSvt(c)
  BY <1>15 DEF SetSvt, Goto, AfterEnqueue, coreVars, localVars
<1>16. CASE LockAvg(c)
  BY <1>16 DEF LockAvg, Goto, coreVars, localVars
<1>17. CASE SumGroup(c)
  BY <1>17 DEF SumGroup, Goto, coreVars, localVars
<1>18. CASE UnlockAvg(c)
  BY <1>18 DEF UnlockAvg, Goto, coreVars, localVars
<1>19. CASE PeekMin(c)
  BY <1>19 DEF PeekMin, Goto, PeekWith, RootEmpty, ListFree, LocalOK, coreVars, localVars
<1>20. CASE LockPick(c)
  BY <1>20 DEF LockPick, Goto, GroupFree, coreVars, localVars
<1>21. CASE TakeThread(c)
  BY <1>21 DEF TakeThread, Goto, coreVars, localVars
<1>22. CASE Dequeue(c)
  <2>1. grp[c] \in Groups /\ runqueue[grp[c]] # <<>>
    BY <1>22 DEF Dequeue, DequeueWith, LocalOK, PickLabels, PickNeverEmpty
  <2>2. Head(runqueue[grp[c]]) \in Procs /\ Head(runqueue[grp[c]]) \in SetOf(runqueue[grp[c]])
    BY <2>1, HeadTailProperties, EmptySeq DEF QueuesType, SetOf
  <2>3. Head(runqueue[grp[c]]) \notin Hand(c)
    BY <2>1, <2>2, QueuedNotHeld
  <2>4. op[c] = "yield" => Head(runqueue[grp[c]]) # proc[c]
    BY <2>3, <2>2 DEF Hand, Requeued
  <2> QED
    BY <1>22, <2>2, <2>4 DEF Dequeue, Goto, DequeueWith, coreVars, localVars
<1>23. CASE SetLag(c)
  BY <1>23 DEF SetLag, Goto, coreVars, localVars
<1> QED
  BY <1>1, <1>2, <1>3, <1>4, <1>5, <1>6, <1>7, <1>8, <1>9, <1>10, <1>11, <1>12,
     <1>13, <1>14, <1>15, <1>16, <1>17, <1>18, <1>19, <1>20, <1>21, <1>22, <1>23
     DEF Core

-----------------------------------------------------------------------------
(* One place per process: the four actions that move one, and the others.  *)
Moves(c) == TakeFromPool(c) \/ Return(c) \/ EnqueueProc(c) \/ Dequeue(c)

(* The others leave the hands of the core as they are.                     *)
LEMMA QuietHands ==
  ASSUME IInv, HandOK, NEW c \in Cores, Core(c), ~Moves(c)
  PROVE  Hand(c)' = Hand(c) /\ runqueue' = runqueue /\ pool' = pool
<1>1. runqueue' = runqueue /\ pool' = pool
  BY DEF Moves, Core, StartTick, Exit, RunOn, StartYield, DecNThread,
     GetWeight, CollapseSvt, ReadIndex, LockFix, SiftDownStep, SiftUpStep, MoveTo,
     SetSvt, LockAvg, SumGroup, UnlockAvg, PeekMin, PeekWith,
     LockPick, TakeThread, SetLag,
     coreVars, groupVars
<1> SUFFICES Hand(c)' = Hand(c)
  BY <1>1
<1>a. CoreHandOK(c)
  BY DEF HandOK
<1> USE <1>a, NoneAssumption DEF CoreHandOK, IInv, TypeOK, ControlType, HandType, IdleLabels,
    HoldLabels, CollapseLabels, EnqueueLabels, Hand, Requeued, Goto, coreVars, localVars
<1>2. CASE StartTick(c)
  BY <1>2 DEF StartTick
<1>3. CASE Exit(c)
  BY <1>3 DEF Exit
<1>4. CASE RunOn(c)
  BY <1>4 DEF RunOn
<1>5. CASE StartYield(c)
  BY <1>5 DEF StartYield
<1>6. CASE DecNThread(c)
  BY <1>6 DEF DecNThread
<1>7. CASE GetWeight(c)
  BY <1>7 DEF GetWeight, AfterCollapse
<1>8. CASE CollapseSvt(c)
  BY <1>8 DEF CollapseSvt
<1>9. CASE ReadIndex(c)
  BY <1>9 DEF ReadIndex, AfterCollapse
<1>10. CASE LockFix(c)
  BY <1>10 DEF LockFix
<1>11. CASE SiftDownStep(c)
  BY <1>11 DEF SiftDownStep, MoveTo
<1>12. CASE SiftUpStep(c)
  BY <1>12 DEF SiftUpStep, MoveTo, AfterCollapse
<1>13. CASE SetSvt(c)
  BY <1>13 DEF SetSvt, AfterEnqueue
<1>14. CASE LockAvg(c)
  BY <1>14 DEF LockAvg
<1>15. CASE SumGroup(c)
  BY <1>15 DEF SumGroup
<1>16. CASE UnlockAvg(c)
  BY <1>16 DEF UnlockAvg
<1>17. CASE PeekMin(c)
  BY <1>17 DEF PeekMin, PeekWith, LocalOK
<1>18. CASE LockPick(c)
  BY <1>18 DEF LockPick
<1>19. CASE TakeThread(c)
  BY <1>19 DEF TakeThread
<1>20. CASE SetLag(c)
  BY <1>20 DEF SetLag
<1> QED
  BY <1>2, <1>3, <1>4, <1>5, <1>6, <1>7, <1>8, <1>9, <1>10, <1>11, <1>12,
     <1>13, <1>14, <1>15, <1>16, <1>17, <1>18, <1>19, <1>20
     DEF Core, Moves

(* Hands and lists of a step, as sets.                                     *)
LEMMA OthersHands ==
  ASSUME IInv, NEW c \in Cores, Core(c), NEW d \in Cores \ {c}
  PROVE  Hand(d)' = Hand(d) /\ SetOf(pool[d])' = SetOf(pool[d])
  BY OthersKeep DEF IInv, Hand, Requeued, SetOf

LEMMA OwnMoves ==
  ASSUME Owned, NEW q \in Procs,
         \A p \in Procs \ {q} : /\ QueuesOf(p)' = QueuesOf(p)
                                /\ HandsOf(p)' = HandsOf(p)
                                /\ PoolsOf(p)' = PoolsOf(p),
         OneOf(QueuesOf(q)', HandsOf(q)', PoolsOf(q)')
  PROVE  Owned'
  BY DEF Owned, OneOf, Single

LEMMA HeldOnly ==
  ASSUME Owned, NEW c \in Cores, NEW q \in Procs, q \in Hand(c)
  PROVE  QueuesOf(q) = {} /\ HandsOf(q) = {c} /\ PoolsOf(q) = {}
  BY DEF Owned, OneOf, Single, HandsOf

LEMMA QueuedOnly ==
  ASSUME Owned, NEW g \in Groups, NEW q \in Procs, q \in SetOf(runqueue[g])
  PROVE  QueuesOf(q) = {g} /\ HandsOf(q) = {} /\ PoolsOf(q) = {}
  BY DEF Owned, OneOf, Single, QueuesOf

LEMMA PooledOnly ==
  ASSUME Owned, NEW c \in Cores, NEW q \in Procs, q \in SetOf(pool[c])
  PROVE  QueuesOf(q) = {} /\ HandsOf(q) = {} /\ PoolsOf(q) = {c}
  BY DEF Owned, OneOf, Single, PoolsOf

(* enqueue: from the core's hands to the head of its group's queue.        *)
LEMMA EnqueueMoves ==
  ASSUME IInv, HandOK, ListsOK, Owned, NEW c \in Cores, Core(c), EnqueueProc(c)
  PROVE  LET q == proc[c]
             g == grp[c]
         IN  /\ q \in Procs /\ g \in Groups /\ g = GroupOf[q] /\ q \in Hand(c)
             /\ Hand(c)' = Hand(c) \ {q}
             /\ runqueue' = [runqueue EXCEPT ![g] = <<q>> \o @]
             /\ SetOf(runqueue'[g]) = SetOf(runqueue[g]) \cup {q}
             /\ Distinct(runqueue'[g])
             /\ pool' = pool
<1>a. CoreHandOK(c)
  BY DEF HandOK
<1>1. /\ pc[c] = "enqueue" /\ proc[c] \in Procs /\ grp[c] \in Groups
      /\ grp[c] = GroupOf[proc[c]] /\ op[c] \in {"sched", "enq"}
  BY <1>a DEF EnqueueProc, EnqueueWith, IInv, TypeOK, ControlType, LocalOK, EnqueueLabels, CoreHandOK,
     HoldLabels, IdleLabels
<1>2. proc[c] \in Hand(c)
  BY <1>1, NoneAssumption DEF Hand, Requeued
<1>3. Hand(c)' = Hand(c) \ {proc[c]}
  <2>1. /\ proc'[c] = None /\ op'[c] = op[c] /\ current_process'[c] = current_process[c]
        /\ pc'[c] = "enq_avg" \/ pc'[c] = IF op[c] = "sched" THEN "peek" ELSE "return"
    BY DEF EnqueueProc, EnqueueWith, Goto, AfterEnqueue, coreVars, localVars, IInv, TypeOK,
       ControlType, HandType
  <2>2. CASE op[c] = "sched"
    BY <1>1, <1>a, <2>1, <2>2 DEF CoreHandOK, Hand, Requeued
  <2>3. CASE op[c] = "enq"
    BY <1>1, <1>a, <2>1, <2>3 DEF CoreHandOK, Hand, Requeued
  <2> QED
    BY <1>1, <2>2, <2>3
<1>4. /\ runqueue' = [runqueue EXCEPT ![grp[c]] = <<proc[c]>> \o @]
      /\ pool' = pool
  BY DEF EnqueueProc, EnqueueWith, coreVars
<1>5. proc[c] \notin SetOf(runqueue[grp[c]])
  BY <1>1, <1>2, HeldOnly DEF QueuesOf
<1>6. /\ SetOf(<<proc[c]>> \o runqueue[grp[c]]) = SetOf(runqueue[grp[c]]) \cup {proc[c]}
      /\ Distinct(<<proc[c]>> \o runqueue[grp[c]])
  BY <1>1, <1>5, ConsList DEF ListsOK, IInv, TypeOK, QueuesType
<1>7. runqueue'[grp[c]] = <<proc[c]>> \o runqueue[grp[c]]
  BY <1>1, <1>4 DEF IInv, TypeOK, QueuesType
<1> QED
  BY <1>1, <1>2, <1>3, <1>4, <1>6, <1>7

(* dequeue: from the head of the queue to the core's hands.                *)
LEMMA DequeueMoves ==
  ASSUME IInv, HandOK, ListsOK, Owned, NEW c \in Cores, Core(c), Dequeue(c)
  PROVE  LET g == grp[c]
             q == Head(runqueue[g])
         IN  /\ q \in Procs /\ g \in Groups /\ g = GroupOf[q] /\ q \in SetOf(runqueue[g])
             /\ Hand(c)' = Hand(c) \cup {q}
             /\ runqueue' = [runqueue EXCEPT ![g] = Tail(@)]
             /\ SetOf(runqueue'[g]) = SetOf(runqueue[g]) \ {q}
             /\ Distinct(runqueue'[g])
             /\ pool' = pool
<1>a. CoreHandOK(c)
  BY DEF HandOK
<1>1. grp[c] \in Groups /\ runqueue[grp[c]] # <<>>
  BY DEF Dequeue, DequeueWith, IInv, LocalOK, PickLabels, PickNeverEmpty
<1>2. runqueue[grp[c]] \in Seq(Procs) /\ Distinct(runqueue[grp[c]])
  BY <1>1 DEF IInv, TypeOK, QueuesType, ListsOK
<1>3. /\ Head(runqueue[grp[c]]) \in SetOf(runqueue[grp[c]])
      /\ SetOf(Tail(runqueue[grp[c]])) = SetOf(runqueue[grp[c]]) \ {Head(runqueue[grp[c]])}
      /\ Distinct(Tail(runqueue[grp[c]]))
  BY <1>1, <1>2, UnconsList
<1>4. Head(runqueue[grp[c]]) \in Procs
  BY <1>1, <1>2, HeadTailProperties
<1>5. GroupOf[Head(runqueue[grp[c]])] = grp[c]
  BY <1>1, <1>3 DEF ListsOK
<1>6. Hand(c)' = Hand(c) \cup {Head(runqueue[grp[c]])}
  <2>1. /\ proc'[c] = proc[c] /\ op'[c] = op[c] /\ pc[c] = "dequeue"
        /\ current_process'[c] = Head(runqueue[grp[c]])
        /\ pc'[c] \in {"deq_avg", "return"}
    BY DEF Dequeue, DequeueWith, Goto, localVars, IInv, TypeOK, ControlType, HandType
  <2> QED
    BY <1>4, <1>a, <2>1, NoneAssumption DEF CoreHandOK, Hand, Requeued
<1>7. /\ runqueue' = [runqueue EXCEPT ![grp[c]] = Tail(@)]
      /\ pool' = pool
  BY DEF Dequeue, DequeueWith
<1>8. runqueue'[grp[c]] = Tail(runqueue[grp[c]])
  BY <1>1, <1>7 DEF IInv, TypeOK, QueuesType
<1> QED
  BY <1>1, <1>3, <1>4, <1>5, <1>6, <1>7, <1>8

(* The choice to enqueue: from the core's pool to its hands.               *)
LEMMA TakeFromPoolMoves ==
  ASSUME IInv, HandOK, ListsOK, Owned, NEW c \in Cores, Core(c), TakeFromPool(c)
  PROVE  LET q == Head(pool[c])
         IN  /\ q \in Procs /\ q \in SetOf(pool[c])
             /\ Hand(c)' = Hand(c) \cup {q}
             /\ SetOf(pool'[c]) = SetOf(pool[c]) \ {q}
             /\ Distinct(pool'[c])
             /\ runqueue' = runqueue
<1>a. CoreHandOK(c)
  BY DEF HandOK
<1>1. pool[c] \in Seq(Procs) /\ pool[c] # <<>> /\ Distinct(pool[c])
  BY DEF TakeFromPool, IInv, TypeOK, QueuesType, ListsOK
<1>2. /\ Head(pool[c]) \in SetOf(pool[c])
      /\ SetOf(Tail(pool[c])) = SetOf(pool[c]) \ {Head(pool[c])}
      /\ Distinct(Tail(pool[c]))
  BY <1>1, UnconsList
<1>3. Head(pool[c]) \in Procs
  BY <1>1, HeadTailProperties
<1>4. Hand(c)' = Hand(c) \cup {Head(pool[c])}
  BY <1>3, <1>a, NoneAssumption DEF CoreHandOK, IdleLabels, Hand, Requeued, TakeFromPool, Goto,
     IInv, TypeOK, ControlType, HandType
<1>5. pool'[c] = Tail(pool[c]) /\ runqueue' = runqueue
  BY DEF TakeFromPool, groupVars, IInv, TypeOK, QueuesType
<1> QED
  BY <1>2, <1>3, <1>4, <1>5

(* The end of a yield: from the core's hands to its pool.                  *)
LEMMA ReturnMoves ==
  ASSUME IInv, HandOK, ListsOK, Owned, NEW c \in Cores, Core(c), Return(c), op[c] = "yield"
  PROVE  LET q == proc[c]
         IN  /\ q \in Procs /\ q \in Hand(c)
             /\ Hand(c)' = Hand(c) \ {q}
             /\ SetOf(pool'[c]) = SetOf(pool[c]) \cup {q}
             /\ Distinct(pool'[c])
             /\ runqueue' = runqueue
<1>a. CoreHandOK(c)
  BY DEF HandOK
<1>1. /\ proc[c] \in Procs /\ pc[c] = "return" /\ current_process[c] # proc[c]
      /\ pool[c] \in Seq(Procs) /\ Distinct(pool[c])
  BY <1>a DEF Return, CoreHandOK, HoldLabels, CollapseLabels, IInv, LocalOK, TypeOK, QueuesType,
     ListsOK
<1>2. proc[c] \in Hand(c)
  BY <1>1, NoneAssumption DEF Hand, Requeued
<1>3. proc[c] \notin SetOf(pool[c])
  BY <1>1, <1>2, HeldOnly DEF PoolsOf
<1>4. /\ SetOf(<<proc[c]>> \o pool[c]) = SetOf(pool[c]) \cup {proc[c]}
      /\ Distinct(<<proc[c]>> \o pool[c])
  BY <1>1, <1>3, ConsList
<1>5. pool'[c] = <<proc[c]>> \o pool[c] /\ runqueue' = runqueue
  BY DEF Return, groupVars, IInv, TypeOK, QueuesType
<1>6. Hand(c)' = Hand(c) \ {proc[c]}
  BY <1>1, NoneAssumption DEF Hand, Requeued, Return, Goto, IInv, TypeOK, ControlType, HandType
<1> QED
  BY <1>1, <1>2, <1>4, <1>5, <1>6

(* The end of another operation moves nothing.                             *)
LEMMA ReturnKeeps ==
  ASSUME IInv, HandOK, NEW c \in Cores, Core(c), Return(c), op[c] # "yield"
  PROVE  Hand(c)' = Hand(c) /\ runqueue' = runqueue /\ pool' = pool
<1>a. CoreHandOK(c)
  BY DEF HandOK
<1>1. proc[c] = None /\ pc[c] = "return"
  BY <1>a DEF Return, CoreHandOK, CollapseLabels, IdleLabels, IInv, TypeOK, ControlType
<1>2. runqueue' = runqueue /\ pool' = pool
  BY DEF Return, groupVars, IInv, TypeOK, QueuesType
<1>3. Hand(c)' = Hand(c)
  BY <1>1 DEF Hand, Requeued, Return, Goto, IInv, TypeOK, ControlType, HandType
<1> QED
  BY <1>2, <1>3

LEMMA OwnedStep ==
  ASSUME IInv, HandOK, ListsOK, Owned, NEW c \in Cores, Core(c)
  PROVE  Owned' /\ ListsOK'
<1>o. \A d \in Cores \ {c} : Hand(d)' = Hand(d) /\ SetOf(pool'[d]) = SetOf(pool[d])
                              /\ pool'[d] = pool[d]
  BY OthersHands, OthersKeep DEF IInv, SetOf
<1>q. \A p \in Procs : /\ QueuesOf(p)' = {g \in Groups : p \in SetOf(runqueue'[g])}
                       /\ HandsOf(p)' = {d \in Cores : p \in Hand(d)'}
                       /\ PoolsOf(p)' = {d \in Cores : p \in SetOf(pool'[d])}
  BY DEF QueuesOf, HandsOf, PoolsOf, SetOf
<1>l. ListsOK' <=> /\ \A g \in Groups : /\ Distinct(runqueue'[g])
                                        /\ \A p \in SetOf(runqueue'[g]) : GroupOf[p] = g
                   /\ \A d \in Cores : Distinct(pool'[d])
  BY DEF ListsOK, Distinct, SetOf
<1>0. ASSUME Hand(c)' = Hand(c), runqueue' = runqueue, pool' = pool
      PROVE  Owned' /\ ListsOK'
  <2>1. \A p \in Procs : /\ QueuesOf(p)' = QueuesOf(p) /\ HandsOf(p)' = HandsOf(p)
                         /\ PoolsOf(p)' = PoolsOf(p)
    BY <1>0, <1>o, <1>q DEF QueuesOf, HandsOf, PoolsOf
  <2> QED
    BY <1>0, <1>l, <2>1 DEF Owned, OneOf, Single, ListsOK
<1>1. CASE EnqueueProc(c)
  <2>1. PICK q \in Procs, g \in Groups :
           /\ q = proc[c] /\ g = grp[c] /\ g = GroupOf[q] /\ q \in Hand(c)
           /\ Hand(c)' = Hand(c) \ {q}
           /\ runqueue' = [runqueue EXCEPT ![g] = <<q>> \o @]
           /\ SetOf(runqueue'[g]) = SetOf(runqueue[g]) \cup {q}
           /\ Distinct(runqueue'[g]) /\ pool' = pool
    BY <1>1, EnqueueMoves
  <2>2. \A h \in Groups \ {g} : runqueue'[h] = runqueue[h]
    BY <2>1 DEF IInv, TypeOK, QueuesType
  <2>3. QueuesOf(q) = {} /\ HandsOf(q) = {c} /\ PoolsOf(q) = {}
    BY <2>1, HeldOnly
  <2>4. QueuesOf(q)' = {g} /\ HandsOf(q)' = {} /\ PoolsOf(q)' = {}
    <3>1. QueuesOf(q)' = {g}
      BY <1>o, <1>q, <2>1, <2>2, <2>3 DEF QueuesOf
    <3>2. HandsOf(q)' = {}
      BY <1>o, <1>q, <2>1, <2>2, <2>3 DEF HandsOf
    <3>3. PoolsOf(q)' = {}
      BY <1>o, <1>q, <2>1, <2>2, <2>3 DEF PoolsOf
    <3> QED
      BY <3>1, <3>2, <3>3
  <2>5. \A p \in Procs \ {q} : /\ QueuesOf(p)' = QueuesOf(p) /\ HandsOf(p)' = HandsOf(p)
                               /\ PoolsOf(p)' = PoolsOf(p)
    BY <1>o, <1>q, <2>1, <2>2 DEF QueuesOf, HandsOf, PoolsOf
  <2>6. Owned'
    <3>1. OneOf(QueuesOf(q)', HandsOf(q)', PoolsOf(q)')
      BY <2>4 DEF OneOf, Single
    <3> QED
      BY <2>1, <2>5, <3>1, OwnMoves
  <2>7. ListsOK'
    BY <1>l, <2>1, <2>2 DEF ListsOK
  <2> QED
    BY <2>6, <2>7
<1>2. CASE Dequeue(c)
  <2>1. PICK q \in Procs, g \in Groups :
           /\ q \in SetOf(runqueue[g]) /\ Hand(c)' = Hand(c) \cup {q}
           /\ SetOf(runqueue'[g]) = SetOf(runqueue[g]) \ {q}
           /\ Distinct(runqueue'[g]) /\ pool' = pool
           /\ \A h \in Groups \ {g} : runqueue'[h] = runqueue[h]
    BY <1>2, DequeueMoves DEF IInv, TypeOK, QueuesType
  <2>2. \A h \in Groups \ {g} : SetOf(runqueue'[h]) = SetOf(runqueue[h])
    BY <2>1
  <2>3. QueuesOf(q) = {g} /\ HandsOf(q) = {} /\ PoolsOf(q) = {}
    BY <2>1, QueuedOnly
  <2>4. QueuesOf(q)' = {} /\ HandsOf(q)' = {c} /\ PoolsOf(q)' = {}
    <3>1. QueuesOf(q)' = {}
      BY <1>o, <1>q, <2>1, <2>2, <2>3 DEF QueuesOf
    <3>2. HandsOf(q)' = {c}
      BY <1>o, <1>q, <2>1, <2>2, <2>3 DEF HandsOf
    <3>3. PoolsOf(q)' = {}
      BY <1>o, <1>q, <2>1, <2>2, <2>3 DEF PoolsOf
    <3> QED
      BY <3>1, <3>2, <3>3
  <2>5. \A p \in Procs \ {q} : /\ QueuesOf(p)' = QueuesOf(p) /\ HandsOf(p)' = HandsOf(p)
                               /\ PoolsOf(p)' = PoolsOf(p)
    BY <1>o, <1>q, <2>1, <2>2 DEF QueuesOf, HandsOf, PoolsOf
  <2>6. Owned'
    <3>1. OneOf(QueuesOf(q)', HandsOf(q)', PoolsOf(q)')
      BY <2>4 DEF OneOf, Single
    <3> QED
      BY <2>1, <2>5, <3>1, OwnMoves
  <2>7. ListsOK'
    BY <1>l, <2>1, <2>2 DEF ListsOK
  <2> QED
    BY <2>6, <2>7
<1>3. CASE TakeFromPool(c)
  <2>1. PICK q \in Procs :
           /\ q = Head(pool[c]) /\ q \in SetOf(pool[c])
           /\ Hand(c)' = Hand(c) \cup {q}
           /\ SetOf(pool'[c]) = SetOf(pool[c]) \ {q}
           /\ Distinct(pool'[c]) /\ runqueue' = runqueue
    BY <1>3, TakeFromPoolMoves
  <2>2. QueuesOf(q) = {} /\ HandsOf(q) = {} /\ PoolsOf(q) = {c}
    BY <2>1, PooledOnly
  <2>3. QueuesOf(q)' = {} /\ HandsOf(q)' = {c} /\ PoolsOf(q)' = {}
    <3>1. QueuesOf(q)' = {}
      BY <1>o, <1>q, <2>1, <2>2 DEF QueuesOf
    <3>2. HandsOf(q)' = {c}
      BY <1>o, <1>q, <2>1, <2>2 DEF HandsOf
    <3>3. PoolsOf(q)' = {}
      BY <1>o, <1>q, <2>1, <2>2 DEF PoolsOf
    <3> QED
      BY <3>1, <3>2, <3>3
  <2>4. \A p \in Procs \ {q} : /\ QueuesOf(p)' = QueuesOf(p) /\ HandsOf(p)' = HandsOf(p)
                               /\ PoolsOf(p)' = PoolsOf(p)
    BY <1>o, <1>q, <2>1 DEF QueuesOf, HandsOf, PoolsOf
  <2>5. Owned'
    <3>1. OneOf(QueuesOf(q)', HandsOf(q)', PoolsOf(q)')
      BY <2>3 DEF OneOf, Single
    <3> QED
      BY <2>1, <2>4, <3>1, OwnMoves
  <2>6. ListsOK'
    BY <1>l, <1>o, <2>1 DEF ListsOK
  <2> QED
    BY <2>5, <2>6
<1>4. CASE Return(c) /\ op[c] = "yield"
  <2>1. PICK q \in Procs :
           /\ q = proc[c] /\ q \in Hand(c)
           /\ Hand(c)' = Hand(c) \ {q}
           /\ SetOf(pool'[c]) = SetOf(pool[c]) \cup {q}
           /\ Distinct(pool'[c]) /\ runqueue' = runqueue
    BY <1>4, ReturnMoves
  <2>2. QueuesOf(q) = {} /\ HandsOf(q) = {c} /\ PoolsOf(q) = {}
    BY <2>1, HeldOnly
  <2>3. QueuesOf(q)' = {} /\ HandsOf(q)' = {} /\ PoolsOf(q)' = {c}
    <3>1. QueuesOf(q)' = {}
      BY <1>o, <1>q, <2>1, <2>2 DEF QueuesOf
    <3>2. HandsOf(q)' = {}
      BY <1>o, <1>q, <2>1, <2>2 DEF HandsOf
    <3>3. PoolsOf(q)' = {c}
      BY <1>o, <1>q, <2>1, <2>2 DEF PoolsOf
    <3> QED
      BY <3>1, <3>2, <3>3
  <2>4. \A p \in Procs \ {q} : /\ QueuesOf(p)' = QueuesOf(p) /\ HandsOf(p)' = HandsOf(p)
                               /\ PoolsOf(p)' = PoolsOf(p)
    BY <1>o, <1>q, <2>1 DEF QueuesOf, HandsOf, PoolsOf
  <2>5. Owned'
    <3>1. OneOf(QueuesOf(q)', HandsOf(q)', PoolsOf(q)')
      BY <2>3 DEF OneOf, Single
    <3> QED
      BY <2>1, <2>4, <3>1, OwnMoves
  <2>6. ListsOK'
    BY <1>l, <1>o, <2>1 DEF ListsOK
  <2> QED
    BY <2>5, <2>6
<1>5. CASE Return(c) /\ op[c] # "yield"
  BY <1>0, <1>5, ReturnKeeps
<1>6. CASE ~Moves(c)
  BY <1>0, <1>6, QuietHands
<1> QED
  BY <1>1, <1>2, <1>3, <1>4, <1>5, <1>6 DEF Moves


-----------------------------------------------------------------------------
(* num_threads: the processes of a group that are not parked.              *)

LEMMA ParkedIsOwned ==
  ASSUME NEW c \in Cores
  PROVE  Parked(c) \subseteq SetOf(pool[c]) \cup Hand(c)
  BY DEF Parked, Hand, Requeued, Leaving

LEMMA OthersParked ==
  ASSUME IInv, NEW c \in Cores, Core(c), NEW d \in Cores \ {c}
  PROVE  Parked(d)' = Parked(d)
  BY OthersKeep DEF IInv, Parked, Leaving, SetOf

(* Who gives up and who comes back to the system.                          *)
LEMMA ParkStep ==
  ASSUME IInv, HandOK, Owned, NEW c \in Cores, Core(c), DecNThread(c)
  PROVE  LET q == proc[c]
             g == grp[c]
         IN  /\ q \in Procs /\ g \in Groups /\ g = GroupOf[q]
             /\ q \in Hand(c) /\ \A d \in Cores : q \notin Parked(d)
             /\ Parked(c)' = Parked(c) \cup {q}
             /\ num_threads' = [num_threads EXCEPT ![g] = @ - 1]
<1>a. CoreHandOK(c)
  BY DEF HandOK
<1>1. /\ pc[c] = "dec" /\ op[c] = "yield" /\ proc[c] \in Procs /\ grp[c] \in Groups
      /\ grp[c] = GroupOf[proc[c]]
  BY <1>a DEF DecNThread, CoreHandOK, HoldLabels, IInv, LocalOK
<1>2. proc[c] \in Hand(c)
  BY <1>1, NoneAssumption DEF Hand, Requeued
<1>3. HandsOf(proc[c]) = {c} /\ PoolsOf(proc[c]) = {}
  BY <1>1, <1>2, HeldOnly
<1>4. \A d \in Cores : proc[c] \notin SetOf(pool[d])
  BY <1>3 DEF PoolsOf
<1>5. \A d \in Cores \ {c} : proc[c] \notin Hand(d)
  BY <1>3 DEF HandsOf
<1>6. proc[c] \notin Parked(c)
  BY <1>1, <1>4 DEF Parked, Leaving
<1>7. \A d \in Cores : proc[c] \notin Parked(d)
  BY <1>4, <1>5, <1>6, ParkedIsOwned
<1>8. /\ pool' = pool /\ op'[c] = "yield" /\ proc'[c] = proc[c] /\ pc'[c] = "weight"
      /\ num_threads' = [num_threads EXCEPT ![grp[c]] = @ - 1]
  BY <1>1 DEF DecNThread, Goto, coreVars, localVars, IInv, TypeOK, ControlType
<1>9. Parked(c)' = Parked(c) \cup {proc[c]}
  BY <1>1, <1>8, NoneAssumption DEF Parked, Leaving, SetOf
<1> QED
  BY <1>1, <1>2, <1>7, <1>8, <1>9

LEMMA UnparkStep ==
  ASSUME IInv, HandOK, ListsOK, Owned, NEW c \in Cores, Core(c), EnqueueProc(c), op[c] = "enq"
  PROVE  LET q == proc[c]
             g == grp[c]
         IN  /\ q \in Parked(c) /\ \A d \in Cores \ {c} : q \notin Parked(d)
             /\ Parked(c)' = Parked(c) \ {q}
             /\ num_threads' = [num_threads EXCEPT ![g] = @ + 1]
<1>1. proc[c] \in Procs /\ proc[c] \in Hand(c) /\ pool' = pool
  BY EnqueueMoves
<1>2. HandsOf(proc[c]) = {c} /\ PoolsOf(proc[c]) = {}
  BY <1>1, HeldOnly
<1>3. \A d \in Cores : proc[c] \notin SetOf(pool[d])
  BY <1>2 DEF PoolsOf
<1>4. \A d \in Cores \ {c} : proc[c] \notin Hand(d)
  BY <1>2 DEF HandsOf
<1>5. \A d \in Cores \ {c} : proc[c] \notin Parked(d)
  BY <1>3, <1>4, ParkedIsOwned
<1>6. /\ proc'[c] = None /\ op'[c] = op[c]
      /\ num_threads' = [num_threads EXCEPT ![grp[c]] = @ + 1]
  BY DEF EnqueueProc, EnqueueWith, localVars, IInv, TypeOK, HandType
<1>7. Parked(c) = SetOf(pool[c]) \cup {proc[c]} /\ Parked(c)' = SetOf(pool[c])
  BY <1>1, <1>6, NoneAssumption DEF Parked, SetOf
<1> QED
  BY <1>3, <1>5, <1>6, <1>7

LEMMA PreemptStep ==
  ASSUME IInv, HandOK, ListsOK, Owned, NEW c \in Cores, Core(c), EnqueueProc(c), op[c] # "enq"
  PROVE  op[c] = "sched" /\ Parked(c)' = Parked(c) /\ num_threads' = num_threads
<1>a. CoreHandOK(c)
  BY DEF HandOK
<1>1. op[c] = "sched"
  BY <1>a DEF CoreHandOK, EnqueueProc, EnqueueWith, EnqueueLabels, IdleLabels, IInv, TypeOK,
     ControlType
<1>2. /\ op' = op /\ pool' = pool /\ grp[c] \in Groups
      /\ num_threads' = [num_threads EXCEPT ![grp[c]] = @ + 0]
  BY <1>1 DEF EnqueueProc, EnqueueWith, coreVars, localVars, IInv, LocalOK, EnqueueLabels
<1>3. num_threads' = num_threads
  BY <1>2 DEF IInv, TypeOK, CountsType
<1>4. Parked(c)' = Parked(c)
  BY <1>1, <1>2 DEF Parked, Leaving, SetOf
<1> QED
  BY <1>1, <1>3, <1>4

(* Every other action leaves them as they are.                             *)
LEMMA QuietParked ==
  ASSUME IInv, HandOK, ListsOK, Owned, NEW c \in Cores, Core(c), ~DecNThread(c), ~EnqueueProc(c)
  PROVE  Parked(c)' = Parked(c) /\ num_threads' = num_threads
<1>n. num_threads' = num_threads
  BY DEF Core, StartTick, Exit, RunOn, TakeFromPool, StartYield, Return,
     GetWeight, CollapseSvt, ReadIndex, LockFix, SiftDownStep, SiftUpStep, MoveTo,
     SetSvt, LockAvg, SumGroup, UnlockAvg, PeekMin, PeekWith, LockPick, TakeThread,
     Dequeue, DequeueWith, SetLag, groupVars
<1> SUFFICES Parked(c)' = Parked(c)
  BY <1>n
<1>a. CoreHandOK(c)
  BY DEF HandOK
<1>1. CASE TakeFromPool(c)
  <2>1. Head(pool[c]) \in Procs /\ Head(pool[c]) \in SetOf(pool[c])
        /\ SetOf(pool'[c]) = SetOf(pool[c]) \ {Head(pool[c])}
    BY <1>1, TakeFromPoolMoves
  <2>2. op[c] = "none" /\ op'[c] = "enq" /\ proc'[c] = Head(pool[c])
    BY <1>1, <1>a DEF TakeFromPool, CoreHandOK, IdleLabels, IInv, TypeOK, ControlType, HandType
  <2>3. Parked(c) = SetOf(pool[c])
    BY <2>2 DEF Parked, Leaving
  <2>4. Parked(c)' = SetOf(pool'[c]) \cup {Head(pool[c])}
    BY <2>1, <2>2, NoneAssumption DEF Parked, SetOf
  <2> QED
    BY <2>1, <2>3, <2>4
<1>2. CASE Return(c)
  <2>1. op'[c] = "none" /\ pc[c] = "return"
    BY <1>2 DEF Return, IInv, TypeOK, ControlType
  <2>2. Parked(c)' = SetOf(pool'[c])
    BY <2>1 DEF Parked, Leaving, SetOf
  <2>3. CASE op[c] = "yield"
    <3>1. proc[c] \in Procs /\ SetOf(pool'[c]) = SetOf(pool[c]) \cup {proc[c]}
      BY <1>2, <2>3, ReturnMoves
    <3> QED
      BY <2>1, <2>2, <2>3, <3>1, NoneAssumption DEF Parked, Leaving
  <2>4. CASE op[c] # "yield"
    <3>1. pool' = pool
      BY <1>2, <2>4, ReturnKeeps
    <3>2. op[c] = "enq" => proc[c] = None
      BY <1>a, <2>1 DEF CoreHandOK
    <3> QED
      BY <2>2, <2>4, <3>1, <3>2 DEF Parked, Leaving
  <2> QED
    BY <2>3, <2>4
<1> USE <1>a DEF CoreHandOK, IInv, TypeOK, ControlType, HandType, IdleLabels,
    HoldLabels, CollapseLabels, EnqueueLabels, Parked, Leaving, SetOf, Goto, coreVars, localVars
<1>3. CASE StartTick(c)
  BY <1>3 DEF StartTick
<1>4. CASE Exit(c)
  BY <1>4 DEF Exit
<1>5. CASE RunOn(c)
  BY <1>5 DEF RunOn
<1>6. CASE StartYield(c)
  BY <1>6 DEF StartYield
<1>7. CASE GetWeight(c)
  BY <1>7 DEF GetWeight, AfterCollapse
<1>8. CASE CollapseSvt(c)
  BY <1>8 DEF CollapseSvt
<1>9. CASE ReadIndex(c)
  BY <1>9 DEF ReadIndex, AfterCollapse
<1>10. CASE LockFix(c)
  BY <1>10 DEF LockFix
<1>11. CASE SiftDownStep(c)
  BY <1>11 DEF SiftDownStep, MoveTo
<1>12. CASE SiftUpStep(c)
  BY <1>12 DEF SiftUpStep, MoveTo, AfterCollapse
<1>13. CASE SetSvt(c)
  BY <1>13 DEF SetSvt, AfterEnqueue
<1>14. CASE LockAvg(c)
  BY <1>14 DEF LockAvg
<1>15. CASE SumGroup(c)
  BY <1>15 DEF SumGroup
<1>16. CASE UnlockAvg(c)
  BY <1>16 DEF UnlockAvg
<1>17. CASE PeekMin(c)
  BY <1>17 DEF PeekMin, PeekWith
<1>18. CASE LockPick(c)
  BY <1>18 DEF LockPick
<1>19. CASE TakeThread(c)
  BY <1>19 DEF TakeThread
<1>20. CASE SetLag(c)
  BY <1>20 DEF SetLag
<1>21. CASE Dequeue(c)
  BY <1>21 DEF Dequeue, DequeueWith
<1> QED
  BY <1>1, <1>2, <1>3, <1>4, <1>5, <1>6, <1>7, <1>8, <1>9, <1>10, <1>11, <1>12,
     <1>13, <1>14, <1>15, <1>16, <1>17, <1>18, <1>19, <1>20, <1>21
     DEF Core

(* A group has finitely many processes: main puts them all in one queue.   *)
LEMMA GroupIsFinite ==
  ASSUME NEW g \in Groups
  PROVE  /\ IsFiniteSet({p \in Procs : GroupOf[p] = g})
         /\ Cardinality({p \in Procs : GroupOf[p] = g}) = Len(InitQueue[g])
<1>1. InitQueue[g] \in Seq(Procs) /\ Distinct(InitQueue[g])
  BY InitQueueAssumption DEF Distinct
<1>2. \A x \in SetOf(InitQueue[g]) : x \in Procs /\ GroupOf[x] = g
  BY <1>1, ElementOfSeq, InitQueueAssumption DEF SetOf
<1>3. \A p \in Procs : GroupOf[p] = g => p \in SetOf(InitQueue[g])
  BY InitQueueAssumption DEF SetOf
<1>4. SetOf(InitQueue[g]) = {p \in Procs : GroupOf[p] = g}
  BY <1>2, <1>3
<1> QED
  BY <1>1, <1>4, CountList

LEMMA MembersFinite == \A g \in Groups : IsFiniteSet(Members(g))
<1> TAKE g \in Groups
<1>1. Members(g) \in SUBSET {p \in Procs : GroupOf[p] = g}
  BY DEF Members
<1> QED
  BY <1>1, GroupIsFinite, FS_Subset

LEMMA MembersStep ==
  ASSUME IInv, HandOK, ListsOK, Owned, MembersCounted, NEW c \in Cores, Core(c)
  PROVE  MembersCounted'
<1>o. \A d \in Cores \ {c} : Parked(d)' = Parked(d)
  BY OthersParked
<1>m. \A g \in Groups :
        Members(g)' = {p \in Procs : GroupOf[p] = g /\ \A d \in Cores : p \notin Parked(d)'}
  BY DEF Members
<1>n. \A g \in Groups : num_threads[g] \in Int
  BY DEF IInv, TypeOK, CountsType
<1>1. CASE DecNThread(c)
  <2>1. PICK q \in Procs, g \in Groups :
          /\ g = GroupOf[q] /\ \A d \in Cores : q \notin Parked(d)
          /\ Parked(c)' = Parked(c) \cup {q}
          /\ num_threads' = [num_threads EXCEPT ![g] = @ - 1]
    BY <1>1, ParkStep
  <2>2. q \in Members(g) /\ Members(g)' = Members(g) \ {q}
    BY <1>o, <1>m, <2>1 DEF Members
  <2>3. \A h \in Groups \ {g} : Members(h)' = Members(h)
    BY <1>o, <1>m, <2>1 DEF Members
  <2>4. Cardinality(Members(g) \ {q}) = Cardinality(Members(g)) - 1
    BY <2>2, MembersFinite, FS_RemoveElement
  <2>5. num_threads'[g] = num_threads[g] - 1 /\ \A h \in Groups \ {g} : num_threads'[h] = num_threads[h]
    BY <2>1 DEF IInv, TypeOK, CountsType
  <2>6. num_threads'[g] = Cardinality(Members(g)')
    BY <2>2, <2>4, <2>5 DEF MembersCounted
  <2>7. \A h \in Groups \ {g} : num_threads'[h] = Cardinality(Members(h)')
    BY <2>3, <2>5 DEF MembersCounted
  <2>8. \A h \in Groups : num_threads'[h] = Cardinality(Members(h)')
    BY <2>6, <2>7
  <2> QED
    BY <2>8 DEF MembersCounted
<1>2. CASE EnqueueProc(c) /\ op[c] = "enq"
  <2>1. PICK q \in Procs, g \in Groups :
          /\ g = GroupOf[q] /\ q \in Parked(c) /\ \A d \in Cores \ {c} : q \notin Parked(d)
          /\ Parked(c)' = Parked(c) \ {q}
          /\ num_threads' = [num_threads EXCEPT ![g] = @ + 1]
    BY <1>2, UnparkStep, EnqueueMoves
  <2>2. q \notin Members(g) /\ Members(g)' = Members(g) \cup {q}
    BY <1>o, <1>m, <2>1 DEF Members
  <2>3. \A h \in Groups \ {g} : Members(h)' = Members(h)
    BY <1>o, <1>m, <2>1 DEF Members
  <2>4. Cardinality(Members(g) \cup {q}) = Cardinality(Members(g)) + 1
    BY <2>2, MembersFinite, FS_AddElement
  <2>5. num_threads'[g] = num_threads[g] + 1 /\ \A h \in Groups \ {g} : num_threads'[h] = num_threads[h]
    BY <2>1 DEF IInv, TypeOK, CountsType
  <2>6. num_threads'[g] = Cardinality(Members(g)')
    BY <2>2, <2>4, <2>5 DEF MembersCounted
  <2>7. \A h \in Groups \ {g} : num_threads'[h] = Cardinality(Members(h)')
    BY <2>3, <2>5 DEF MembersCounted
  <2>8. \A h \in Groups : num_threads'[h] = Cardinality(Members(h)')
    BY <2>6, <2>7
  <2> QED
    BY <2>8 DEF MembersCounted
<1>3. ASSUME Parked(c)' = Parked(c), num_threads' = num_threads
      PROVE  MembersCounted'
  <2>1. \A g \in Groups : Members(g)' = Members(g)
    BY <1>o, <1>m, <1>3 DEF Members
  <2>2. \A g \in Groups : num_threads'[g] = Cardinality(Members(g)')
    BY <1>3, <2>1 DEF MembersCounted
  <2> QED
    BY <2>2 DEF MembersCounted
<1>4. CASE EnqueueProc(c) /\ op[c] # "enq"
  BY <1>3, <1>4, PreemptStep
<1>5. CASE ~DecNThread(c) /\ ~EnqueueProc(c)
  BY <1>3, <1>5, QuietParked
<1> QED
  BY <1>1, <1>2, <1>4, <1>5

-----------------------------------------------------------------------------
(* The invariant.                                                          *)

LEMMA OwnInit == Init => OwnInv
<1> SUFFICES ASSUME Init PROVE OwnInv
  OBVIOUS
<1>1. IInv
  BY InitInv
<1>2. HandOK
  BY NoneAssumption DEF Init, HandOK, CoreHandOK, IdleLabels, HoldLabels, CollapseLabels
<1>3. ListsOK
  <2>1. \A c \in Cores : Distinct(pool[c])
    BY SetOfEmpty DEF Init
  <2> QED
    BY <2>1, InitQueueAssumption DEF Init, ListsOK, Distinct, SetOf
<1>4. Owned
  <2> SUFFICES ASSUME NEW p \in Procs PROVE OneOf(QueuesOf(p), HandsOf(p), PoolsOf(p))
    BY DEF Owned
  <2>1. QueuesOf(p) = {GroupOf[p]}
    <3>1. p \in SetOf(runqueue[GroupOf[p]]) /\ GroupOf[p] \in Groups
      <4>1. GroupOf[p] \in Groups
        BY GroupOfAssumption
      <4>2. PICK i \in 1 .. Len(InitQueue[GroupOf[p]]) : InitQueue[GroupOf[p]][i] = p
        BY InitQueueAssumption
      <4>3. runqueue = InitQueue
        BY DEF Init
      <4> QED
        BY <4>1, <4>2, <4>3 DEF SetOf
    <3>2. \A g \in Groups : p \in SetOf(runqueue[g]) => g = GroupOf[p]
      BY <1>3 DEF ListsOK
    <3> QED
      BY <3>1, <3>2 DEF QueuesOf
  <2>2. HandsOf(p) = {}
    BY DEF Init, HandsOf, Hand
  <2>3. PoolsOf(p) = {}
    BY SetOfEmpty DEF Init, PoolsOf
  <2> QED
    BY <2>1, <2>2, <2>3 DEF OneOf, Single
<1>5. MembersCounted
  <2> SUFFICES ASSUME NEW g \in Groups PROVE num_threads[g] = Cardinality(Members(g))
    BY DEF MembersCounted
  <2>1. \A c \in Cores : Parked(c) = {}
    BY SetOfEmpty DEF Init, Parked, Leaving
  <2>2. Members(g) = {p \in Procs : GroupOf[p] = g}
    BY <2>1 DEF Members
  <2> QED
    BY <2>2, GroupIsFinite DEF Init
<1> QED
  BY <1>1, <1>2, <1>3, <1>4, <1>5 DEF OwnInv

LEMMA OwnStep == OwnInv /\ [Next]_vars => OwnInv'
<1> SUFFICES ASSUME OwnInv, [Next]_vars PROVE OwnInv'
  OBVIOUS
<1>1. IInv'
  BY StepInv DEF OwnInv
<1>2. ASSUME NEW c \in Cores, Core(c)
      PROVE  HandOK' /\ ListsOK' /\ Owned' /\ MembersCounted'
  BY <1>2, HandStep, OwnedStep, MembersStep DEF OwnInv
<1>3. ASSUME UNCHANGED vars
      PROVE  HandOK' /\ ListsOK' /\ Owned' /\ MembersCounted'
  <2>1. UNCHANGED <<runqueue, pool, num_threads, current_process, proc, op, pc, grp>>
    BY <1>3 DEF vars, groupVars, coreVars, localVars
  <2>2. HandOK' /\ ListsOK'
    BY <2>1 DEF OwnInv, HandOK, CoreHandOK, ListsOK, Distinct, SetOf
  <2>3. \A p \in Procs : /\ QueuesOf(p)' = QueuesOf(p) /\ HandsOf(p)' = HandsOf(p)
                         /\ PoolsOf(p)' = PoolsOf(p)
    BY <2>1 DEF QueuesOf, HandsOf, PoolsOf, SetOf, Hand, Requeued
  <2>4. Owned'
    BY <2>3 DEF OwnInv, Owned, OneOf, Single
  <2>5. \A g \in Groups : Members(g)' = Members(g)
    BY <2>1 DEF Members, Parked, Leaving, SetOf
  <2>6. \A g \in Groups : num_threads'[g] = Cardinality(Members(g)')
    BY <2>1, <2>5 DEF OwnInv, MembersCounted
  <2> QED
    BY <2>2, <2>4, <2>6 DEF MembersCounted
<1>4. HandOK' /\ ListsOK' /\ Owned' /\ MembersCounted'
  BY <1>2, <1>3 DEF Next, Terminating
<1> QED
  BY <1>1, <1>4 DEF OwnInv

LEMMA OwnInvariance == Spec => []OwnInv
  BY OwnInit, OwnStep, PTL DEF Spec

(* Every process is in exactly one place, on a queue of its own group, in  *)
(* one core's hands or in one pool, at every step of every core: no two    *)
(* lists share a process through its next field, no two cores run it, and  *)
(* none is lost.                                                           *)
THEOREM OneOwnerEach == Spec => []OneOwner
<1>1. OwnInv => OneOwner
  <2> SUFFICES ASSUME OwnInv, NEW p \in Procs
               PROVE
      LET queues == {g \in Groups : Occurrences(runqueue[g], p) > 0}
          hands == {c \in Cores : p \in Hand(c)}
          pools == {c \in Cores : Occurrences(pool[c], p) > 0}
      IN  /\ Cardinality(queues) + Cardinality(hands) + Cardinality(pools) = 1
          /\ \A g \in queues : g = GroupOf[p] /\ Occurrences(runqueue[g], p) = 1
          /\ \A c \in pools : Occurrences(pool[c], p) = 1
    BY DEF OneOwner
  <2>1. \A g \in Groups : /\ Occurrences(runqueue[g], p) > 0 <=> p \in SetOf(runqueue[g])
                          /\ p \in SetOf(runqueue[g]) => Occurrences(runqueue[g], p) = 1
    BY OccursInList DEF OwnInv, IInv, TypeOK, QueuesType, ListsOK
  <2>2. \A c \in Cores : /\ Occurrences(pool[c], p) > 0 <=> p \in SetOf(pool[c])
                         /\ p \in SetOf(pool[c]) => Occurrences(pool[c], p) = 1
    BY OccursInList DEF OwnInv, IInv, TypeOK, QueuesType, ListsOK
  <2>3. /\ {g \in Groups : Occurrences(runqueue[g], p) > 0} = QueuesOf(p)
        /\ {c \in Cores : p \in Hand(c)} = HandsOf(p)
        /\ {c \in Cores : Occurrences(pool[c], p) > 0} = PoolsOf(p)
    BY <2>1, <2>2 DEF QueuesOf, HandsOf, PoolsOf
  <2>4. \A S : S = {} => Cardinality(S) = 0
    BY FS_EmptySet
  <2>5. \A S : Single(S) => Cardinality(S) = 1
    BY FS_Singleton DEF Single
  <2>6. OneOf(QueuesOf(p), HandsOf(p), PoolsOf(p))
    BY DEF OwnInv, Owned
  <2>7. Cardinality(QueuesOf(p)) + Cardinality(HandsOf(p)) + Cardinality(PoolsOf(p)) = 1
    BY <2>4, <2>5, <2>6 DEF OneOf
  <2>8. \A g \in QueuesOf(p) : g = GroupOf[p] /\ Occurrences(runqueue[g], p) = 1
    BY <2>1 DEF QueuesOf, OwnInv, ListsOK
  <2>9. \A c \in PoolsOf(p) : Occurrences(pool[c], p) = 1
    BY <2>2 DEF PoolsOf
  <2> QED
    BY <2>3, <2>7, <2>8, <2>9
<1> QED
  BY <1>1, OwnInvariance, PTL

(* The assert of grp_dec_nthread (543) holds: the process that leaves is   *)
(* one of the members of its group and none of those queued.               *)
THEOREM LeaversAreCounted == Spec => []LeaverCounted
<1>1. OwnInv => LeaverCounted
  <2> SUFFICES ASSUME OwnInv, NEW c \in Cores, pc[c] = "dec"
               PROVE  num_threads[grp[c]] - 1 >= threads_queued[grp[c]]
    BY DEF LeaverCounted
  <2> USE DEF OwnInv
  <2> DEFINE q == proc[c]
             g == grp[c]
  <2>1. q \in Procs /\ g \in Groups /\ g = GroupOf[q] /\ op[c] = "yield"
    BY DEF IInv, LocalOK, HandOK, CoreHandOK, HoldLabels
  <2>2. q \in Hand(c)
    BY <2>1, NoneAssumption DEF Hand, Requeued
  <2>3. QueuesOf(q) = {} /\ HandsOf(q) = {c} /\ PoolsOf(q) = {}
    BY <2>1, <2>2, HeldOnly
  <2>4. \A d \in Cores : q \notin Parked(d)
    <3>1. \A d \in Cores : q \notin SetOf(pool[d])
      BY <2>3 DEF PoolsOf
    <3>2. \A d \in Cores \ {c} : q \notin Hand(d)
      BY <2>3 DEF HandsOf
    <3>3. q \notin Parked(c)
      BY <2>1, <3>1 DEF Parked, Leaving
    <3> QED
      BY <3>1, <3>2, <3>3, ParkedIsOwned
  <2>5. q \in Members(g) \ SetOf(runqueue[g])
    BY <2>1, <2>3, <2>4 DEF Members, QueuesOf
  <2>6. SetOf(runqueue[g]) \subseteq Members(g)
    <3> SUFFICES ASSUME NEW p \in SetOf(runqueue[g]) PROVE p \in Members(g)
      OBVIOUS
    <3>1. p \in Procs /\ GroupOf[p] = g
      BY <2>1, ElementOfSeq DEF SetOf, ListsOK, IInv, TypeOK, QueuesType
    <3>2. HandsOf(p) = {} /\ PoolsOf(p) = {}
      BY <2>1, <3>1, QueuedOnly
    <3>3. \A d \in Cores : p \notin SetOf(pool[d]) \cup Hand(d)
      BY <3>2 DEF HandsOf, PoolsOf
    <3> QED
      BY <3>1, <3>3, ParkedIsOwned DEF Members
  <2>7. /\ IsFiniteSet(SetOf(runqueue[g]))
        /\ Cardinality(SetOf(runqueue[g])) = Len(runqueue[g])
    BY <2>1, CountList DEF ListsOK, IInv, TypeOK, QueuesType
  <2>8. Cardinality(SetOf(runqueue[g]) \cup {q}) = Len(runqueue[g]) + 1
    BY <2>5, <2>7, FS_AddElement
  <2>9. Cardinality(SetOf(runqueue[g]) \cup {q}) <= Cardinality(Members(g))
    BY <2>1, <2>5, <2>6, MembersFinite, FS_Subset
  <2>10. num_threads[g] = Cardinality(Members(g)) /\ Cardinality(Members(g)) \in Nat
    BY <2>1, MembersFinite, FS_CardinalityType DEF MembersCounted
  <2>11. Len(runqueue[g]) \in Nat /\ threads_queued[g] \in Nat /\ Len(runqueue[g]) >= threads_queued[g]
    <3>1. Len(runqueue[g]) \in Nat /\ threads_queued[g] \in Nat
      BY <2>1, LenProperties DEF IInv, TypeOK, CountsType, QueuesType
    <3>2. \/ Len(runqueue[g]) = threads_queued[g] + 0
          \/ Len(runqueue[g]) = threads_queued[g] + 1
      BY <2>1 DEF IInv, QueueCount
    <3> QED
      BY <3>1, <3>2
  <2> QED
    BY <2>8, <2>9, <2>10, <2>11
<1> QED
  BY <1>1, OwnInvariance, PTL


-----------------------------------------------------------------------------
(* The refinement of ProcLifecycle.  What its variables stand for:         *)
Queued == UNION {SetOf(runqueue[g]) : g \in Groups}
RunningOf(c) ==
  IF Requeued(c) \/ (Leaving(c) /\ current_process[c] = proc[c]) THEN None ELSE current_process[c]
RunningAll == [c \in Cores |-> RunningOf(c)]
ParkedAll == [c \in Cores |-> Parked(c)]

LEMMA OthersRun ==
  ASSUME IInv, NEW c \in Cores, Core(c), NEW d \in Cores \ {c}
  PROVE  RunningOf(d)' = RunningOf(d)
  BY OthersKeep DEF IInv, RunningOf, Requeued, Leaving

LEMMA QueuedIn ==
  ASSUME NEW p
  PROVE  /\ p \in Queued <=> \E g \in Groups : p \in SetOf(runqueue[g])
         /\ p \in Queued' <=> \E g \in Groups : p \in SetOf(runqueue'[g])
  BY DEF Queued, SetOf

(* Only the three steps that move a process on or off a core change what   *)
(* it runs.                                                                *)
LEMMA QuietRunning ==
  ASSUME IInv, HandOK, NEW c \in Cores, Core(c), ~DecNThread(c), ~EnqueueProc(c), ~Dequeue(c)
  PROVE  RunningOf(c)' = RunningOf(c) /\ runqueue' = runqueue
<1>r. runqueue' = runqueue
  BY DEF Core, StartTick, Exit, RunOn, TakeFromPool, StartYield, Return,
     GetWeight, CollapseSvt, ReadIndex, LockFix, SiftDownStep, SiftUpStep, MoveTo,
     SetSvt, LockAvg, SumGroup, UnlockAvg, PeekMin, PeekWith, LockPick, TakeThread,
     SetLag, groupVars
<1> SUFFICES RunningOf(c)' = RunningOf(c)
  BY <1>r
<1>a. CoreHandOK(c)
  BY DEF HandOK
<1> USE <1>a, NoneAssumption DEF CoreHandOK, IInv, TypeOK, ControlType, HandType, IdleLabels,
    HoldLabels, CollapseLabels, EnqueueLabels, RunningOf, Requeued, Leaving, Goto, coreVars,
    localVars
<1>1. CASE StartTick(c)
  BY <1>1 DEF StartTick
<1>2. CASE Exit(c)
  BY <1>2 DEF Exit
<1>3. CASE RunOn(c)
  BY <1>3 DEF RunOn
<1>4. CASE TakeFromPool(c)
  BY <1>4 DEF TakeFromPool
<1>5. CASE StartYield(c)
  BY <1>5 DEF StartYield
<1>6. CASE Return(c)
  BY <1>6 DEF Return
<1>7. CASE GetWeight(c)
  BY <1>7 DEF GetWeight, AfterCollapse
<1>8. CASE CollapseSvt(c)
  BY <1>8 DEF CollapseSvt
<1>9. CASE ReadIndex(c)
  BY <1>9 DEF ReadIndex, AfterCollapse
<1>10. CASE LockFix(c)
  BY <1>10 DEF LockFix
<1>11. CASE SiftDownStep(c)
  BY <1>11 DEF SiftDownStep, MoveTo
<1>12. CASE SiftUpStep(c)
  BY <1>12 DEF SiftUpStep, MoveTo, AfterCollapse
<1>13. CASE SetSvt(c)
  BY <1>13 DEF SetSvt, AfterEnqueue
<1>14. CASE LockAvg(c)
  BY <1>14 DEF LockAvg
<1>15. CASE SumGroup(c)
  BY <1>15 DEF SumGroup
<1>16. CASE UnlockAvg(c)
  BY <1>16 DEF UnlockAvg
<1>17. CASE PeekMin(c)
  BY <1>17 DEF PeekMin, PeekWith, LocalOK
<1>18. CASE LockPick(c)
  BY <1>18 DEF LockPick
<1>19. CASE TakeThread(c)
  BY <1>19 DEF TakeThread
<1>20. CASE SetLag(c)
  BY <1>20 DEF SetLag
<1> QED
  BY <1>1, <1>2, <1>3, <1>4, <1>5, <1>6, <1>7, <1>8, <1>9, <1>10, <1>11, <1>12,
     <1>13, <1>14, <1>15, <1>16, <1>17, <1>18, <1>19, <1>20
     DEF Core

LEMMA LifecycleInit == Init => Lifecycle!Init
<1> SUFFICES ASSUME Init PROVE Lifecycle!Init
  OBVIOUS
<1>1. Queued = Procs
  <2>1. \A p \in Procs : p \in Queued
    <3> SUFFICES ASSUME NEW p \in Procs PROVE \E g \in Groups : p \in SetOf(runqueue[g])
      BY QueuedIn
    <3>1. GroupOf[p] \in Groups
      BY GroupOfAssumption
    <3>2. PICK i \in 1 .. Len(InitQueue[GroupOf[p]]) : InitQueue[GroupOf[p]][i] = p
      BY InitQueueAssumption
    <3> QED
      BY <3>1, <3>2 DEF Init, SetOf
  <2>2. \A p \in Queued : p \in Procs
    <3> SUFFICES ASSUME NEW p \in Queued PROVE p \in Procs
      OBVIOUS
    <3>1. PICK g \in Groups : p \in SetOf(runqueue[g])
      BY QueuedIn
    <3>2. InitQueue[g] \in Seq(Procs)
      BY InitQueueAssumption
    <3>3. PICK i \in 1 .. Len(InitQueue[g]) : p = InitQueue[g][i]
      BY <3>1 DEF Init, SetOf
    <3> QED
      BY <3>2, <3>3, ElementOfSeq
  <2> QED
    BY <2>1, <2>2
<1>2. RunningAll = [c \in Cores |-> None]
  BY DEF Init, RunningAll, RunningOf
<1>3. ParkedAll = [c \in Cores |-> {}]
  BY SetOfEmpty DEF Init, ParkedAll, Parked, Leaving
<1>4. num_threads = [g \in Groups |-> Cardinality({p \in Procs : GroupOf[p] = g})]
  BY GroupIsFinite DEF Init
<1> QED
  BY <1>1, <1>2, <1>3, <1>4 DEF Lifecycle!Init, Queued, RunningAll, RunningOf, ParkedAll, Parked,
     Lifecycle!Cardinality, Lifecycle!IsFiniteSet, Cardinality, IsFiniteSet

(* One core's step changes its own entry alone, or none.                   *)
LEMMA RunningStep ==
  ASSUME IInv, NEW c \in Cores, Core(c), NEW r, RunningOf(c)' = r
  PROVE  RunningAll' = [RunningAll EXCEPT ![c] = r]
<1>1. \A d \in Cores \ {c} : RunningOf(d)' = RunningOf(d)
  BY OthersRun
<1> QED
  BY <1>1 DEF RunningAll

LEMMA ParkedStep ==
  ASSUME IInv, NEW c \in Cores, Core(c), NEW S, Parked(c)' = S
  PROVE  ParkedAll' = [ParkedAll EXCEPT ![c] = S]
<1>1. \A d \in Cores \ {c} : Parked(d)' = Parked(d)
  BY OthersParked
<1> QED
  BY <1>1 DEF ParkedAll

LEMMA RunningSame ==
  ASSUME IInv, NEW c \in Cores, Core(c), RunningOf(c)' = RunningOf(c)
  PROVE  RunningAll' = RunningAll
<1>1. RunningAll' = [RunningAll EXCEPT ![c] = RunningOf(c)]
  BY RunningStep
<1> QED
  BY <1>1 DEF RunningAll

LEMMA ParkedSame ==
  ASSUME IInv, NEW c \in Cores, Core(c), Parked(c)' = Parked(c)
  PROVE  ParkedAll' = ParkedAll
<1>1. ParkedAll' = [ParkedAll EXCEPT ![c] = Parked(c)]
  BY ParkedStep
<1> QED
  BY <1>1 DEF ParkedAll

(* The process enqueued joins those that wait; the one dequeued leaves.    *)
LEMMA QueuedGrows ==
  ASSUME IInv, HandOK, ListsOK, Owned, NEW c \in Cores, Core(c), EnqueueProc(c)
  PROVE  Queued' = Queued \cup {proc[c]}
<1>a. /\ proc[c] \in Procs /\ grp[c] \in Groups
      /\ runqueue' = [runqueue EXCEPT ![grp[c]] = <<proc[c]>> \o @]
      /\ SetOf(runqueue'[grp[c]]) = SetOf(runqueue[grp[c]]) \cup {proc[c]}
  BY EnqueueMoves
<1>b. PICK g : g = grp[c]
  OBVIOUS
<1>c. PICK q : q = proc[c]
  OBVIOUS
<1>1. /\ g \in Groups /\ q \in Procs
      /\ runqueue' = [runqueue EXCEPT ![g] = <<q>> \o @]
      /\ SetOf(runqueue'[g]) = SetOf(runqueue[g]) \cup {q}
  BY <1>a, <1>b, <1>c
<1>2. \A h \in Groups \ {g} : runqueue'[h] = runqueue[h]
  BY <1>1 DEF IInv, TypeOK, QueuesType
<1>3. \A p : p \in Queued' <=> p \in Queued \cup {q}
  BY <1>1, <1>2, QueuedIn
<1> QED
  BY <1>c, <1>3

LEMMA QueuedShrinks ==
  ASSUME IInv, HandOK, ListsOK, Owned, NEW c \in Cores, Core(c), Dequeue(c)
  PROVE  /\ Head(runqueue[grp[c]]) \in Queued
         /\ Queued' = Queued \ {Head(runqueue[grp[c]])}
<1>b. PICK g : g = grp[c]
  OBVIOUS
<1>c. PICK q : q = Head(runqueue[grp[c]])
  OBVIOUS
<1>a. /\ g \in Groups /\ Head(runqueue[g]) \in Procs
      /\ Head(runqueue[g]) \in SetOf(runqueue[g])
      /\ runqueue' = [runqueue EXCEPT ![g] = Tail(@)]
      /\ SetOf(runqueue'[g]) = SetOf(runqueue[g]) \ {Head(runqueue[g])}
  BY <1>b, DequeueMoves
<1>1. /\ g \in Groups /\ q \in Procs /\ q \in SetOf(runqueue[g])
      /\ runqueue' = [runqueue EXCEPT ![g] = Tail(@)]
      /\ SetOf(runqueue'[g]) = SetOf(runqueue[g]) \ {q}
  BY <1>a, <1>b, <1>c
<1>2. \A h \in Groups \ {g} : runqueue'[h] = runqueue[h] /\ q \notin SetOf(runqueue[h])
  BY <1>1, QueuedOnly DEF IInv, TypeOK, QueuesType, QueuesOf
<1>3. q \in Queued
  BY <1>1, QueuedIn
<1>4. \A p : p \in Queued' <=> p \in Queued \ {q}
  BY <1>1, <1>2, QueuedIn
<1> QED
  BY <1>c, <1>3, <1>4

(* yield's grp_dec_nthread parks the process of the core.                  *)
LEMMA LifecyclePark ==
  ASSUME OwnInv, NEW c \in Cores, Core(c), DecNThread(c)
  PROVE  Lifecycle!Park(c)
<1> USE DEF OwnInv
<1>a. CoreHandOK(c)
  BY DEF HandOK
<1>1. PICK q \in Procs, g \in Groups :
        /\ q = proc[c] /\ g = GroupOf[q]
        /\ Parked(c)' = Parked(c) \cup {q}
        /\ num_threads' = [num_threads EXCEPT ![g] = @ - 1]
  BY ParkStep
<1>2. /\ pc[c] = "dec" /\ op[c] = "yield" /\ current_process[c] = proc[c]
      /\ pc'[c] = "weight" /\ op' = op /\ proc' = proc
      /\ current_process' = current_process /\ runqueue' = runqueue
  BY <1>a DEF CoreHandOK, HoldLabels, DecNThread, Goto, localVars, coreVars, IInv, TypeOK,
     ControlType
<1>3. RunningOf(c) = q /\ RunningOf(c)' = None
  BY <1>1, <1>2 DEF RunningOf, Requeued, Leaving
<1>4. RunningAll' = [RunningAll EXCEPT ![c] = None] /\ RunningAll[c] = q /\ q # None
  BY <1>3, RunningStep, NoneAssumption DEF RunningAll
<1>5. ParkedAll' = [ParkedAll EXCEPT ![c] = @ \cup {q}]
  BY <1>1, ParkedStep DEF ParkedAll
<1>6. Queued' = Queued
  BY <1>2 DEF Queued
<1> QED
  BY <1>1, <1>4, <1>5, <1>6 DEF Lifecycle!Park, Queued, RunningAll, RunningOf, ParkedAll, Parked

(* enqueue of a process from the pool brings it back.                      *)
LEMMA LifecycleUnpark ==
  ASSUME OwnInv, NEW c \in Cores, Core(c), EnqueueProc(c), op[c] = "enq"
  PROVE  Lifecycle!Unpark(c)
<1> USE DEF OwnInv
<1>1. PICK q \in Procs, g \in Groups :
        /\ q = proc[c] /\ g = GroupOf[q]
        /\ q \in Parked(c) /\ Parked(c)' = Parked(c) \ {q}
        /\ num_threads' = [num_threads EXCEPT ![g] = @ + 1]
  BY EnqueueMoves, UnparkStep
<1>2. op' = op /\ current_process' = current_process
  BY DEF EnqueueProc, EnqueueWith, coreVars
<1>3. RunningOf(c)' = RunningOf(c)
  BY <1>2 DEF RunningOf, Requeued, Leaving
<1>4. RunningAll' = RunningAll
  BY <1>3, RunningSame
<1>5. ParkedAll' = [ParkedAll EXCEPT ![c] = @ \ {q}] /\ q \in ParkedAll[c]
  BY <1>1, ParkedStep DEF ParkedAll
<1>6. Queued' = Queued \cup {q}
  BY <1>1, QueuedGrows
<1> QED
  BY <1>1, <1>4, <1>5, <1>6 DEF Lifecycle!Unpark, Queued, RunningAll, RunningOf, ParkedAll, Parked

(* enqueue of the process whose tick ended.                                *)
LEMMA LifecyclePreempt ==
  ASSUME OwnInv, NEW c \in Cores, Core(c), EnqueueProc(c), op[c] # "enq"
  PROVE  Lifecycle!Preempt(c)
<1> USE DEF OwnInv
<1>a. CoreHandOK(c)
  BY DEF HandOK
<1>1. op[c] = "sched" /\ Parked(c)' = Parked(c) /\ num_threads' = num_threads
  BY PreemptStep
<1>2. PICK q \in Procs : q = proc[c]
  BY EnqueueMoves
<1>3. /\ pc[c] = "enqueue" /\ current_process[c] = q
      /\ op'[c] = "sched" /\ pc'[c] \in {"enq_avg", "peek"}
  BY <1>a, <1>1, <1>2 DEF CoreHandOK, EnqueueProc, EnqueueWith, AfterEnqueue, Goto, IInv, TypeOK,
     ControlType
<1>4. RunningOf(c) = q /\ RunningOf(c)' = None
  BY <1>1, <1>3 DEF RunningOf, Requeued, Leaving
<1>5. RunningAll' = [RunningAll EXCEPT ![c] = None] /\ RunningAll[c] = q /\ q # None
  BY <1>4, RunningStep, NoneAssumption DEF RunningAll
<1>6. ParkedAll' = ParkedAll
  BY <1>1, ParkedSame
<1>7. Queued' = Queued \cup {q}
  BY <1>2, QueuedGrows
<1> QED
  BY <1>1, <1>5, <1>6, <1>7 DEF Lifecycle!Preempt, Queued, RunningAll, RunningOf, ParkedAll, Parked

(* dequeue gives the head of the queue to a core that runs nothing.        *)
LEMMA LifecycleDispatch ==
  ASSUME OwnInv, NEW c \in Cores, Core(c), Dequeue(c)
  PROVE  Lifecycle!Dispatch(c)
<1> USE DEF OwnInv
<1>a. CoreHandOK(c)
  BY DEF HandOK
<1>1. PICK q \in Procs, g \in Groups :
        g = grp[c] /\ q = Head(runqueue[g]) /\ q \in SetOf(runqueue[g])
  BY DequeueMoves
<1>2. q # proc[c]
  <2>1. q \notin Hand(c)
    BY <1>1, QueuedNotHeld
  <2> QED
    BY <2>1, <1>a, NoneAssumption DEF Hand, Requeued, Dequeue, DequeueWith
<1>3. /\ pc[c] = "dequeue" /\ current_process[c] = None /\ current_process'[c] = q
      /\ op' = op /\ proc' = proc /\ pc'[c] \in {"deq_avg", "return"}
  BY <1>a, <1>1 DEF CoreHandOK, Dequeue, DequeueWith, Goto, localVars, IInv, TypeOK, ControlType,
     HandType
<1>4. RunningOf(c) = None /\ RunningOf(c)' = q
  BY <1>2, <1>3 DEF RunningOf, Requeued, Leaving
<1>5. RunningAll' = [RunningAll EXCEPT ![c] = q] /\ RunningAll[c] = None
  BY <1>4, RunningStep DEF RunningAll
<1>6. Parked(c)' = Parked(c) /\ num_threads' = num_threads
  BY <1>3, QuietParked DEF DecNThread, EnqueueProc, EnqueueWith
<1>7. ParkedAll' = ParkedAll
  BY <1>6, ParkedSame
<1>8. q \in Queued /\ Queued' = Queued \ {q}
  BY <1>1, QueuedShrinks
<1> QED
  BY <1>5, <1>6, <1>7, <1>8
     DEF Lifecycle!Dispatch, Queued, RunningAll, RunningOf, ParkedAll, Parked

(* What ProcLifecycle sees of the rest is nothing.                         *)
LEMMA LifecycleStutter ==
  ASSUME OwnInv, NEW c \in Cores, Core(c), ~DecNThread(c), ~EnqueueProc(c), ~Dequeue(c)
  PROVE  UNCHANGED Lifecycle!vars
<1> USE DEF OwnInv
<1>1. RunningOf(c)' = RunningOf(c) /\ runqueue' = runqueue
  BY QuietRunning
<1>2. Parked(c)' = Parked(c) /\ num_threads' = num_threads
  BY QuietParked
<1>3. RunningAll' = RunningAll /\ ParkedAll' = ParkedAll
  BY <1>1, <1>2, RunningSame, ParkedSame
<1>4. Queued' = Queued
  BY <1>1 DEF Queued
<1> QED
  BY <1>2, <1>3, <1>4 DEF Lifecycle!vars, Queued, RunningAll, RunningOf, ParkedAll, Parked

LEMMA LifecycleNext ==
  OwnInv /\ [Next]_vars => [Lifecycle!Next]_(Lifecycle!vars)
<1> SUFFICES ASSUME OwnInv, [Next]_vars PROVE Lifecycle!Next \/ UNCHANGED Lifecycle!vars
  OBVIOUS
<1>1. ASSUME NEW c \in Cores, Core(c)
      PROVE  Lifecycle!Next \/ UNCHANGED Lifecycle!vars
  <2>1. CASE DecNThread(c)
    BY <1>1, <2>1, LifecyclePark DEF Lifecycle!Next
  <2>2. CASE EnqueueProc(c) /\ op[c] = "enq"
    BY <1>1, <2>2, LifecycleUnpark DEF Lifecycle!Next
  <2>3. CASE EnqueueProc(c) /\ op[c] # "enq"
    BY <1>1, <2>3, LifecyclePreempt DEF Lifecycle!Next
  <2>4. CASE Dequeue(c)
    BY <1>1, <2>4, LifecycleDispatch DEF Lifecycle!Next
  <2>5. CASE ~DecNThread(c) /\ ~EnqueueProc(c) /\ ~Dequeue(c)
    BY <1>1, <2>5, LifecycleStutter
  <2> QED
    BY <2>1, <2>2, <2>3, <2>4, <2>5
<1>2. CASE UNCHANGED vars
  <2>1. Queued' = Queued /\ RunningAll' = RunningAll /\ ParkedAll' = ParkedAll
        /\ num_threads' = num_threads
    BY <1>2 DEF vars, groupVars, coreVars, localVars, Queued, RunningAll, RunningOf, ParkedAll,
       Parked, Requeued, Leaving, SetOf
  <2> QED
    BY <2>1 DEF Lifecycle!vars, Queued, RunningAll, RunningOf, ParkedAll, Parked
<1> QED
  BY <1>1, <1>2 DEF Next, Terminating

(* The scheduler implements ProcLifecycle: seen without locks, heap and    *)
(* virtual times, every step of a core dispatches, preempts, parks or      *)
(* brings back exactly one process, or nothing happens to any.             *)
THEOREM ImplementsLifecycle == Spec => LifecycleSpec
<1>1. Init => Lifecycle!Init
  BY LifecycleInit
<1>2. OwnInv /\ [Next]_vars => [Lifecycle!Next]_(Lifecycle!vars)
  BY LifecycleNext
<1> QED
  BY <1>1, <1>2, OwnInvariance, PTL DEF Spec, LifecycleSpec, Lifecycle!Spec

=============================================================================
