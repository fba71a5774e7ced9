----------------------------- MODULE FlatcgTime -----------------------------
(***************************************************************************)
(* The virtual times of scx_flatcg.bpf.c on top of FlatcgQueue: what a     *)
(* cgroup is charged, and when the charge reaches its node's cvtime.       *)
(* Every action is one of FlatcgQueue with the times it reads and writes,  *)
(* or a step between two of them, which leaves FlatcgQueue's state alone.  *)
(*                                                                         *)
(* A cgroup is charged a whole slice when a CPU picks it, and what it used *)
(* more or less when the CPU turns to another one.  That charge, and the   *)
(* run time of bypassed tasks, go to cvtime_delta, which is added to       *)
(* cvtime when the node next enters the tree.  Only the charge of a        *)
(* bypassed task is made without cgv_tree_lock.                            *)
(*                                                                         *)
(* Left out: virtual times of tasks within a cgroup (fifo_sched decides    *)
(* whether there are any) and changes of hweight, so that a slice has one  *)
(* price per cgroup, a whole number: what the divisions at 760 and 865     *)
(* round off is left out, too.  Time passes per CPU, as only the time since cur_at   *)
(* matters, and not while the CPU itself is in a handler.  cvtime_copy is  *)
(* only printed.                                                           *)
(***************************************************************************)
EXTENDS FlatcgQueue, Integers, FiniteSetsExt

CONSTANTS
  Slice,      \* cgrp_slice_ns
  Price,      \* Price[c]: FCG_HWEIGHT_ONE / hweight
  Budget,     \* Budget[c]: max_budget, half of the CPUs' slices by hweight
  MaxRun,     \* bound: the time between two picks of a CPU
  MaxRounds,  \* bound: picks of all CPUs
  MaxBypass   \* bound: the run time of bypassed tasks per cgroup

ASSUME CpusAssumption == IsFiniteSet(Cpus)
ASSUME SliceAssumption == Slice \in Nat \ {0}
ASSUME PriceAssumption == Price \in [Cgroups -> Nat \ {0}]
ASSUME BudgetAssumption == Budget \in [Cgroups -> Nat]
ASSUME TimeBoundsAssumption == MaxRun \in Nat /\ MaxRounds \in Nat /\ MaxBypass \in Nat

VARIABLES
  cvtime,     \* per cgroup: its node's cvtime
  delta,      \* per cgroup: cgc->cvtime_delta
  cvtimeNow,  \* cvtime_now
  since,      \* per CPU: the time since cur_at
  bypassed,   \* the CPUs whose task has bypassed_at set
  at,         \* per CPU: where it is within a step of FlatcgQueue
  val,        \* per CPU: what it has read
  ledger,     \* history, per cgroup: the sum of all charges made
  credit,     \* history, per cgroup: charged ahead of its service
  bypassTime, \* history, per cgroup: of these the charges for bypassed tasks
  rounds      \* picks so far

clock == <<since, bypassed, at, val>>
books == <<ledger, credit, bypassTime>>
times == <<cvtime, delta, cvtimeNow, clock, books, rounds>>
timeVars == <<vars, times>>

TimeInit ==
  /\ Init
  /\ cvtime = [c \in Cgroups |-> 0]
  /\ delta = [c \in Cgroups |-> 0]
  /\ cvtimeNow = 0
  /\ since = [cpu \in Cpus |-> 0]
  /\ bypassed = {}
  /\ at = [cpu \in Cpus |-> "-"]
  /\ val = [cpu \in Cpus |-> 0]
  /\ ledger = [c \in Cgroups |-> 0]
  /\ credit = [c \in Cgroups |-> 0]
  /\ bypassTime = [c \in Cgroups |-> 0]
  /\ rounds = 0

(* cgv_tree_lock is held across two steps only in cgrp_cap_budget.         *)
TreeLockFree == \A cpu \in Cpus : at[cpu] # "cap"

Move(cpu, place) == at' = [at EXCEPT ![cpu] = place]

SliceCost(c) == Slice * Price[c]
-----------------------------------------------------------------------------
(* A new node starts at cvtime_now, with no delta.                         *)
TimeCgroupInit(c) ==
  /\ CgroupInit(c)
  /\ cvtime' = [cvtime EXCEPT ![c] = cvtimeNow]
  /\ delta' = [delta EXCEPT ![c] = 0]
  /\ ledger' = [ledger EXCEPT ![c] = cvtimeNow]
  /\ UNCHANGED <<cvtimeNow, clock, credit, bypassTime, rounds>>

TimeCgroupLeaves(c) ==
  /\ CgroupRemoved(c) \/ CgroupExit(c)
  /\ UNCHANGED times

(* set_bypassed_at; the bound is on the charges it leads to.               *)
TimeBypass(cpu, t) ==
  /\ Bypass(cpu, t)
  /\ bypassTime[CgroupOf[t]] < MaxBypass
  /\ bypassed' = bypassed \cup {cpu}
  /\ UNCHANGED <<cvtime, delta, cvtimeNow, since, at, val, books, rounds>>

(* fcg_stopping, before a bypassed task leaves its CPU: its run time is    *)
(* charged, without the lock and as it is, not divided by the hweight.     *)
Stopping(cpu) ==
  /\ pc[cpu] = "idle" /\ cpu \in bypassed
  /\ LET c == CgroupOf[local[cpu]] IN
       \E ran \in 1 .. (MaxBypass - bypassTime[c]) :
         /\ delta' = [delta EXCEPT ![c] = @ + ran]
         /\ ledger' = [ledger EXCEPT ![c] = @ + ran]
         /\ bypassTime' = [bypassTime EXCEPT ![c] = @ + ran]
  /\ bypassed' = bypassed \ {cpu}
  /\ Move(cpu, "stopped")
  /\ UNCHANGED <<vars, cvtime, cvtimeNow, since, val, credit, rounds>>

(* As it would be if bypassed_at were not looked at.                       *)
LeaveCpuUncharged(cpu) ==
  /\ EnqueuePreempted(cpu) \/ Deschedule(cpu)
  /\ Move(cpu, "-")
  /\ UNCHANGED <<cvtime, delta, cvtimeNow, since, bypassed, val, books, rounds>>

TimeLeaveCpu(cpu) ==
  /\ EnqueuePreempted(cpu) \/ Deschedule(cpu)
  /\ cpu \notin bypassed
  /\ Move(cpu, "-")
  /\ UNCHANGED <<cvtime, delta, cvtimeNow, since, bypassed, val, books, rounds>>

TimeEnqueue(cpu) ==
  /\ at[cpu] = "-"
  /\ Announce(cpu) \/ TakeFromStash(cpu) \/ \E t \in Tasks : EnqueueWoken(cpu, t)
  /\ UNCHANGED times

(* The current cgroup runs on, or its CPU idles.                           *)
Tick(cpu) ==
  /\ pc[cpu] = "idle" /\ at[cpu] = "-"
  /\ cur[cpu] # None /\ since[cpu] < MaxRun
  /\ since' = [since EXCEPT ![cpu] = @ + 1]
  /\ credit' = IF local[cpu] # None /\ cpu \notin bypassed
               THEN [credit EXCEPT ![cur[cpu]] = @ - Price[cur[cpu]]]
               ELSE credit
  /\ UNCHANGED <<vars, cvtime, delta, cvtimeNow, bypassed, at, val, ledger, bypassTime, rounds>>
-----------------------------------------------------------------------------
(* cgrp_cap_budget.                                                        *)

(* The argument of __sync_fetch_and_sub is a read of its own.              *)
ReadDelta(cpu) ==
  /\ pc[cpu] \in {"add", "readd"} /\ at[cpu] = "-"
  /\ TreeLockFree
  /\ val' = [val EXCEPT ![cpu] = delta[cg[cpu]]]
  /\ Move(cpu, "cap")
  /\ UNCHANGED <<vars, cvtime, delta, cvtimeNow, since, bypassed, books, rounds>>

(* Charges the node, takes from the delta, and forfeits what exceeds the   *)
(* budget.                                                                 *)
Charge(cpu, cost, applied, taken) ==
  LET c == cg[cpu]
      charged == cvtime[c] + cost + applied
      floor == cvtimeNow - Budget[c]
      capped == IF charged < floor THEN floor ELSE charged
  IN  /\ at[cpu] = "cap"
      /\ cvtime' = [cvtime EXCEPT ![c] = capped]
      /\ delta' = [delta EXCEPT ![c] = @ - taken]
      /\ ledger' = [ledger EXCEPT ![c] = @ + cost + (capped - charged)]
      /\ Move(cpu, "-")
      /\ val' = [val EXCEPT ![cpu] = 0]
      /\ UNCHANGED <<cvtimeNow, bypassed, bypassTime, rounds>>

(* As it would be if the delta read were stored back as 0.                 *)
CapBudgetStoreZero(cpu, cost) == Charge(cpu, cost, val[cpu], delta[cg[cpu]])

(* As it would be if the delta were left where it is.                      *)
CapBudgetNoSub(cpu, cost) == Charge(cpu, cost, val[cpu], 0)

(* The fetch returns the delta of now, and subtracts the one read before.  *)
CapBudget(cpu, cost) == Charge(cpu, cost, delta[cg[cpu]], val[cpu])

TimeAddToTree(cpu) ==
  /\ AddToTree(cpu)
  /\ CapBudget(cpu, 0)
  /\ UNCHANGED <<since, credit>>

(* The picked cgroup is charged the full slice upfront.                    *)
TimePickReadd(cpu) ==
  /\ PickReadd(cpu)
  /\ CapBudget(cpu, SliceCost(cg[cpu]))
  /\ credit' = [credit EXCEPT ![cg[cpu]] = @ + SliceCost(cg[cpu])]
  /\ UNCHANGED since
-----------------------------------------------------------------------------
(* ops.dispatch.                                                           *)

(* As it would be if the slice started anew with each task.                *)
DispatchKeepRestarts(cpu) ==
  /\ at[cpu] = "-" /\ since[cpu] < Slice
  /\ DispatchKeep(cpu)
  /\ since' = [since EXCEPT ![cpu] = 0]
  /\ UNCHANGED <<cvtime, delta, cvtimeNow, bypassed, at, val, books, rounds>>

TimeDispatchKeep(cpu) ==
  /\ at[cpu] = "-" /\ since[cpu] < Slice
  /\ DispatchKeep(cpu)
  /\ UNCHANGED times

(* now is read once, at the start: it ends one slice and starts another.   *)
TimeDispatchPick(cpu) ==
  /\ at[cpu] = "-" /\ rounds < MaxRounds
  /\ DispatchPick(cpu)
  /\ \/ cur[cpu] = None /\ UNCHANGED <<at, val>>
     \/ /\ cur[cpu] # None
        /\ since[cpu] >= Slice \/ dsq[cur[cpu]] = {}
        /\ Move(cpu, "settle")
        /\ val' = [val EXCEPT ![cpu] = since[cpu]]
  /\ since' = [since EXCEPT ![cpu] = 0]
  /\ rounds' = rounds + 1
  /\ UNCHANGED <<cvtime, delta, cvtimeNow, bypassed, books>>

(* What was used beyond the slice, or is given back of it.                 *)
Settle(cpu) ==
  /\ at[cpu] = "settle"
  /\ TreeLockFree
  /\ LET c == cur[cpu]
         toAdd == (val[cpu] - Slice) * Price[c]
     IN  IF c \in findable
         THEN /\ delta' = [delta EXCEPT ![c] = @ + toAdd]
              /\ ledger' = [ledger EXCEPT ![c] = @ + toAdd]
              /\ credit' = [credit EXCEPT ![c] = @ + toAdd]
         ELSE UNCHANGED <<delta, ledger, credit>>
  /\ Move(cpu, "-")
  /\ val' = [val EXCEPT ![cpu] = 0]
  /\ UNCHANGED <<vars, cvtime, cvtimeNow, since, bypassed, bypassTime, rounds>>

TimePopNone(cpu) ==
  /\ at[cpu] = "-" /\ TreeLockFree
  /\ PopNone(cpu)
  /\ UNCHANGED times

(* bpf_rbtree_first: the node with the least cvtime.                       *)
TimePopFirst(cpu) ==
  /\ at[cpu] = "-" /\ TreeLockFree
  /\ PopFirst(cpu)
  /\ \A c \in tree : cvtime[cg'[cpu]] <= cvtime[c]
  /\ Move(cpu, "test")
  /\ UNCHANGED <<cvtime, delta, cvtimeNow, since, bypassed, val, books, rounds>>

(* cvtime_now is compared, then set, without the lock.                     *)
WindTest(cpu) ==
  /\ at[cpu] = "test"
  /\ Move(cpu, IF cvtimeNow < cvtime[cg[cpu]] THEN "wind" ELSE "-")
  /\ UNCHANGED <<vars, cvtime, delta, cvtimeNow, since, bypassed, val, books, rounds>>

Wind(cpu) ==
  /\ at[cpu] = "wind"
  /\ cvtimeNow' = cvtime[cg[cpu]]
  /\ Move(cpu, "-")
  /\ UNCHANGED <<vars, cvtime, delta, since, bypassed, val, books, rounds>>

TimePick(cpu) ==
  /\ at[cpu] = "-"
  /\ PickMove(cpu) \/ PickClear(cpu) \/ PickCheck(cpu)
  /\ UNCHANGED times

(* The pick fails.  After the last try the CPU goes idle and keeps its     *)
(* cur_cgid, which nobody charges for the slice that starts now.           *)
TimePickFails(cpu) ==
  /\ at[cpu] = "-"
  /\ \/ PickLookup(cpu) \/ PickFindStash(cpu) \/ PickStash(cpu)
     \/ TreeLockFree /\ PickBack(cpu)
  /\ credit' = IF pc'[cpu] = "idle" /\ cur[cpu] # None
               THEN [credit EXCEPT ![cur[cpu]] = @ + SliceCost(cur[cpu])]
               ELSE credit
  /\ UNCHANGED <<cvtime, delta, cvtimeNow, clock, ledger, bypassTime, rounds>>
-----------------------------------------------------------------------------
TimeNext ==
  \/ \E c \in Cgroups : TimeCgroupInit(c) \/ TimeCgroupLeaves(c)
  \/ \E cpu \in Cpus :
       \/ \E t \in Tasks : TimeBypass(cpu, t)
       \/ Stopping(cpu) \/ TimeLeaveCpu(cpu) \/ TimeEnqueue(cpu) \/ Tick(cpu)
       \/ ReadDelta(cpu) \/ TimeAddToTree(cpu) \/ TimePickReadd(cpu)
       \/ TimeDispatchKeep(cpu) \/ TimeDispatchPick(cpu) \/ Settle(cpu)
       \/ TimePopNone(cpu) \/ TimePopFirst(cpu) \/ WindTest(cpu) \/ Wind(cpu)
       \/ TimePick(cpu) \/ TimePickFails(cpu)

TimeSpec == TimeInit /\ [][TimeNext]_timeVars
-----------------------------------------------------------------------------
(* Every variable has its type, a virtual time being any integer.          *)
TimeTypeOK ==
  /\ TypeOK
  /\ cvtime \in [Cgroups -> Int] /\ delta \in [Cgroups -> Int] /\ cvtimeNow \in Int
  /\ since \in [Cpus -> 0 .. MaxRun]
  /\ bypassed \in SUBSET {cpu \in Cpus : local[cpu] # None}
  /\ at \in [Cpus -> {"-", "stopped", "settle", "test", "wind", "cap"}]
  /\ val \in [Cpus -> Int]
  /\ ledger \in [Cgroups -> Int] /\ credit \in [Cgroups -> Int]
  /\ bypassTime \in [Cgroups -> 0 .. MaxBypass]
  /\ rounds \in Nat

(* "We collect the vtime deltas separately and apply it asynchronously":   *)
(* between the node and its delta no charge gets lost, whoever adds to the *)
(* delta while another CPU takes it.                                       *)
NoChargeLost == \A c \in Cgroups : cvtime[c] + delta[c] >= ledger[c]

(* The delta is read, then fetched and reduced by what was read, so that a *)
(* charge made in between is applied and stays: it is applied once more    *)
(* then, and never a third time.                                           *)
ChargedAtMostTwice ==
  \A c \in Cgroups : cvtime[c] + delta[c] <= ledger[c] + bypassTime[c]

(* The time a CPU has let its current cgroup run beyond the slice.         *)
Overrun ==
  [cpu \in Cpus |->
     LET used == IF at[cpu] = "settle" THEN val[cpu] ELSE since[cpu]
     IN  IF used > Slice THEN used - Slice ELSE 0]

(* "It was already charged a full slice": a cgroup is never served ahead   *)
(* of its charges, but for the end of slices not settled yet - and for one *)
(* slice per dispatch that gave up, which its credit is given for free.    *)
ServedWhenCharged ==
  \A c \in findable :
    credit[c] + Price[c] * MapThenSumSet(LAMBDA cpu : Overrun[cpu],
                                         {cpu \in Cpus : cur[cpu] = c}) >= 0

=============================================================================
