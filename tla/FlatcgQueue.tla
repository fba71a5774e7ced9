---------------------------- MODULE FlatcgQueue ----------------------------
(***************************************************************************)
(* How ops.enqueue and ops.dispatch of scx_flatcg.bpf.c pass a cgroup's    *)
(* one tree node between them, on any number of CPUs.  The node is in its  *)
(* cgroup's stash while the cgroup has nothing queued, in cgv_tree while   *)
(* the cgroup may be picked, or in the hands of the CPU that moves it.     *)
(* cgc->queued lets one of several enqueuers go for the stash.             *)
(*                                                                         *)
(* Each statement that touches shared state is a step: a task goes into    *)
(* the cgroup's dispatch queue, queued is compared and swapped, the stash  *)
(* is exchanged, the tree is changed under cgv_tree_lock.                  *)
(*                                                                         *)
(* Left out: virtual times, so that any node of the tree may be the first; *)
(* when the slice of the current cgroup is over, which is either; and      *)
(* FALLBACK_DSQ, which nothing inserts into any more.                      *)
(***************************************************************************)
EXTENDS Naturals, FiniteSets

CONSTANTS
  Cpus,
  Cgroups,     \* the cgroups that may be made, told apart by id
  Tasks,
  CgroupOf,    \* CgroupOf[t]: the cgroup of task t
  MaxRetries,  \* CGROUP_MAX_RETRIES
  None         \* cgroup id 0 and no task

ASSUME CgroupOfAssumption == CgroupOf \in [Tasks -> Cgroups]
ASSUME RetriesAssumption == MaxRetries \in Nat \ {0}
ASSUME NoneAssumption == None \notin Cgroups /\ None \notin Tasks

VARIABLES
  born,      \* the cgroups that have been initialised
  findable,  \* those bpf_cgroup_from_id finds
  entry,     \* those with an entry in the cgv_node_stash map
  stash,     \* those whose entry holds the node
  tree,      \* those whose node is in cgv_tree
  queued,    \* those whose cgc->queued is 1
  dsq,       \* per cgroup: the tasks in its dispatch queue
  asleep,    \* the tasks that are neither queued nor on a CPU, nor done
  local,     \* per CPU: the task it runs or is to run next
  cur,       \* per CPU: cpuc->cur_cgid
  pc,        \* per CPU: the next step of the handler it is in
  cg,        \* per CPU: the cgroup the handler is about
  tries      \* per CPU: try_pick_next_cgroup calls that failed

cgroups == <<born, findable, entry>>
tasks == <<dsq, asleep, local>>
vars == <<cgroups, stash, tree, queued, tasks, cur, pc, cg, tries>>

(* cgrp_enqueued, then try_pick_next_cgroup, where a CPU has the node.     *)
EnqueueHolds == {"add"}
PickHolds == {"lookup", "move", "readd", "find", "clear", "check", "back", "exchange"}
HoldsNode(cpu, c) == cg[cpu] = c /\ pc[cpu] \in EnqueueHolds \cup PickHolds

TasksOf(c) == {t \in Tasks : CgroupOf[t] = c}

Init ==
  /\ born = {} /\ findable = {} /\ entry = {}
  /\ stash = {} /\ tree = {} /\ queued = {}
  /\ dsq = [c \in Cgroups |-> {}]
  /\ asleep = Tasks
  /\ local = [cpu \in Cpus |-> None]
  /\ cur = [cpu \in Cpus |-> None]
  /\ pc = [cpu \in Cpus |-> "idle"]
  /\ cg = [cpu \in Cpus |-> None]
  /\ tries = [cpu \in Cpus |-> 0]

Goto(cpu, label) == pc' = [pc EXCEPT ![cpu] = label]
-----------------------------------------------------------------------------
(* The cgroup's life.                                                      *)

(* fcg_cgroup_init: the new node starts in the stash.  An init that fails  *)
(* undoes what it did and the cgroup is not made: it has no step.          *)
CgroupInit(c) ==
  /\ c \notin born
  /\ born' = born \cup {c}
  /\ findable' = findable \cup {c}
  /\ entry' = entry \cup {c}
  /\ stash' = stash \cup {c}
  /\ UNCHANGED <<tree, queued, tasks, cur, pc, cg, tries>>

(* A cgroup whose tasks are all done is removed.                           *)
Emptied(c) ==
  /\ c \in born
  /\ TasksOf(c) \cap asleep = {}
  /\ dsq[c] = {}
  /\ \A cpu \in Cpus : local[cpu] \notin TasksOf(c)

CgroupRemoved(c) ==
  /\ Emptied(c)
  /\ c \in findable
  /\ findable' = findable \ {c}
  /\ UNCHANGED <<born, entry, stash, tree, queued, tasks, cur, pc, cg, tries>>

(* fcg_cgroup_exit: a node in the stash goes with the map entry.           *)
CgroupExit(c) ==
  /\ Emptied(c)
  /\ c \in entry
  /\ entry' = entry \ {c}
  /\ stash' = stash \ {c}
  /\ UNCHANGED <<born, findable, tree, queued, tasks, cur, pc, cg, tries>>
-----------------------------------------------------------------------------
(* ops.select_cpu and ops.enqueue.                                         *)

(* An idle CPU was found: straight to its local queue.                     *)
Bypass(cpu, t) ==
  /\ pc[cpu] = "idle" /\ local[cpu] = None
  /\ t \in asleep /\ CgroupOf[t] \in findable \cap entry
  /\ asleep' = asleep \ {t}
  /\ local' = [local EXCEPT ![cpu] = t]
  /\ UNCHANGED <<cgroups, stash, tree, queued, dsq, cur, pc, cg, tries>>

(* fcg_enqueue inserts the task and calls cgrp_enqueued.                   *)
Insert(cpu, t) ==
  /\ dsq' = [dsq EXCEPT ![CgroupOf[t]] = @ \cup {t}]
  /\ cg' = [cg EXCEPT ![cpu] = CgroupOf[t]]
  /\ Goto(cpu, "announce")
  /\ UNCHANGED <<cgroups, stash, tree, queued, cur, tries>>

EnqueueWoken(cpu, t) ==
  /\ pc[cpu] = "idle"
  /\ t \in asleep /\ CgroupOf[t] \in findable \cap entry
  /\ asleep' = asleep \ {t}
  /\ Insert(cpu, t)
  /\ UNCHANGED local

(* The running task is preempted, or its slice is over.                    *)
EnqueuePreempted(cpu) ==
  /\ pc[cpu] = "idle" /\ local[cpu] # None
  /\ Insert(cpu, local[cpu])
  /\ local' = [local EXCEPT ![cpu] = None]
  /\ UNCHANGED asleep

(* The running task blocks, or is done.                                    *)
Deschedule(cpu) ==
  /\ pc[cpu] = "idle" /\ local[cpu] # None
  /\ asleep' = asleep \cup {local[cpu]} \/ asleep' = asleep
  /\ local' = [local EXCEPT ![cpu] = None]
  /\ UNCHANGED <<cgroups, stash, tree, queued, dsq, cur, pc, cg, tries>>

(* The compare-and-swap of queued from 0 to 1: ENQ_SKIP if it was 1.       *)
Announce(cpu) ==
  /\ pc[cpu] = "announce"
  /\ Goto(cpu, IF cg[cpu] \in queued THEN "idle" ELSE "take")
  /\ queued' = queued \cup {cg[cpu]}
  /\ UNCHANGED <<cgroups, stash, tree, tasks, cur, cg, tries>>

(* As it would be with a lookup in place of the exchange.                  *)
LookInStash(cpu) ==
  /\ pc[cpu] = "take"
  /\ Goto(cpu, IF cg[cpu] \in stash THEN "add" ELSE "idle")
  /\ UNCHANGED <<cgroups, stash, tree, queued, tasks, cur, cg, tries>>

(* Exchanges the stash for NULL: ENQ_RACE if it was NULL already.  The     *)
(* error that stops the scheduler when the cgroup has no entry any more    *)
(* (306-309) is no step of its own: the handler returns, and the model     *)
(* goes on.                                                                *)
TakeFromStash(cpu) ==
  /\ pc[cpu] = "take"
  /\ Goto(cpu, IF cg[cpu] \in stash THEN "add" ELSE "idle")
  /\ stash' = stash \ {cg[cpu]}
  /\ UNCHANGED <<cgroups, tree, queued, tasks, cur, cg, tries>>

AddToTree(cpu) ==
  /\ pc[cpu] = "add"
  /\ tree' = tree \cup {cg[cpu]}
  /\ Goto(cpu, "idle")
  /\ UNCHANGED <<cgroups, stash, queued, tasks, cur, cg, tries>>
-----------------------------------------------------------------------------
(* ops.dispatch.                                                           *)

(* scx_bpf_dsq_move_to_local.                                              *)
MoveToLocal(cpu, c) ==
  \E t \in dsq[c] :
    /\ dsq' = [dsq EXCEPT ![c] = @ \ {t}]
    /\ local' = [local EXCEPT ![cpu] = t]
    /\ UNCHANGED asleep

(* The current cgroup's slice is not over and it has a task.               *)
DispatchKeep(cpu) ==
  /\ pc[cpu] = "idle" /\ local[cpu] = None
  /\ cur[cpu] # None
  /\ MoveToLocal(cpu, cur[cpu])
  /\ UNCHANGED <<cgroups, stash, tree, queued, cur, pc, cg, tries>>

(* There is none, its slice is over, or it has no task.                    *)
DispatchPick(cpu) ==
  /\ pc[cpu] = "idle" /\ local[cpu] = None
  /\ Goto(cpu, "pop")
  /\ UNCHANGED <<cgroups, stash, tree, queued, tasks, cur, cg, tries>>

(* The handler returns.                                                    *)
Done(cpu) == Goto(cpu, "idle") /\ tries' = [tries EXCEPT ![cpu] = 0]

(* try_pick_next_cgroup fails: again, up to CGROUP_MAX_RETRIES times.      *)
Retry(cpu) ==
  IF tries[cpu] + 1 < MaxRetries
  THEN Goto(cpu, "pop") /\ tries' = [tries EXCEPT ![cpu] = @ + 1]
  ELSE Done(cpu)

PopNone(cpu) ==
  /\ pc[cpu] = "pop"
  /\ tree = {}
  /\ cur' = [cur EXCEPT ![cpu] = None]
  /\ Done(cpu)
  /\ UNCHANGED <<cgroups, stash, tree, queued, tasks, cg>>

PopFirst(cpu) ==
  /\ pc[cpu] = "pop"
  /\ \E c \in tree :
       /\ tree' = tree \ {c}
       /\ cg' = [cg EXCEPT ![cpu] = c]
  /\ Goto(cpu, "lookup")
  /\ UNCHANGED <<cgroups, stash, queued, tasks, cur, tries>>

(* bpf_cgroup_from_id: the node of a cgroup that is gone is freed.         *)
PickLookup(cpu) ==
  /\ pc[cpu] = "lookup"
  /\ \/ cg[cpu] \in findable /\ Goto(cpu, "move") /\ UNCHANGED tries
     \/ cg[cpu] \notin findable /\ Retry(cpu)
  /\ UNCHANGED <<cgroups, stash, tree, queued, tasks, cur, cg>>

PickMove(cpu) ==
  /\ pc[cpu] = "move"
  /\ \/ MoveToLocal(cpu, cg[cpu]) /\ Goto(cpu, "readd")
     \/ dsq[cg[cpu]] = {} /\ Goto(cpu, "find") /\ UNCHANGED tasks
  /\ UNCHANGED <<cgroups, stash, tree, queued, cur, cg, tries>>

(* The cgroup may have more tasks: back on the tree, and current.          *)
PickReadd(cpu) ==
  /\ pc[cpu] = "readd"
  /\ tree' = tree \cup {cg[cpu]}
  /\ cur' = [cur EXCEPT ![cpu] = cg[cpu]]
  /\ Done(cpu)
  /\ UNCHANGED <<cgroups, stash, queued, tasks, cg>>

(* The stash is looked up; the node of an exited cgroup is freed.          *)
PickFindStash(cpu) ==
  /\ pc[cpu] = "find"
  /\ \/ cg[cpu] \in entry /\ Goto(cpu, "clear") /\ UNCHANGED tries
     \/ cg[cpu] \notin entry /\ Retry(cpu)
  /\ UNCHANGED <<cgroups, stash, tree, queued, tasks, cur, cg>>

(* The compare-and-swap of queued from 1 to 0.                             *)
PickClear(cpu) ==
  /\ pc[cpu] = "clear"
  /\ queued' = queued \ {cg[cpu]}
  /\ Goto(cpu, "check")
  /\ UNCHANGED <<cgroups, stash, tree, tasks, cur, cg, tries>>

(* As it would be without the second look at the dispatch queue.           *)
PickNoCheck(cpu) ==
  /\ pc[cpu] = "check"
  /\ Goto(cpu, "exchange")
  /\ UNCHANGED <<cgroups, stash, tree, queued, tasks, cur, cg, tries>>

(* scx_bpf_dsq_nr_queued: has a task come since the move failed?           *)
PickCheck(cpu) ==
  /\ pc[cpu] = "check"
  /\ Goto(cpu, IF dsq[cg[cpu]] # {} THEN "back" ELSE "exchange")
  /\ UNCHANGED <<cgroups, stash, tree, queued, tasks, cur, cg, tries>>

PickBack(cpu) ==
  /\ pc[cpu] = "back"
  /\ tree' = tree \cup {cg[cpu]}
  /\ Retry(cpu)
  /\ UNCHANGED <<cgroups, stash, queued, tasks, cur, cg>>

(* As it would be if the map entry outlived the cgroup.                    *)
PickStashAnyway(cpu) ==
  /\ pc[cpu] = "exchange"
  /\ stash' = stash \cup {cg[cpu]}
  /\ Retry(cpu)
  /\ UNCHANGED <<cgroups, tree, queued, tasks, cur, cg>>

(* The node goes to the stash.  If the cgroup exited since the lookup, it  *)
(* goes into the deleted map entry and with that.                          *)
PickStash(cpu) ==
  /\ pc[cpu] = "exchange"
  /\ stash' = stash \cup ({cg[cpu]} \cap entry)
  /\ Retry(cpu)
  /\ UNCHANGED <<cgroups, tree, queued, tasks, cur, cg>>
-----------------------------------------------------------------------------
Cgroup(c) == CgroupInit(c) \/ CgroupRemoved(c) \/ CgroupExit(c)

Enqueue(cpu) ==
  \/ \E t \in Tasks : Bypass(cpu, t) \/ EnqueueWoken(cpu, t)
  \/ EnqueuePreempted(cpu) \/ Deschedule(cpu)
  \/ Announce(cpu) \/ TakeFromStash(cpu) \/ AddToTree(cpu)

Dispatch(cpu) ==
  \/ DispatchKeep(cpu) \/ DispatchPick(cpu)
  \/ PopNone(cpu) \/ PopFirst(cpu) \/ PickLookup(cpu) \/ PickMove(cpu)
  \/ PickReadd(cpu) \/ PickFindStash(cpu) \/ PickClear(cpu)
  \/ PickCheck(cpu) \/ PickBack(cpu) \/ PickStash(cpu)

Next ==
  \/ \E c \in Cgroups : Cgroup(c)
  \/ \E cpu \in Cpus : Enqueue(cpu) \/ Dispatch(cpu)

Spec == Init /\ [][Next]_vars
-----------------------------------------------------------------------------
(* Every variable has its type; only an entry there is can hold a node, and *)
(* a CPU past the head of a handler is at a cgroup.                        *)
Labels == {"idle", "announce", "take", "pop"} \cup EnqueueHolds \cup PickHolds

TypeOK ==
  /\ born \subseteq Cgroups /\ findable \subseteq born /\ entry \subseteq born
  /\ stash \subseteq entry
  /\ tree \subseteq Cgroups
  /\ queued \subseteq Cgroups
  /\ dsq \in [Cgroups -> SUBSET Tasks]
  /\ asleep \subseteq Tasks
  /\ local \in [Cpus -> Tasks \cup {None}]
  /\ cur \in [Cpus -> Cgroups \cup {None}]
  /\ pc \in [Cpus -> Labels]
  /\ cg \in [Cpus -> Cgroups \cup {None}]
  /\ \A cpu \in Cpus : pc[cpu] \notin {"idle", "pop"} => cg[cpu] \in Cgroups
  /\ tries \in [Cpus -> 0 .. (MaxRetries - 1)]

(* A node is never in two of the stash, the tree and the hands of a CPU,   *)
(* nor in those of two CPUs, and a cgroup that has not gone still has its  *)
(* own: else it is added to the rbtree twice, the error "unexpected !NULL  *)
(* cgv_node stash" is reported, or the cgroup never runs again.            *)
NodeOnce ==
  \A c \in Cgroups :
    LET holders == {cpu \in Cpus : HoldsNode(cpu, c)}
    IN  /\ c \in stash => c \notin tree /\ holders = {}
        /\ c \in tree => holders = {}
        /\ \A d, e \in holders : d = e
        /\ c \in findable \cap entry => c \in stash \cup tree \/ holders # {}

(* "If they are earlier, we'll see their task in the dq below and requeue  *)
(* the cgroup": while queued is 0, a cgroup that has tasks is on the tree, *)
(* or a CPU will yet look at its tasks, put it on the tree or announce it. *)
EarlyTaskSeen ==
  \A c \in Cgroups :
    dsq[c] # {} /\ c \notin queued =>
      \/ c \in tree
      \/ \E cpu \in Cpus :
           cg[cpu] = c /\ pc[cpu] \in {"announce"} \cup EnqueueHolds \cup (PickHolds \ {"exchange"})

(* "If they see the following transition, they'll enqueue the cgroup": no  *)
(* task is left in the queue of a cgroup that is not on the tree once the  *)
(* CPUs are done with their handlers.                                      *)
TransitionEnqueues ==
  (\A cpu \in Cpus : pc[cpu] = "idle") =>
    \A c \in Cgroups : dsq[c] # {} => c \in tree

=============================================================================
