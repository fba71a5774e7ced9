--------------------------- MODULE ProcLifecycle ---------------------------
(***************************************************************************)
(* What the simulator of global-accounting-rlock.c promises of its         *)
(* processes, with no locks, heap or virtual time: a process waits in a    *)
(* queue, runs on one core, or is parked in the pool of the core it        *)
(* yielded on, and the number of members of a group is the number of its   *)
(* processes that are not parked.                                          *)
(***************************************************************************)
EXTENDS Naturals, FiniteSets

CONSTANTS Cores, Groups, Procs, GroupOf, None

VARIABLES
  queued,   \* the processes waiting to run
  running,  \* running[c]: the process on core c, or None
  parked,   \* parked[c]: the processes core c took off the system
  members   \* members[g]: how many processes of group g are in the system

vars == <<queued, running, parked, members>>

Init ==
  /\ queued = Procs
  /\ running = [c \in Cores |-> None]
  /\ parked = [c \in Cores |-> {}]
  /\ members = [g \in Groups |-> Cardinality({p \in Procs : GroupOf[p] = g})]

(* An idle core is given a waiting process.                                *)
Dispatch(c) ==
  /\ running[c] = None
  /\ \E p \in queued : /\ queued' = queued \ {p}
                       /\ running' = [running EXCEPT ![c] = p]
  /\ UNCHANGED <<parked, members>>

(* The tick of a core ends: its process waits again.                       *)
Preempt(c) ==
  /\ running[c] # None
  /\ queued' = queued \cup {running[c]}
  /\ running' = [running EXCEPT ![c] = None]
  /\ UNCHANGED <<parked, members>>

(* The process of a core yields and leaves the system.                     *)
Park(c) ==
  /\ running[c] # None
  /\ parked' = [parked EXCEPT ![c] = @ \cup {running[c]}]
  /\ members' = [members EXCEPT ![GroupOf[running[c]]] = @ - 1]
  /\ running' = [running EXCEPT ![c] = None]
  /\ UNCHANGED queued

(* A core brings one of its parked processes back.                         *)
Unpark(c) ==
  /\ \E p \in parked[c] :
       /\ parked' = [parked EXCEPT ![c] = @ \ {p}]
       /\ queued' = queued \cup {p}
       /\ members' = [members EXCEPT ![GroupOf[p]] = @ + 1]
  /\ UNCHANGED running

Next == \E c \in Cores : Dispatch(c) \/ Preempt(c) \/ Park(c) \/ Unpark(c)

Spec == Init /\ [][Next]_vars

=============================================================================
