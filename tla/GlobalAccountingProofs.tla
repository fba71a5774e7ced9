----------------------- MODULE GlobalAccountingProofs -----------------------
(***************************************************************************)
(* What holds of GlobalAccounting for any number of cores, any groups and  *)
(* processes, any costs, bonus and INT_MAX.                                *)
(***************************************************************************)
EXTENDS GlobalAccounting, DataFacts

(* A group's speculation list has one node for each core that runs it.     *)
Matches(cur, spec) ==
  \A g \in Groups, c \in Cores : spec[g][c] = IF c \in Running(cur, g) THEN 1 ELSE 0

Counts(num, queues, cur) ==
  \A g \in Groups : num[g] = Len(queues[g]) + Cardinality(Running(cur, g))

Sorted(queues) == \A g \in Groups : \A i \in DOMAIN queues[g] : GroupOf[queues[g][i]] = g

(* dequeue leaves a group as enqueue expects to find it.                   *)
ResetWhenEmpty == \A g \in Groups : num_threads[g] = 0 => spec_virt_time[g] = -1

IInv ==
  TypeOK /\ AssertionsHold /\ QueueCount /\ ListedByThreads /\ ResetWhenEmpty
    /\ Matches(current, spec_time)

-----------------------------------------------------------------------------
(* The cores that run a group, and its nodes.                              *)

LEMMA RunningFinite ==
  ASSUME NEW cur, NEW g
  PROVE  IsFiniteSet(Running(cur, g)) /\ Cardinality(Running(cur, g)) \in Nat
<1>1. Running(cur, g) \in SUBSET Cores
  BY DEF Running
<1> QED
  BY <1>1, CoresAssumption, FS_Subset, FS_CardinalityType

LEMMA NodesCounted ==
  ASSUME NEW cur, NEW spec, NEW g \in Groups, Matches(cur, spec)
  PROVE  Cardinality(Nodes(spec, g)) = Cardinality(Running(cur, g))
<1> DEFINE R == Running(cur, g)
           f == [c \in R |-> <<c, 1>>]
<1>1. R \subseteq Cores
  BY DEF Running
<1>2. \A c \in Cores : {c} \X (1 .. spec[g][c]) = IF c \in R THEN {<<c, 1>>} ELSE {}
  <2>1. ASSUME NEW c \in Cores, c \in R
        PROVE  1 .. spec[g][c] = {1}
    BY <2>1 DEF Matches
  <2>2. ASSUME NEW c \in Cores, c \notin R
        PROVE  1 .. spec[g][c] = {}
    BY <2>2 DEF Matches
  <2> HIDE DEF R
  <2> QED
    BY <2>1, <2>2
<1>3. Nodes(spec, g) = {<<c, 1>> : c \in R}
  BY <1>1, <1>2 DEF Nodes
<1>4. f \in Bijection(R, Nodes(spec, g))
  BY <1>3 DEF Bijection, Injection, Surjection, IsInjective
<1>5. ExistsBijection(R, Nodes(spec, g))
  BY <1>4 DEF ExistsBijection
<1> QED
  BY <1>5, RunningFinite, FS_Bijection

LEMMA ListConsistent ==
  ASSUME NEW cur, NEW spec, NEW list \in Seq(Groups), Matches(cur, spec)
  PROVE  \A i \in DOMAIN list : Consistent(cur, spec, list[i])
BY NodesCounted DEF Consistent

-----------------------------------------------------------------------------
(* The list, the queues and the pick.                                      *)

LEMMA UnlinkedList ==
  ASSUME NEW list \in Seq(Groups), NEW g \in Groups, IsInjective(list)
  PROVE  /\ Unlinked(list, g) \in Seq(Groups) /\ IsInjective(Unlinked(list, g))
         /\ \A h \in Groups : Contains(Unlinked(list, g), h) <=> Contains(list, h) /\ h # g
<1>1. CASE Contains(list, g)
  <2> DEFINE n == CHOOSE i \in DOMAIN list : list[i] = g
             rest == Unlinked(list, g)
  <2>3. n \in 1 .. Len(list) /\ list[n] = g
    BY <1>1 DEF Contains
  <2>4. rest = SubSeq(list, 1, n - 1) \o SubSeq(list, n + 1, Len(list))
    BY <1>1 DEF Unlinked, RemoveAt
  <2> HIDE DEF n, rest
  <2>5. /\ rest \in Seq(Groups) /\ Len(rest) = Len(list) - 1
        /\ \A k \in 1 .. Len(rest) : rest[k] = list[IF k < n THEN k ELSE k + 1]
    <3> DEFINE s == SubSeq(list, 1, n - 1)
               t == SubSeq(list, n + 1, Len(list))
    <3>1. /\ s \in Seq(Groups) /\ Len(s) = n - 1
          /\ \A k \in 1 .. (n - 1) : s[k] = list[k]
      BY <2>3
    <3>2. /\ t \in Seq(Groups) /\ Len(t) = Len(list) - n
          /\ \A k \in 1 .. (Len(list) - n) : t[k] = list[k + n]
      BY <2>3
    <3>3. rest = s \o t
      BY <2>4
    <3> HIDE DEF s, t
    <3>4. rest \in Seq(Groups) /\ Len(rest) = Len(s) + Len(t)
      BY <3>1, <3>2, <3>3, ConcatProperties
    <3>7. Len(list) \in Nat /\ n \in Nat /\ Len(rest) = Len(list) - 1
      BY <2>3, <3>1, <3>2, <3>4
    <3>5. ASSUME NEW k \in 1 .. Len(rest), k < n
          PROVE  rest[k] = list[k]
      <4>1. k \in 1 .. Len(s) /\ s[k] = list[k]
        BY <2>3, <3>1, <3>5
      <4> QED
        BY <3>1, <3>2, <3>3, <4>1, ConcatProperties
    <3>6. ASSUME NEW k \in 1 .. Len(rest), ~(k < n)
          PROVE  rest[k] = list[k + 1]
      <4>1. rest[k] = t[k - Len(s)]
        <5>1. k \in 1 .. (Len(s) + Len(t)) /\ ~(k <= Len(s))
          BY <2>3, <3>1, <3>2, <3>4, <3>6
        <5> QED
          BY <3>1, <3>2, <3>3, <5>1, ConcatProperties
      <4>2. k - Len(s) \in 1 .. (Len(list) - n)
        BY <2>3, <3>1, <3>2, <3>4, <3>6
      <4> QED
        BY <2>3, <3>1, <3>2, <3>6, <4>1, <4>2
    <3> QED
      BY <3>4, <3>5, <3>6, <3>7
  <2>6. IsInjective(rest)
    <3>1. DOMAIN rest = 1 .. Len(rest) /\ DOMAIN list = 1 .. Len(list) /\ Len(list) \in Nat
      BY <2>5, LenProperties
    <3>2. \A j, k \in 1 .. Len(list) : list[j] = list[k] => j = k
      BY <3>1 DEF IsInjective
    <3>3. \A j, k \in 1 .. Len(rest) : rest[j] = rest[k] => j = k
      BY <2>3, <2>5, <3>1, <3>2
    <3> QED
      BY <3>1, <3>3 DEF IsInjective
  <2>7. ASSUME NEW h \in Groups
        PROVE  Contains(rest, h) <=> Contains(list, h) /\ h # g
    <3>1. ASSUME Contains(rest, h)
          PROVE  Contains(list, h) /\ h # g
      <4>1. PICK k \in 1 .. Len(rest) : rest[k] = h
        BY <3>1 DEF Contains
      <4>2. PICK i \in 1 .. Len(list) : i # n /\ list[i] = h
        BY <2>3, <2>5, <4>1
      <4>3. \A j, m \in 1 .. Len(list) : list[j] = list[m] => j = m
        BY LenProperties DEF IsInjective
      <4> QED
        BY <2>3, <4>2, <4>3 DEF Contains
    <3>2. ASSUME Contains(list, h), h # g
          PROVE  Contains(rest, h)
      <4>1. PICK k \in 1 .. Len(list) : list[k] = h
        BY <3>2 DEF Contains
      <4>2. CASE k < n
        BY <2>3, <2>5, <4>1, <4>2 DEF Contains
      <4>3. CASE k > n
        <5>1. k - 1 \in 1 .. Len(rest) /\ rest[k - 1] = h
          BY <2>3, <2>5, <4>1, <4>3
        <5> QED
          BY <5>1 DEF Contains
      <4> QED
        BY <2>3, <3>2, <4>1, <4>2, <4>3
    <3> QED
      BY <3>1, <3>2
  <2> QED
    BY <2>5, <2>6, <2>7 DEF rest
<1>2. CASE ~Contains(list, g)
  BY <1>2 DEF Unlinked
<1> QED
  BY <1>1, <1>2

LEMMA ListedFirst ==
  ASSUME NEW list \in Seq(Groups), NEW g \in Groups, IsInjective(list), ~Contains(list, g)
  PROVE  /\ <<g>> \o list \in Seq(Groups) /\ IsInjective(<<g>> \o list)
         /\ \A h \in Groups : Contains(<<g>> \o list, h) <=> Contains(list, h) \/ h = g
<1> DEFINE more == <<g>> \o list
<1>1. /\ more \in Seq(Groups) /\ Len(more) = Len(list) + 1 /\ more[1] = g
      /\ \A k \in 2 .. Len(more) : more[k] = list[k - 1]
  OBVIOUS
<1>2. \A k \in 1 .. Len(list) : more[k + 1] = list[k]
  BY <1>1
<1> HIDE DEF more
<1>3. IsInjective(more)
  <2>1. DOMAIN more = 1 .. Len(more) /\ DOMAIN list = 1 .. Len(list) /\ Len(list) \in Nat
    BY <1>1, LenProperties
  <2>2. \A j, k \in 1 .. Len(list) : list[j] = list[k] => j = k
    BY <2>1 DEF IsInjective
  <2>3. \A j \in 1 .. Len(list) : list[j] # g
    BY DEF Contains
  <2>4. \A k \in 2 .. Len(more) : k - 1 \in 1 .. Len(list) /\ more[k] = list[k - 1]
    BY <1>1, <2>1
  <2>5. \A j, k \in 1 .. Len(more) : more[j] = more[k] => j = k
    BY <1>1, <2>1, <2>2, <2>3, <2>4
  <2> QED
    BY <2>1, <2>5 DEF IsInjective
<1>4. ASSUME NEW h \in Groups
      PROVE  Contains(more, h) <=> Contains(list, h) \/ h = g
  <2>1. ASSUME Contains(more, h), h # g
        PROVE  Contains(list, h)
    <3>1. PICK k \in 1 .. Len(more) : more[k] = h
      BY <2>1 DEF Contains
    <3>2. k - 1 \in 1 .. Len(list) /\ list[k - 1] = h
      BY <1>1, <2>1, <3>1
    <3> QED
      BY <3>2 DEF Contains
  <2>2. ASSUME Contains(list, h)
        PROVE  Contains(more, h)
    <3>1. PICK k \in 1 .. Len(list) : list[k] = h
      BY <2>2 DEF Contains
    <3>2. k + 1 \in 1 .. Len(more) /\ more[k + 1] = h
      BY <1>1, <1>2, <3>1
    <3> QED
      BY <3>2 DEF Contains
  <2>3. Contains(more, g)
    BY <1>1 DEF Contains
  <2> QED
    BY <2>1, <2>2, <2>3
<1> QED
  BY <1>1, <1>3, <1>4 DEF more

LEMMA PushedQueue ==
  ASSUME NEW queues \in [Groups -> Seq(Procs)], Sorted(queues), NEW p \in Procs
  PROVE  /\ Pushed(queues, p) \in [Groups -> Seq(Procs)] /\ Sorted(Pushed(queues, p))
         /\ \A g \in Groups : Len(Pushed(queues, p)[g]) =
              IF g = GroupOf[p] THEN Len(queues[g]) + 1 ELSE Len(queues[g])
<1>1. GroupOf[p] \in Groups
  BY GroupsAssumption
<1> DEFINE more == <<p>> \o queues[GroupOf[p]]
<1>2. /\ more \in Seq(Procs) /\ Len(more) = Len(queues[GroupOf[p]]) + 1 /\ more[1] = p
      /\ \A k \in 2 .. Len(more) : more[k] = queues[GroupOf[p]][k - 1]
  BY <1>1
<1>3. \A k \in DOMAIN more : GroupOf[more[k]] = GroupOf[p]
  BY <1>1, <1>2 DEF Sorted
<1>4. Pushed(queues, p) = [queues EXCEPT ![GroupOf[p]] = more]
  BY DEF Pushed
<1> HIDE DEF more
<1> QED
  BY <1>1, <1>2, <1>3, <1>4 DEF Sorted

LEMMA MinGroupWaits ==
  ASSUME NEW list \in Seq(Groups), NEW num, NEW cur, NEW prev,
         MinGroup(list, num, cur, prev) # None
  PROVE  LET g == MinGroup(list, num, cur, prev) IN
           g \in Groups /\ num[g] > Cardinality(Running(cur, g))
BY DEF MinGroup

-----------------------------------------------------------------------------
(* What a pick keeps, and what it may assume of the state its caller makes *)
(* for it: the core has no process, speculation and counts agree.          *)

Pickable(num, svt, queues, cur, spec) ==
  /\ num \in [Groups -> Nat] /\ svt \in [Groups -> Nat \cup {-1}]
  /\ queues \in [Groups -> Seq(Procs)] /\ Sorted(queues)
  /\ cur \in [Cores -> Procs \cup {None}]
  /\ spec \in [Groups -> [Cores -> Nat]]
  /\ Matches(cur, spec) /\ Counts(num, queues, cur)
  /\ \A g \in Groups : num[g] = 0 => svt[g] = -1

LEMMA AssignKeeps ==
  ASSUME NEW c \in Cores, NEW g \in Groups, NEW num, NEW svt, NEW queues, NEW cur, NEW spec,
         Pickable(num, svt, queues, cur, spec), cur[c] = None,
         num[g] > Cardinality(Running(cur, g)),
         Assign(c, g, svt, queues, cur, spec)
  PROVE  Pickable(num, spec_virt_time', runqueue', current', spec_time')
<1> USE DEF Pickable
<1> DEFINE q == queues[g]
           p == Head(q)
<1>1. /\ q \in Seq(Procs) /\ Len(q) \in Nat /\ Len(q) > 0
      /\ Cardinality(Running(cur, g)) \in Nat
  BY RunningFinite DEF Counts
<1>2. /\ p \in Procs /\ p = q[1] /\ Tail(q) \in Seq(Procs) /\ Len(Tail(q)) = Len(q) - 1
      /\ \A i \in 1 .. Len(Tail(q)) : Tail(q)[i] = q[i + 1]
  BY <1>1
<1>3. \A i \in 1 .. Len(q) : GroupOf[q[i]] = g
  BY <1>1, LenProperties DEF Sorted
<1>4. GroupOf[p] = g
  BY <1>1, <1>2, <1>3
<1>5. /\ current' = [cur EXCEPT ![c] = p] /\ runqueue' = [queues EXCEPT ![g] = Tail(q)]
      /\ spec_virt_time' = [svt EXCEPT ![g] = svt[g] + Cost[g]]
      /\ spec_time' = [spec EXCEPT ![g][c] = spec[g][c] + 1]
  BY DEF Assign
<1> HIDE DEF q, p
<1>6. runqueue' \in [Groups -> Seq(Procs)] /\ Sorted(runqueue')
  <2>1. DOMAIN Tail(q) = 1 .. Len(Tail(q))
    BY <1>2, LenProperties
  <2>2. \A i \in DOMAIN Tail(q) : GroupOf[Tail(q)[i]] = g
    BY <1>1, <1>2, <1>3, <2>1
  <2> QED
    BY <1>2, <1>5, <2>2 DEF Sorted
<1>7. spec_virt_time' \in [Groups -> Nat \cup {-1}]
  <2>1. svt[g] \in Nat \cup {-1} /\ Cost[g] \in Nat /\ Cost[g] # 0
    BY GroupsAssumption
  <2>2. svt[g] + Cost[g] \in Nat
    BY <2>1
  <2> QED
    BY <1>5, <2>2
<1>8. current' \in [Cores -> Procs \cup {None}] /\ spec_time' \in [Groups -> [Cores -> Nat]]
  BY <1>2, <1>5
<1>9. \A h \in Groups :
        /\ Running(current', h) = IF h = g THEN Running(cur, h) \cup {c} ELSE Running(cur, h)
        /\ Cardinality(Running(current', h)) =
             IF h = g THEN Cardinality(Running(cur, h)) + 1 ELSE Cardinality(Running(cur, h))
  <2> SUFFICES ASSUME NEW h \in Groups
               PROVE  /\ Running(current', h) =
                           IF h = g THEN Running(cur, h) \cup {c} ELSE Running(cur, h)
                      /\ Cardinality(Running(current', h)) =
                           IF h = g THEN Cardinality(Running(cur, h)) + 1
                           ELSE Cardinality(Running(cur, h))
    OBVIOUS
  <2>1. cur \in [Cores -> Procs \cup {None}] /\ current' = [cur EXCEPT ![c] = p]
    BY <1>5
  <2>2. Running(current', h) = IF h = g THEN Running(cur, h) \cup {c} ELSE Running(cur, h)
    BY <1>2, <1>4, <2>1, NoneAssumption DEF Running
  <2>3. c \notin Running(cur, h)
    BY DEF Running
  <2>4. IsFiniteSet(Running(cur, h))
    BY RunningFinite
  <2>5. Cardinality(Running(cur, h) \cup {c}) = Cardinality(Running(cur, h)) + 1
    BY <2>3, <2>4, FS_AddElement
  <2> QED
    BY <2>2, <2>5
<1>10. Matches(current', spec_time')
  <2>1. ASSUME NEW h \in Groups, NEW d \in Cores
        PROVE  spec_time'[h][d] = IF d \in Running(current', h) THEN 1 ELSE 0
    <3>1. spec[h][d] = IF d \in Running(cur, h) THEN 1 ELSE 0
      BY DEF Matches
    <3>2. c \notin Running(cur, g)
      BY DEF Running
    <3>3. spec_time'[h][d] = IF h = g /\ d = c THEN spec[h][d] + 1 ELSE spec[h][d]
      BY <1>5
    <3> QED
      BY <1>9, <3>1, <3>2, <3>3
  <2> QED
    BY <2>1 DEF Matches
<1>11. Counts(num, runqueue', current')
  <2>1. \A h \in Groups : Cardinality(Running(cur, h)) \in Nat /\ Len(queues[h]) \in Nat
    BY RunningFinite, LenProperties
  <2>2. \A h \in Groups : Len(runqueue'[h]) = IF h = g THEN Len(queues[h]) - 1 ELSE Len(queues[h])
    BY <1>2, <1>5 DEF q
  <2>3. \A h \in Groups : num[h] = Len(queues[h]) + Cardinality(Running(cur, h))
    BY DEF Counts
  <2>4. ASSUME NEW h \in Groups
        PROVE  num[h] = Len(runqueue'[h]) + Cardinality(Running(current', h))
    <3>1. CASE h = g
      <4>1. Cardinality(Running(current', h)) = Cardinality(Running(cur, h)) + 1
        BY <1>9, <3>1
      <4> QED
        BY <2>1, <2>2, <2>3, <3>1, <4>1
    <3>2. CASE h # g
      <4>1. Cardinality(Running(current', h)) = Cardinality(Running(cur, h))
        BY <1>9, <3>2
      <4> QED
        BY <2>1, <2>2, <2>3, <3>2, <4>1
    <3> QED
      BY <3>1, <3>2
  <2> QED
    BY <2>4 DEF Counts
<1>12. \A h \in Groups : num[h] = 0 => spec_virt_time'[h] = -1
  BY <1>1, <1>5
<1> QED
  BY <1>6, <1>7, <1>8, <1>10, <1>11, <1>12

LEMMA PickKeeps ==
  ASSUME NEW c \in Cores, NEW list \in Seq(Groups), NEW num, NEW svt, NEW queues, NEW cur,
         NEW spec, NEW prev, Pickable(num, svt, queues, cur, spec), cur[c] = None,
         PickFrom(c, list, num, svt, queues, cur, spec, prev)
  PROVE  Pickable(num, spec_virt_time', runqueue', current', spec_time')
<1> DEFINE g == MinGroup(list, num, cur, prev)
<1>1. CASE g = None
  BY <1>1 DEF PickFrom, Pickable
<1>2. CASE g # None
  <2>1. g \in Groups /\ num[g] > Cardinality(Running(cur, g))
    BY <1>2, MinGroupWaits
  <2>2. Assign(c, g, svt, queues, cur, spec)
    BY <1>2 DEF PickFrom
  <2> HIDE DEF g
  <2> QED
    BY <2>1, <2>2, AssignKeeps
<1> QED
  BY <1>1, <1>2

(* The invariant, as pick and enqueue see it.                              *)
LEMMA PickableNow ==
  ASSUME IInv
  PROVE  Pickable(num_threads, spec_virt_time, runqueue, current, spec_time)
BY DEF IInv, TypeOK, QueueCount, ResetWhenEmpty, Pickable, Sorted, Counts

LEMMA PickableThen ==
  ASSUME Pickable(num_threads, spec_virt_time, runqueue, current, spec_time)',
         ListedByThreads', groups' \in Seq(Groups), ~failed', pool' \in [Cores -> Seq(Procs)],
         todo' \in Seq(Procs), pc' \in [Cores -> {"schedule", "choose"}], failed' \in BOOLEAN
  PROVE  IInv'
BY DEF IInv, TypeOK, AssertionsHold, QueueCount, ResetWhenEmpty, Pickable, Sorted, Counts

-----------------------------------------------------------------------------
(* The handlers.                                                           *)

Consequence == Pickable(num_threads, spec_virt_time, runqueue, current, spec_time)'
                 /\ ListedByThreads' /\ groups' \in Seq(Groups) /\ failed' = FALSE

LEMMA EnqueueKeeps ==
  ASSUME IInv, NEW p \in Procs, EnqueueProc(p)
  PROVE  Consequence
<1> DEFINE g == GroupOf[p]
<1>1. g \in Groups
  BY GroupsAssumption
<1>2. Pickable(num_threads, spec_virt_time, runqueue, current, spec_time)
  BY PickableNow
<1>3. /\ num_threads' = [num_threads EXCEPT ![g] = num_threads[g] + 1]
      /\ runqueue' = Pushed(runqueue, p) /\ UNCHANGED <<spec_time, current>>
  BY DEF EnqueueProc
<1> HIDE DEF g
<1>4. /\ runqueue' \in [Groups -> Seq(Procs)] /\ Sorted(runqueue')
      /\ \A h \in Groups : Len(runqueue'[h]) = IF h = g THEN Len(runqueue[h]) + 1 ELSE Len(runqueue[h])
  BY <1>2, <1>3, PushedQueue DEF Pickable, g
<1>5. Counts(num_threads', runqueue', current')
  <2>1. \A h \in Groups : /\ num_threads[h] = Len(runqueue[h]) + Cardinality(Running(current, h))
                          /\ Len(runqueue[h]) \in Nat /\ Cardinality(Running(current, h)) \in Nat
    BY <1>2, LenProperties, RunningFinite DEF Pickable, Counts
  <2>2. \A h \in Groups : num_threads'[h] = IF h = g THEN num_threads[h] + 1 ELSE num_threads[h]
    BY <1>2, <1>3 DEF Pickable
  <2>3. ASSUME NEW h \in Groups
        PROVE  num_threads'[h] = Len(runqueue'[h]) + Cardinality(Running(current', h))
    <3>1. Cardinality(Running(current', h)) = Cardinality(Running(current, h))
      BY <1>3 DEF Running
    <3>2. CASE h = g
      <4>1. num_threads'[h] = num_threads[h] + 1 /\ Len(runqueue'[h]) = Len(runqueue[h]) + 1
        BY <1>4, <2>2, <3>2
      <4> QED
        BY <2>1, <3>1, <4>1
    <3>3. CASE h # g
      <4>1. num_threads'[h] = num_threads[h] /\ Len(runqueue'[h]) = Len(runqueue[h])
        BY <1>4, <2>2, <3>3
      <4> QED
        BY <2>1, <3>1, <4>1
    <3> QED
      BY <3>2, <3>3
  <2> QED
    BY <2>3 DEF Counts
<1>6. /\ num_threads' \in [Groups -> Nat] /\ Matches(current', spec_time')
      /\ current' \in [Cores -> Procs \cup {None}] /\ spec_time' \in [Groups -> [Cores -> Nat]]
      /\ \A h \in Groups : num_threads'[h] = 0 => h # g /\ num_threads[h] = 0
  BY <1>1, <1>2, <1>3 DEF Pickable, Matches, Running
<1>7. CASE num_threads[g] = 0
  <2> DEFINE list == <<g>> \o groups
             S == {IntMax} \cup {spec_virt_time[list[i]] : i \in DOMAIN list}
  <2>1. /\ spec_virt_time[g] = -1 /\ groups' = list
        /\ spec_virt_time' = [spec_virt_time EXCEPT ![g] = Min(S)] /\ failed' = FALSE
    BY <1>1, <1>2, <1>7 DEF EnqueueProc, Pickable, g
  <2>2. ~Contains(groups, g) /\ IsInjective(groups) /\ groups \in Seq(Groups)
    BY <1>1, <1>7 DEF IInv, ListedByThreads, TypeOK
  <2>3. /\ list \in Seq(Groups) /\ IsInjective(list)
        /\ \A h \in Groups : Contains(list, h) <=> Contains(groups, h) \/ h = g
    BY <1>1, <2>2, ListedFirst
  <2>4. DOMAIN list = 1 .. Len(list) /\ \A i \in DOMAIN list : list[i] \in Groups
    BY <2>3, LenProperties
  <2>5. 1 \in DOMAIN list /\ list[1] = g
    BY <1>1, <2>2
  <2>6. -1 \in S /\ \A x \in S : x \in Int /\ -1 <= x
    <3>1. -1 \in S
      BY <2>1, <2>5
    <3>2. ASSUME NEW i \in DOMAIN list
          PROVE  spec_virt_time[list[i]] \in Nat \cup {-1}
      BY <1>2, <2>4 DEF Pickable
    <3> HIDE DEF list
    <3> QED
      BY <3>1, <3>2, TimesAssumption
  <2> HIDE DEF list, S
  <2>7. Min(S) = -1
    BY <2>6 DEF Min
  <2>8. /\ spec_virt_time' \in [Groups -> Nat \cup {-1}]
        /\ \A h \in Groups : num_threads'[h] = 0 => spec_virt_time'[h] = -1
    BY <1>1, <1>2, <1>6, <2>1, <2>7 DEF Pickable
  <2>9. Pickable(num_threads, spec_virt_time, runqueue, current, spec_time)'
    BY <1>4, <1>5, <1>6, <2>8 DEF Pickable
  <2>10. ListedByThreads'
    BY <1>1, <1>2, <1>3, <2>1, <2>3 DEF IInv, ListedByThreads, Pickable
  <2> QED
    BY <2>1, <2>3, <2>10, <2>9 DEF Consequence
<1>8. CASE num_threads[g] # 0
  <2>1. UNCHANGED <<groups, spec_virt_time, failed>>
    BY <1>8 DEF EnqueueProc, g
  <2>2. Pickable(num_threads, spec_virt_time, runqueue, current, spec_time)'
    BY <1>2, <1>4, <1>5, <1>6, <2>1 DEF Pickable
  <2>3. ListedByThreads'
    BY <1>1, <1>2, <1>3, <1>8, <2>1 DEF IInv, ListedByThreads, Pickable
  <2> QED
    BY <2>1, <2>2, <2>3 DEF Consequence, IInv, TypeOK, AssertionsHold
<1> QED
  BY <1>7, <1>8

(* A core gives its process up: one core and one node less.                *)
GroupOn(c) == GroupOf[current[c]]
Stopped(c) == [current EXCEPT ![c] = None]

LEMMA StopKeeps ==
  ASSUME IInv, NEW c \in Cores, NEW g, NEW cur,
         current[c] # None, g = GroupOn(c), cur = Stopped(c)
  PROVE  /\ g \in Groups /\ current[c] \in Procs
         /\ spec_time[g][c] = 1 /\ num_threads[g] > 0 /\ Cardinality(Running(current, g)) > 0
         /\ cur \in [Cores -> Procs \cup {None}] /\ cur[c] = None
         /\ Collapsed(g, c) \in [Groups -> [Cores -> Nat]] /\ Matches(cur, Collapsed(g, c))
         /\ \A h \in Groups : /\ Running(cur, h) = Running(current, h) \ {c}
                              /\ Cardinality(Running(cur, h)) =
                                   IF h = g THEN Cardinality(Running(current, h)) - 1
                                   ELSE Cardinality(Running(current, h))
<1> USE DEF GroupOn, Stopped
<1>1. /\ current \in [Cores -> Procs \cup {None}] /\ spec_time \in [Groups -> [Cores -> Nat]]
      /\ num_threads \in [Groups -> Nat] /\ runqueue \in [Groups -> Seq(Procs)]
      /\ Matches(current, spec_time) /\ QueueCount
  BY DEF IInv, TypeOK
<1>2. current[c] \in Procs /\ g \in Groups
  BY <1>1, GroupsAssumption
<1>3. c \in Running(current, g) /\ \A h \in Groups : h # g => c \notin Running(current, h)
  BY DEF Running
<1>4. spec_time[g][c] = 1
  BY <1>1, <1>2, <1>3 DEF Matches
<1>5. IsFiniteSet(Running(current, g)) /\ Cardinality(Running(current, g)) \in Nat
  BY RunningFinite
<1>6. Cardinality(Running(current, g)) > 0
  BY <1>3, <1>5, FS_EmptySet
<1>7. num_threads[g] > 0
  <2>1. Len(runqueue[g]) \in Nat
    BY <1>1, <1>2, LenProperties
  <2> QED
    BY <1>1, <1>2, <1>5, <1>6, <2>1 DEF QueueCount
<1>8. cur \in [Cores -> Procs \cup {None}] /\ cur[c] = None
  BY <1>1
<1>9. ASSUME NEW h \in Groups
      PROVE  /\ Running(cur, h) = Running(current, h) \ {c}
             /\ Cardinality(Running(cur, h)) =
                  IF h = g THEN Cardinality(Running(current, h)) - 1
                  ELSE Cardinality(Running(current, h))
  <2>1. Running(cur, h) = Running(current, h) \ {c}
    BY <1>1 DEF Running
  <2>2. IsFiniteSet(Running(current, h))
    BY RunningFinite
  <2>3. Cardinality(Running(current, h) \ {c}) =
          IF c \in Running(current, h) THEN Cardinality(Running(current, h)) - 1
          ELSE Cardinality(Running(current, h))
    BY <2>2, FS_RemoveElement
  <2> QED
    BY <1>3, <2>1, <2>3
<1>10. Collapsed(g, c) \in [Groups -> [Cores -> Nat]]
  BY <1>1, <1>2, <1>4 DEF Collapsed
<1>11. ASSUME NEW h \in Groups, NEW d \in Cores
       PROVE  Collapsed(g, c)[h][d] = IF d \in Running(cur, h) THEN 1 ELSE 0
  <2>1. Collapsed(g, c)[h][d] = IF h = g /\ d = c THEN 0 ELSE spec_time[h][d]
    BY <1>1, <1>2, <1>4 DEF Collapsed
  <2>2. spec_time[h][d] = IF d \in Running(current, h) THEN 1 ELSE 0
    BY <1>1 DEF Matches
  <2> QED
    BY <1>3, <1>9, <2>1, <2>2
<1> QED
  BY <1>2, <1>4, <1>6, <1>7, <1>8, <1>9, <1>10, <1>11 DEF Matches

(* What the pick of a tick finds: the process that ran counts as queued.   *)
LEMMA TickPickable ==
  ASSUME IInv, NEW c \in Cores
  PROVE  LET p == current[c]
             g == GroupOf[p]
             cur == [current EXCEPT ![c] = None]
             spec == IF p = None THEN spec_time ELSE Collapsed(g, c)
             queues == IF p = None THEN runqueue ELSE Pushed(runqueue, p)
         IN  /\ Pickable(num_threads, spec_virt_time, queues, cur, spec) /\ cur[c] = None
             /\ ~(p # None /\ spec_time[g][c] = 0)
<1> DEFINE p == current[c]
           g == GroupOf[p]
           cur == [current EXCEPT ![c] = None]
           spec == IF p = None THEN spec_time ELSE Collapsed(g, c)
           queues == IF p = None THEN runqueue ELSE Pushed(runqueue, p)
<1>1. Pickable(num_threads, spec_virt_time, runqueue, current, spec_time)
  BY PickableNow
<1>2. CASE p = None
  <2>1. cur = current /\ spec = spec_time /\ queues = runqueue
    BY <1>1, <1>2 DEF Pickable
  <2> HIDE DEF cur, spec, queues
  <2>2. Pickable(num_threads, spec_virt_time, queues, cur, spec) /\ cur[c] = None
    BY <1>1, <1>2, <2>1
  <2> QED
    BY <1>2, <2>2 DEF cur, spec, queues
<1>3. CASE p # None
  <2> HIDE DEF cur, g
  <2>1. cur = Stopped(c) /\ g = GroupOn(c) /\ current[c] # None
    BY <1>3 DEF cur, g, Stopped, GroupOn
  <2>2. /\ g \in Groups /\ p \in Procs /\ spec_time[g][c] = 1
        /\ cur \in [Cores -> Procs \cup {None}] /\ cur[c] = None
        /\ Collapsed(g, c) \in [Groups -> [Cores -> Nat]] /\ Matches(cur, Collapsed(g, c))
        /\ \A h \in Groups : Cardinality(Running(cur, h)) =
                                IF h = g THEN Cardinality(Running(current, h)) - 1
                                ELSE Cardinality(Running(current, h))
    BY <1>3, <2>1, StopKeeps DEF p
  <2>3. spec = Collapsed(g, c) /\ queues = Pushed(runqueue, p)
    BY <1>3
  <2> HIDE DEF spec, queues
  <2>4. /\ queues \in [Groups -> Seq(Procs)] /\ Sorted(queues)
        /\ \A h \in Groups : Len(queues[h]) =
             IF h = g THEN Len(runqueue[h]) + 1 ELSE Len(runqueue[h])
    BY <1>1, <2>2, <2>3, PushedQueue DEF Pickable, g
  <2> HIDE DEF p, g
  <2>5. ASSUME NEW h \in Groups
        PROVE  num_threads[h] = Len(queues[h]) + Cardinality(Running(cur, h))
    <3>1. /\ num_threads[h] = Len(runqueue[h]) + Cardinality(Running(current, h))
          /\ Len(runqueue[h]) \in Nat /\ Cardinality(Running(current, h)) \in Nat
      BY <1>1, LenProperties, RunningFinite DEF Pickable, Counts
    <3>2. CASE h = g
      <4>1. /\ Len(queues[h]) = Len(runqueue[h]) + 1
            /\ Cardinality(Running(cur, h)) = Cardinality(Running(current, h)) - 1
        BY <2>2, <2>4, <3>2
      <4> QED
        BY <3>1, <4>1
    <3>3. CASE h # g
      <4>1. /\ Len(queues[h]) = Len(runqueue[h])
            /\ Cardinality(Running(cur, h)) = Cardinality(Running(current, h))
        BY <2>2, <2>4, <3>3
      <4> QED
        BY <3>1, <4>1
    <3> QED
      BY <3>2, <3>3
  <2>6. Counts(num_threads, queues, cur)
    BY <2>5 DEF Counts
  <2>7. Pickable(num_threads, spec_virt_time, queues, cur, spec)
    BY <1>1, <2>2, <2>3, <2>4, <2>6 DEF Pickable
  <2> QED
    BY <2>2, <2>7 DEF g, p, cur, spec, queues
<1> QED
  BY <1>2, <1>3

LEMMA ScheduleKeeps ==
  ASSUME IInv, NEW c \in Cores, ScheduleTick(c)
  PROVE  Consequence
<1> DEFINE p == current[c]
           g == GroupOf[p]
           cur == [current EXCEPT ![c] = None]
           spec == IF p = None THEN spec_time ELSE Collapsed(g, c)
           queues == IF p = None THEN runqueue ELSE Pushed(runqueue, p)
           prev == IF p = None THEN None ELSE g
<1>1. /\ failed' = \/ p # None /\ spec_time[g][c] = 0
                   \/ \E i \in DOMAIN groups : ~Consistent(cur, spec, groups[i])
      /\ PickFrom(c, groups, num_threads, spec_virt_time, queues, cur, spec, prev)
      /\ UNCHANGED <<groups, num_threads>>
  BY DEF ScheduleTick
<1>3. /\ Pickable(num_threads, spec_virt_time, queues, cur, spec) /\ cur[c] = None
      /\ ~(p # None /\ spec_time[g][c] = 0)
  BY TickPickable
<1> HIDE DEF p, g, cur, spec, queues, prev
<1>4. groups \in Seq(Groups)
  BY DEF IInv, TypeOK
<1>5. Pickable(num_threads, spec_virt_time', runqueue', current', spec_time')
  BY <1>1, <1>3, <1>4, PickKeeps
<1>6. \A i \in DOMAIN groups : Consistent(cur, spec, groups[i])
  <2>1. Matches(cur, spec)
    BY <1>3 DEF Pickable
  <2> QED
    BY <1>4, <2>1, ListConsistent
<1>7. failed' = FALSE
  BY <1>1, <1>3, <1>6
<1>8. ListedByThreads'
  BY <1>1 DEF IInv, ListedByThreads
<1> QED
  BY <1>1, <1>4, <1>5, <1>7, <1>8 DEF Consequence

(* A process leaves with its core: its group has one thread less.          *)
Remaining(g) == [num_threads EXCEPT ![g] = @ - 1]

LEMMA LeaverCounts ==
  ASSUME IInv, NEW c \in Cores, NEW g, NEW cur, NEW num,
         current[c] # None, g = GroupOn(c), cur = Stopped(c), num = Remaining(g)
  PROVE  /\ num \in [Groups -> Nat] /\ Counts(num, runqueue, cur)
         /\ \A h \in Groups : num[h] = IF h = g THEN num_threads[h] - 1 ELSE num_threads[h]
<1>1. /\ g \in Groups /\ num_threads[g] > 0
      /\ \A h \in Groups : Cardinality(Running(cur, h)) =
                              IF h = g THEN Cardinality(Running(current, h)) - 1
                              ELSE Cardinality(Running(current, h))
  BY StopKeeps
<1>2. Pickable(num_threads, spec_virt_time, runqueue, current, spec_time)
  BY PickableNow
<1>3. /\ num \in [Groups -> Nat]
      /\ \A h \in Groups : num[h] = IF h = g THEN num_threads[h] - 1 ELSE num_threads[h]
  BY <1>1, <1>2 DEF Pickable, Remaining
<1>4. ASSUME NEW h \in Groups
      PROVE  num[h] = Len(runqueue[h]) + Cardinality(Running(cur, h))
  <2>1. /\ num_threads[h] = Len(runqueue[h]) + Cardinality(Running(current, h))
        /\ Len(runqueue[h]) \in Nat /\ Cardinality(Running(current, h)) \in Nat
    BY <1>2, LenProperties, RunningFinite DEF Pickable, Counts
  <2>2. CASE h = g
    <3>1. /\ Cardinality(Running(cur, h)) = Cardinality(Running(current, h)) - 1
          /\ num[h] = num_threads[h] - 1
      BY <1>1, <1>3, <2>2
    <3> QED
      BY <2>1, <3>1
  <2>3. CASE h # g
    <3>1. Cardinality(Running(cur, h)) = Cardinality(Running(current, h)) /\ num[h] = num_threads[h]
      BY <1>1, <1>3, <2>3
    <3> QED
      BY <2>1, <3>1
  <2> QED
    BY <2>2, <2>3
<1> QED
  BY <1>3, <1>4 DEF Counts

LEMMA DequeueOneKeeps ==
  ASSUME IInv, NEW c \in Cores, current[c] # None, DequeueOne(current[c], c)
  PROVE  Consequence
<1> DEFINE g == GroupOf[current[c]]
           num == [num_threads EXCEPT ![g] = @ - 1]
           cur == [current EXCEPT ![c] = None]
<1>1. /\ num[g] # 0 /\ num_threads' = num
      /\ failed' = \/ spec_time[g][c] = 0
                   \/ \E i \in DOMAIN groups : ~Consistent(cur, Collapsed(g, c), groups[i])
      /\ PickFrom(c, groups, num, spec_virt_time, runqueue, cur, Collapsed(g, c), g)
      /\ UNCHANGED groups
  BY DEF DequeueOne
<1> HIDE DEF g, num, cur
<1>0. g = GroupOn(c) /\ cur = Stopped(c) /\ num = Remaining(g)
  BY DEF g, num, cur, GroupOn, Stopped, Remaining
<1>2. Pickable(num_threads, spec_virt_time, runqueue, current, spec_time)
  BY PickableNow
<1>3. /\ g \in Groups /\ spec_time[g][c] = 1 /\ num_threads[g] > 0
      /\ cur \in [Cores -> Procs \cup {None}] /\ cur[c] = None
      /\ Collapsed(g, c) \in [Groups -> [Cores -> Nat]] /\ Matches(cur, Collapsed(g, c))
  BY <1>0, StopKeeps
<1>4. /\ num \in [Groups -> Nat] /\ Counts(num, runqueue, cur)
      /\ \A h \in Groups : num[h] = IF h = g THEN num_threads[h] - 1 ELSE num_threads[h]
  BY <1>0, LeaverCounts
<1>5. \A h \in Groups : num[h] = 0 => num_threads[h] = 0
  BY <1>1, <1>4
<1>6. Pickable(num, spec_virt_time, runqueue, cur, Collapsed(g, c))
  BY <1>2, <1>3, <1>4, <1>5 DEF Pickable
<1>7. groups \in Seq(Groups)
  BY DEF IInv, TypeOK
<1>8. Pickable(num, spec_virt_time', runqueue', current', spec_time')
  BY <1>1, <1>3, <1>6, <1>7, PickKeeps
<1>9. failed' = FALSE
  BY <1>1, <1>3, <1>7, ListConsistent
<1>10. ListedByThreads'
  <2>1. \A h \in Groups : num[h] > 0 <=> num_threads[h] > 0
    <3>1. /\ num[g] > 0 /\ num_threads[g] > 0
          /\ \A h \in Groups : h # g => num[h] = num_threads[h]
      BY <1>1, <1>3, <1>4
    <3> QED
      BY <3>1
  <2> QED
    BY <1>1, <2>1 DEF IInv, ListedByThreads
<1> QED
  BY <1>1, <1>7, <1>8, <1>9, <1>10 DEF Consequence

(* The state that dequeue makes for the pick when a group loses its last.  *)
LEMMA LastPickable ==
  ASSUME IInv, NEW c \in Cores, current[c] # None,
         Remaining(GroupOn(c))[GroupOn(c)] = 0
  PROVE  LET g == GroupOf[current[c]]
             num == [num_threads EXCEPT ![g] = @ - 1]
             cur == [current EXCEPT ![c] = None]
             spec == [spec_time EXCEPT ![g] = [d \in Cores |-> 0]]
             svt == [spec_virt_time EXCEPT ![g] = -1]
         IN  /\ Pickable(num, svt, runqueue, cur, spec) /\ cur[c] = None
             /\ Cardinality(Running(current, g)) = 1
<1> DEFINE g == GroupOf[current[c]]
           num == [num_threads EXCEPT ![g] = @ - 1]
           cur == [current EXCEPT ![c] = None]
           spec == [spec_time EXCEPT ![g] = [d \in Cores |-> 0]]
           svt == [spec_virt_time EXCEPT ![g] = -1]
<1> HIDE DEF g, num, cur
<1>0. g = GroupOn(c) /\ cur = Stopped(c) /\ num = Remaining(g)
  BY DEF g, num, cur, GroupOn, Stopped, Remaining
<1>1. num[g] = 0
  BY <1>0
<1>2. Pickable(num_threads, spec_virt_time, runqueue, current, spec_time)
  BY PickableNow
<1>3. /\ g \in Groups /\ num_threads[g] > 0 /\ Cardinality(Running(current, g)) > 0
      /\ cur \in [Cores -> Procs \cup {None}] /\ cur[c] = None
      /\ \A h \in Groups : /\ Running(cur, h) = Running(current, h) \ {c}
                           /\ Cardinality(Running(cur, h)) =
                                IF h = g THEN Cardinality(Running(current, h)) - 1
                                ELSE Cardinality(Running(current, h))
  BY <1>0, StopKeeps
<1>4. /\ num \in [Groups -> Nat] /\ Counts(num, runqueue, cur)
      /\ \A h \in Groups : num[h] = IF h = g THEN num_threads[h] - 1 ELSE num_threads[h]
  BY <1>0, LeaverCounts
<1>5. /\ spec \in [Groups -> [Cores -> Nat]] /\ svt \in [Groups -> Nat \cup {-1}]
      /\ \A h \in Groups, d \in Cores : spec[h][d] = IF h = g THEN 0 ELSE spec_time[h][d]
      /\ \A h \in Groups : svt[h] = IF h = g THEN -1 ELSE spec_virt_time[h]
  BY <1>2, <1>3 DEF Pickable
<1>6. Cardinality(Running(current, g)) = 1 /\ Cardinality(Running(cur, g)) = 0
  <2>1. /\ num_threads[g] = Len(runqueue[g]) + Cardinality(Running(current, g))
        /\ Len(runqueue[g]) \in Nat /\ Cardinality(Running(current, g)) \in Nat
        /\ num_threads[g] \in Nat
    BY <1>2, <1>3, LenProperties, RunningFinite DEF Pickable, Counts
  <2>2. num_threads[g] = 1 /\ Cardinality(Running(cur, g)) = Cardinality(Running(current, g)) - 1
    BY <1>1, <1>3, <1>4, <2>1
  <2> QED
    BY <1>3, <2>1, <2>2
<1>7. Running(cur, g) = {}
  BY <1>6, RunningFinite, FS_EmptySet
<1> HIDE DEF spec, svt
<1>8. Matches(cur, spec)
  <2>1. ASSUME NEW h \in Groups, NEW d \in Cores
        PROVE  spec[h][d] = IF d \in Running(cur, h) THEN 1 ELSE 0
    <3>1. CASE h = g
      BY <1>5, <1>7, <3>1
    <3>2. CASE h # g
      <4>1. c \notin Running(current, h)
        BY <3>2 DEF Running, g
      <4>2. Running(cur, h) = Running(current, h)
        BY <1>3, <4>1
      <4> QED
        BY <1>2, <1>5, <3>2, <4>2 DEF Pickable, Matches
    <3> QED
      BY <3>1, <3>2
  <2> QED
    BY <2>1 DEF Matches
<1>9. \A h \in Groups : num[h] = 0 => svt[h] = -1
  BY <1>2, <1>4, <1>5 DEF Pickable
<1>10. Pickable(num, svt, runqueue, cur, spec)
  BY <1>2, <1>3, <1>4, <1>5, <1>8, <1>9 DEF Pickable
<1> QED
  BY <1>3, <1>6, <1>10 DEF g, num, cur, spec, svt

LEMMA DequeueLastKeeps ==
  ASSUME IInv, NEW c \in Cores, current[c] # None, DequeueLast(current[c], c)
  PROVE  Consequence
<1> DEFINE g == GroupOf[current[c]]
           num == [num_threads EXCEPT ![g] = @ - 1]
           cur == [current EXCEPT ![c] = None]
           list == Unlinked(groups, g)
           spec == [spec_time EXCEPT ![g] = [d \in Cores |-> 0]]
           svt == [spec_virt_time EXCEPT ![g] = -1]
<1>1. /\ num[g] = 0 /\ num_threads' = num /\ groups' = list
      /\ failed' = \/ Cardinality(Nodes(spec_time, g)) # 1
                   \/ \E i \in DOMAIN list : ~Consistent(cur, spec, list[i])
      /\ PickFrom(c, list, num, svt, runqueue, cur, spec, None)
  BY DEF DequeueLast
<1> HIDE DEF g, num, cur
<1>0. g = GroupOn(c) /\ cur = Stopped(c) /\ num = Remaining(g)
  BY DEF g, num, cur, GroupOn, Stopped, Remaining
<1>2. Pickable(num_threads, spec_virt_time, runqueue, current, spec_time)
  BY PickableNow
<1>3. /\ g \in Groups /\ num_threads[g] > 0 /\ Cardinality(Running(current, g)) > 0
      /\ cur \in [Cores -> Procs \cup {None}] /\ cur[c] = None
      /\ \A h \in Groups : /\ Running(cur, h) = Running(current, h) \ {c}
                           /\ Cardinality(Running(cur, h)) =
                                IF h = g THEN Cardinality(Running(current, h)) - 1
                                ELSE Cardinality(Running(current, h))
  BY <1>0, StopKeeps
<1>4. /\ num \in [Groups -> Nat] /\ Counts(num, runqueue, cur)
      /\ \A h \in Groups : num[h] = IF h = g THEN num_threads[h] - 1 ELSE num_threads[h]
  BY <1>0, LeaverCounts
<1>5. /\ list \in Seq(Groups) /\ IsInjective(list)
      /\ \A h \in Groups : Contains(list, h) <=> Contains(groups, h) /\ h # g
  <2>1. groups \in Seq(Groups) /\ IsInjective(groups)
    BY DEF IInv, TypeOK, ListedByThreads
  <2> QED
    BY <1>3, <2>1, UnlinkedList
<1>6. /\ Pickable(num, svt, runqueue, cur, spec) /\ cur[c] = None
      /\ Cardinality(Running(current, g)) = 1
  <2>1. Remaining(GroupOn(c))[GroupOn(c)] = 0
    BY <1>0, <1>1
  <2> QED
    BY <2>1, LastPickable DEF g, num, cur, spec, svt
<1> HIDE DEF list, spec, svt
<1>7. Matches(cur, spec)
  BY <1>6 DEF Pickable
<1>8. Pickable(num, spec_virt_time', runqueue', current', spec_time')
  BY <1>1, <1>5, <1>6, PickKeeps
<1>9. failed' = FALSE
  <2>1. Cardinality(Nodes(spec_time, g)) = 1
    BY <1>2, <1>3, <1>6, NodesCounted DEF Pickable
  <2> QED
    BY <1>1, <1>5, <1>7, <2>1, ListConsistent
<1>10. ListedByThreads'
  <2>1. \A h \in Groups : num[h] > 0 <=> num_threads[h] > 0 /\ h # g
    BY <1>1, <1>4
  <2>2. \A h \in Groups : Contains(groups, h) <=> num_threads[h] > 0
    BY DEF IInv, ListedByThreads
  <2> QED
    BY <1>1, <1>5, <2>1, <2>2 DEF ListedByThreads
<1> QED
  BY <1>1, <1>5, <1>8, <1>9, <1>10 DEF Consequence

-----------------------------------------------------------------------------
LEMMA InitInv == Init => IInv
<1> SUFFICES ASSUME Init
             PROVE  IInv
  OBVIOUS
<1> USE DEF Init
<1>1. \A g \in Groups : Running(current, g) = {}
  BY DEF Running
<1>2. Cardinality({}) = 0
  BY FS_EmptySet
<1>3. TypeOK
  <2>1. groups \in Seq(Groups) /\ \A g \in Groups : runqueue[g] = <<>>
    OBVIOUS
  <2>2. runqueue \in [Groups -> Seq(Procs)]
    OBVIOUS
  <2>3. \A g \in Groups : \A i \in DOMAIN runqueue[g] : GroupOf[runqueue[g][i]] = g
    BY <2>1
  <2>4. pool \in [Cores -> Seq(Procs)] /\ todo \in Seq(Procs)
    BY CreationAssumption
  <2>5. spec_virt_time \in [Groups -> Nat \cup {-1}] /\ spec_time \in [Groups -> [Cores -> Nat]]
    OBVIOUS
  <2> QED
    BY <2>1, <2>2, <2>3, <2>4, <2>5 DEF TypeOK
<1>4. QueueCount
  <2>1. ASSUME NEW g \in Groups
        PROVE  num_threads[g] = Len(runqueue[g]) + Cardinality(Running(current, g))
    <3>1. Cardinality(Running(current, g)) = 0 /\ num_threads[g] = 0 /\ runqueue[g] = <<>>
      BY <1>1, <1>2
    <3> QED
      BY <3>1
  <2> QED
    BY <2>1 DEF QueueCount
<1>5. ListedByThreads
  BY DEF ListedByThreads, Contains, IsInjective
<1>6. Matches(current, spec_time)
  BY <1>1 DEF Matches
<1> QED
  BY <1>3, <1>4, <1>5, <1>6 DEF IInv, AssertionsHold, ResetWhenEmpty

LEMMA StepInv == IInv /\ [Next]_vars => IInv'
<1> SUFFICES ASSUME IInv, [Next]_vars
             PROVE  IInv'
  OBVIOUS
<1>1. /\ pool \in [Cores -> Seq(Procs)] /\ todo \in Seq(Procs)
      /\ pc \in [Cores -> {"schedule", "choose"}]
  BY DEF IInv, TypeOK
<1>2. ASSUME Consequence, pool' \in [Cores -> Seq(Procs)], todo' \in Seq(Procs),
             pc' \in [Cores -> {"schedule", "choose"}]
      PROVE  IInv'
  BY <1>2, PickableThen DEF Consequence
<1>3. CASE Create
  <2>1. Head(todo) \in Procs /\ Tail(todo) \in Seq(Procs)
    BY <1>1, <1>3 DEF Create
  <2>2. Consequence
    BY <1>3, <2>1, EnqueueKeeps DEF Create
  <2> QED
    BY <1>1, <1>2, <1>3, <2>1, <2>2 DEF Create
<1>4. ASSUME NEW c \in Cores, Schedule(c)
      PROVE  IInv'
  <2>1. Consequence
    BY <1>4, ScheduleKeeps DEF Schedule
  <2> QED
    BY <1>1, <1>2, <1>4, <2>1 DEF Schedule
<1>5. ASSUME NEW c \in Cores, Run(c)
      PROVE  IInv'
  <2>1. pc' \in [Cores -> {"schedule", "choose"}]
    BY <1>1, <1>5 DEF Run, Choose
  <2>2. UNCHANGED <<accounts, places, pool, todo, failed>>
    BY <1>5 DEF Run, Choose
  <2> QED
    BY <2>1, <2>2 DEF IInv, TypeOK, AssertionsHold, QueueCount, ListedByThreads, ResetWhenEmpty,
                      Matches, Running, accounts, places
<1>6. ASSUME NEW c \in Cores, Enqueue(c)
      PROVE  IInv'
  <2>1. pool[c] \in Seq(Procs) /\ pool[c] # <<>>
    BY <1>1, <1>6 DEF Enqueue
  <2>2. Head(pool[c]) \in Procs /\ Tail(pool[c]) \in Seq(Procs)
    BY <2>1
  <2>3. Consequence
    BY <1>6, <2>2, EnqueueKeeps DEF Enqueue
  <2> QED
    BY <1>1, <1>2, <1>6, <2>2, <2>3 DEF Enqueue, Choose
<1>7. ASSUME NEW c \in Cores, Dequeue(c)
      PROVE  IInv'
  <2>1. Consequence
    BY <1>7, DequeueOneKeeps, DequeueLastKeeps DEF Dequeue
  <2>2. current[c] \in Procs
    BY <1>7, StopKeeps DEF Dequeue
  <2>3. <<current[c]>> \o pool[c] \in Seq(Procs)
    BY <1>1, <2>2
  <2> QED
    BY <1>1, <1>2, <1>7, <2>1, <2>3 DEF Dequeue, Choose
<1>8. CASE UNCHANGED vars
  BY <1>8 DEF IInv, TypeOK, AssertionsHold, QueueCount, ListedByThreads, ResetWhenEmpty,
              Matches, Running, vars, accounts, places
<1> QED
  BY <1>3, <1>4, <1>5, <1>6, <1>7, <1>8 DEF Next

LEMMA Invariant == Spec => []IInv
BY InitInv, StepInv, PTL DEF Spec

(* Every variable keeps its type, queues hold their own group's processes  *)
(* and no virtual time falls below that of a returning group.              *)
THEOREM TypeCorrect == Spec => []TypeOK
<1>1. IInv => TypeOK
  BY DEF IInv
<1> QED
  BY <1>1, Invariant, PTL

(* The assertions of enqueue, schedule, dequeue and num_cores_running hold *)
(* for any number of cores and groups, in any order of their calls.        *)
THEOREM AssertionsNeverFail == Spec => []AssertionsHold
<1>1. IInv => AssertionsHold
  BY DEF IInv
<1> QED
  BY <1>1, Invariant, PTL

(* num_threads is the number of threads in the queue and on the cores:     *)
(* a group that schedule finds eligible has a thread in its queue.         *)
THEOREM CountsAgree == Spec => []QueueCount
<1>1. IInv => QueueCount
  BY DEF IInv
<1> QED
  BY <1>1, Invariant, PTL

(* The groups on the list are those with threads, each once.               *)
THEOREM ListsAgree == Spec => []ListedByThreads
<1>1. IInv => ListedByThreads
  BY DEF IInv
<1> QED
  BY <1>1, Invariant, PTL

-----------------------------------------------------------------------------
(* Where the processes are.  A handler takes a process from one place and  *)
(* puts it into another; those it has in hand between the two are lost.    *)
Queued(queues, p) == {g \in Groups : p \in SetOf(queues[g])}
OnCore(cur, p) == {c \in Cores : cur[c] = p}
Pooled(pools, p) == {c \in Cores : p \in SetOf(pools[c])}
Unmade(rest, p) == IF p \in SetOf(rest) THEN {0} ELSE {}

Nowhere(Q, H, P, U) == Q = {} /\ H = {} /\ P = {} /\ U = {}
OneOf(Q, H, P, U) ==
  \/ Single(Q) /\ H = {} /\ P = {} /\ U = {}
  \/ Q = {} /\ Single(H) /\ P = {} /\ U = {}
  \/ Q = {} /\ H = {} /\ Single(P) /\ U = {}
  \/ Q = {} /\ H = {} /\ P = {} /\ Single(U)

Lists(queues, cur, pools, rest) ==
  /\ queues \in [Groups -> Seq(Procs)] /\ \A g \in Groups : Distinct(queues[g])
  /\ cur \in [Cores -> Procs \cup {None}]
  /\ pools \in [Cores -> Seq(Procs)] /\ \A c \in Cores : Distinct(pools[c])
  /\ rest \in Seq(Procs) /\ Distinct(rest)
Placed(queues, cur, pools, rest, lost) ==
  /\ Lists(queues, cur, pools, rest)
  /\ \A p \in Procs :
       IF p \in lost
       THEN Nowhere(Queued(queues, p), OnCore(cur, p), Pooled(pools, p), Unmade(rest, p))
       ELSE OneOf(Queued(queues, p), OnCore(cur, p), Pooled(pools, p), Unmade(rest, p))

LEMMA Moved ==
  ASSUME NEW queues, NEW cur, NEW pools, NEW rest, NEW lost,
         NEW queues2, NEW cur2, NEW pools2, NEW rest2, NEW lost2, NEW q \in Procs,
         Placed(queues, cur, pools, rest, lost), Lists(queues2, cur2, pools2, rest2),
         \A p \in Procs \ {q} : /\ Queued(queues2, p) = Queued(queues, p)
                                /\ OnCore(cur2, p) = OnCore(cur, p)
                                /\ Pooled(pools2, p) = Pooled(pools, p)
                                /\ Unmade(rest2, p) = Unmade(rest, p)
                                /\ p \in lost2 <=> p \in lost,
         IF q \in lost2
         THEN Nowhere(Queued(queues2, q), OnCore(cur2, q), Pooled(pools2, q), Unmade(rest2, q))
         ELSE OneOf(Queued(queues2, q), OnCore(cur2, q), Pooled(pools2, q), Unmade(rest2, q))
  PROVE  Placed(queues2, cur2, pools2, rest2, lost2)
  BY DEF Placed

(* Out of a place: the process was there and nowhere else.                 *)
LEMMA TakeQueued ==
  ASSUME NEW queues, NEW cur, NEW pools, NEW rest, NEW lost,
         Placed(queues, cur, pools, rest, lost), NEW g \in Groups, queues[g] # <<>>
  PROVE  /\ Head(queues[g]) \in Procs \ lost
         /\ Placed([queues EXCEPT ![g] = Tail(@)], cur, pools, rest, lost \cup {Head(queues[g])})
<1>0. PICK q, queues2 : q = Head(queues[g]) /\ queues2 = [queues EXCEPT ![g] = Tail(@)]
  OBVIOUS
<1>1. queues \in [Groups -> Seq(Procs)] /\ Distinct(queues[g])
  BY DEF Placed, Lists
<1>2. /\ q \in SetOf(queues[g]) /\ q \in Procs /\ Tail(queues[g]) \in Seq(Procs)
      /\ SetOf(Tail(queues[g])) = SetOf(queues[g]) \ {q} /\ Distinct(Tail(queues[g]))
  BY <1>0, <1>1, UnconsList
<1>3. \A h \in Groups : queues2[h] = IF h = g THEN Tail(queues[g]) ELSE queues[h]
  BY <1>0, <1>1
<1>4. Lists(queues2, cur, pools, rest)
  BY <1>0, <1>1, <1>2, <1>3 DEF Placed, Lists
<1>5. \A p \in Procs \ {q} : Queued(queues2, p) = Queued(queues, p)
  BY <1>2, <1>3 DEF Queued
<1>6. g \in Queued(queues, q) /\ Queued(queues2, q) = Queued(queues, q) \ {g}
  BY <1>2, <1>3 DEF Queued
<1>7. /\ q \notin lost
      /\ Nowhere(Queued(queues2, q), OnCore(cur, q), Pooled(pools, q), Unmade(rest, q))
  BY <1>2, <1>6 DEF Placed, OneOf, Nowhere, Single
<1>8. Placed(queues2, cur, pools, rest, lost \cup {q})
  BY <1>2, <1>4, <1>5, <1>7, Moved
<1> QED
  BY <1>0, <1>2, <1>7, <1>8

LEMMA TakePooled ==
  ASSUME NEW queues, NEW cur, NEW pools, NEW rest, NEW lost,
         Placed(queues, cur, pools, rest, lost), NEW c \in Cores, pools[c] # <<>>
  PROVE  /\ Head(pools[c]) \in Procs \ lost
         /\ Placed(queues, cur, [pools EXCEPT ![c] = Tail(@)], rest, lost \cup {Head(pools[c])})
<1>0. PICK q, pools2 : q = Head(pools[c]) /\ pools2 = [pools EXCEPT ![c] = Tail(@)]
  OBVIOUS
<1>1. pools \in [Cores -> Seq(Procs)] /\ Distinct(pools[c])
  BY DEF Placed, Lists
<1>2. /\ q \in SetOf(pools[c]) /\ q \in Procs /\ Tail(pools[c]) \in Seq(Procs)
      /\ SetOf(Tail(pools[c])) = SetOf(pools[c]) \ {q} /\ Distinct(Tail(pools[c]))
  BY <1>0, <1>1, UnconsList
<1>3. \A d \in Cores : pools2[d] = IF d = c THEN Tail(pools[c]) ELSE pools[d]
  BY <1>0, <1>1
<1>4. Lists(queues, cur, pools2, rest)
  BY <1>0, <1>1, <1>2, <1>3 DEF Placed, Lists
<1>5. \A p \in Procs \ {q} : Pooled(pools2, p) = Pooled(pools, p)
  BY <1>2, <1>3 DEF Pooled
<1>6. c \in Pooled(pools, q) /\ Pooled(pools2, q) = Pooled(pools, q) \ {c}
  BY <1>2, <1>3 DEF Pooled
<1>7. /\ q \notin lost
      /\ Nowhere(Queued(queues, q), OnCore(cur, q), Pooled(pools2, q), Unmade(rest, q))
  BY <1>2, <1>6 DEF Placed, OneOf, Nowhere, Single
<1>8. Placed(queues, cur, pools2, rest, lost \cup {q})
  BY <1>2, <1>4, <1>5, <1>7, Moved
<1> QED
  BY <1>0, <1>2, <1>7, <1>8

LEMMA TakeUnmade ==
  ASSUME NEW queues, NEW cur, NEW pools, NEW rest, NEW lost,
         Placed(queues, cur, pools, rest, lost), rest # <<>>
  PROVE  /\ Head(rest) \in Procs \ lost
         /\ Placed(queues, cur, pools, Tail(rest), lost \cup {Head(rest)})
<1>0. PICK q : q = Head(rest)
  OBVIOUS
<1>1. rest \in Seq(Procs) /\ Distinct(rest)
  BY DEF Placed, Lists
<1>2. /\ q \in SetOf(rest) /\ q \in Procs /\ Tail(rest) \in Seq(Procs)
      /\ SetOf(Tail(rest)) = SetOf(rest) \ {q} /\ Distinct(Tail(rest))
  BY <1>0, <1>1, UnconsList
<1>4. Lists(queues, cur, pools, Tail(rest))
  BY <1>2 DEF Placed, Lists
<1>5. \A p \in Procs \ {q} : Unmade(Tail(rest), p) = Unmade(rest, p)
  BY <1>2 DEF Unmade
<1>6. 0 \in Unmade(rest, q) /\ Unmade(Tail(rest), q) = {}
  BY <1>2 DEF Unmade
<1>7. /\ q \notin lost
      /\ Nowhere(Queued(queues, q), OnCore(cur, q), Pooled(pools, q), Unmade(Tail(rest), q))
  BY <1>2, <1>6 DEF Placed, OneOf, Nowhere, Single
<1>8. Placed(queues, cur, pools, Tail(rest), lost \cup {q})
  BY <1>2, <1>4, <1>5, <1>7, Moved
<1> QED
  BY <1>0, <1>2, <1>7, <1>8

LEMMA TakeRunning ==
  ASSUME NEW queues, NEW cur, NEW pools, NEW rest, NEW lost,
         Placed(queues, cur, pools, rest, lost), NEW c \in Cores, cur[c] # None
  PROVE  /\ cur[c] \in Procs \ lost
         /\ Placed(queues, [cur EXCEPT ![c] = None], pools, rest, lost \cup {cur[c]})
<1>0. PICK q, cur2 : q = cur[c] /\ cur2 = [cur EXCEPT ![c] = None]
  OBVIOUS
<1>1. cur \in [Cores -> Procs \cup {None}] /\ q \in Procs
  BY <1>0 DEF Placed, Lists
<1>3. \A d \in Cores : cur2[d] = IF d = c THEN None ELSE cur[d]
  BY <1>0, <1>1
<1>4. Lists(queues, cur2, pools, rest)
  BY <1>0, <1>1, <1>3 DEF Placed, Lists
<1>5. \A p \in Procs \ {q} : OnCore(cur2, p) = OnCore(cur, p)
  BY <1>0, <1>3, NoneAssumption DEF OnCore
<1>6. c \in OnCore(cur, q) /\ OnCore(cur2, q) = OnCore(cur, q) \ {c}
  BY <1>0, <1>1, <1>3, NoneAssumption DEF OnCore
<1>7. /\ q \notin lost
      /\ Nowhere(Queued(queues, q), OnCore(cur2, q), Pooled(pools, q), Unmade(rest, q))
  BY <1>1, <1>6 DEF Placed, OneOf, Nowhere, Single
<1>8. Placed(queues, cur2, pools, rest, lost \cup {q})
  BY <1>1, <1>4, <1>5, <1>7, Moved
<1> QED
  BY <1>0, <1>1, <1>7, <1>8

(* Into a place.                                                           *)
LEMMA GiveQueue ==
  ASSUME NEW queues, NEW cur, NEW pools, NEW rest, NEW lost,
         Placed(queues, cur, pools, rest, lost), NEW q \in Procs, q \in lost
  PROVE  Placed(Pushed(queues, q), cur, pools, rest, lost \ {q})
<1>0. PICK g, queues2 : g = GroupOf[q] /\ queues2 = Pushed(queues, q)
  OBVIOUS
<1>1. queues \in [Groups -> Seq(Procs)] /\ g \in Groups /\ Distinct(queues[g])
  BY <1>0, GroupsAssumption DEF Placed, Lists
<1>2. Nowhere(Queued(queues, q), OnCore(cur, q), Pooled(pools, q), Unmade(rest, q))
  BY DEF Placed
<1>3. q \notin SetOf(queues[g])
  BY <1>1, <1>2 DEF Nowhere, Queued
<1>4. /\ <<q>> \o queues[g] \in Seq(Procs) /\ Distinct(<<q>> \o queues[g])
      /\ SetOf(<<q>> \o queues[g]) = SetOf(queues[g]) \cup {q}
  BY <1>1, <1>3, ConsList
<1>5. queues2 = [queues EXCEPT ![g] = <<q>> \o queues[g]]
  BY <1>0 DEF Pushed
<1>6. \A h \in Groups : queues2[h] = IF h = g THEN <<q>> \o queues[g] ELSE queues[h]
  BY <1>1, <1>5
<1>7. Lists(queues2, cur, pools, rest)
  BY <1>1, <1>4, <1>5, <1>6 DEF Placed, Lists
<1>8. \A p \in Procs \ {q} : Queued(queues2, p) = Queued(queues, p)
  BY <1>4, <1>6 DEF Queued
<1>9. Queued(queues2, q) = {g}
  BY <1>1, <1>2, <1>4, <1>6 DEF Queued, Nowhere
<1>10. OneOf(Queued(queues2, q), OnCore(cur, q), Pooled(pools, q), Unmade(rest, q))
  BY <1>2, <1>9 DEF OneOf, Nowhere, Single
<1>11. Placed(queues2, cur, pools, rest, lost \ {q})
  BY <1>7, <1>8, <1>10, Moved
<1> QED
  BY <1>0, <1>11

LEMMA GivePool ==
  ASSUME NEW queues, NEW cur, NEW pools, NEW rest, NEW lost, NEW c \in Cores,
         Placed(queues, cur, pools, rest, lost), NEW q \in Procs, q \in lost
  PROVE  Placed(queues, cur, [pools EXCEPT ![c] = <<q>> \o @], rest, lost \ {q})
<1>0. PICK pools2 : pools2 = [pools EXCEPT ![c] = <<q>> \o pools[c]]
  OBVIOUS
<1>1. pools \in [Cores -> Seq(Procs)] /\ Distinct(pools[c])
  BY DEF Placed, Lists
<1>2. Nowhere(Queued(queues, q), OnCore(cur, q), Pooled(pools, q), Unmade(rest, q))
  BY DEF Placed
<1>3. q \notin SetOf(pools[c])
  BY <1>2 DEF Nowhere, Pooled
<1>4. /\ <<q>> \o pools[c] \in Seq(Procs) /\ Distinct(<<q>> \o pools[c])
      /\ SetOf(<<q>> \o pools[c]) = SetOf(pools[c]) \cup {q}
  BY <1>1, <1>3, ConsList
<1>6. \A d \in Cores : pools2[d] = IF d = c THEN <<q>> \o pools[c] ELSE pools[d]
  BY <1>0, <1>1
<1>7. Lists(queues, cur, pools2, rest)
  BY <1>0, <1>1, <1>4, <1>6 DEF Placed, Lists
<1>8. \A p \in Procs \ {q} : Pooled(pools2, p) = Pooled(pools, p)
  BY <1>4, <1>6 DEF Pooled
<1>9. Pooled(pools2, q) = {c}
  BY <1>2, <1>4, <1>6 DEF Pooled, Nowhere
<1>10. OneOf(Queued(queues, q), OnCore(cur, q), Pooled(pools2, q), Unmade(rest, q))
  BY <1>2, <1>9 DEF OneOf, Nowhere, Single
<1>11. Placed(queues, cur, pools2, rest, lost \ {q})
  BY <1>7, <1>8, <1>10, Moved
<1> QED
  BY <1>0, <1>11

LEMMA GiveCore ==
  ASSUME NEW queues, NEW cur, NEW pools, NEW rest, NEW lost, NEW c \in Cores, cur[c] = None,
         Placed(queues, cur, pools, rest, lost), NEW q \in Procs, q \in lost
  PROVE  Placed(queues, [cur EXCEPT ![c] = q], pools, rest, lost \ {q})
<1>0. PICK cur2 : cur2 = [cur EXCEPT ![c] = q]
  OBVIOUS
<1>1. cur \in [Cores -> Procs \cup {None}]
  BY DEF Placed, Lists
<1>2. Nowhere(Queued(queues, q), OnCore(cur, q), Pooled(pools, q), Unmade(rest, q))
  BY DEF Placed
<1>6. \A d \in Cores : cur2[d] = IF d = c THEN q ELSE cur[d]
  BY <1>0, <1>1
<1>7. Lists(queues, cur2, pools, rest)
  BY <1>0, <1>1, <1>6 DEF Placed, Lists
<1>8. \A p \in Procs \ {q} : OnCore(cur2, p) = OnCore(cur, p)
  BY <1>6, NoneAssumption DEF OnCore
<1>9. OnCore(cur2, q) = {c}
  BY <1>2, <1>6 DEF OnCore, Nowhere
<1>10. OneOf(Queued(queues, q), OnCore(cur2, q), Pooled(pools, q), Unmade(rest, q))
  BY <1>2, <1>9 DEF OneOf, Nowhere, Single
<1>11. Placed(queues, cur2, pools, rest, lost \ {q})
  BY <1>7, <1>8, <1>10, Moved
<1> QED
  BY <1>0, <1>11

(* The steps: what each handler has in hand on the way.                    *)
LEMMA PickPlaces ==
  ASSUME NEW c \in Cores, NEW list \in Seq(Groups), NEW num, NEW svt, NEW queues, NEW cur,
         NEW spec, NEW prev, NEW pools, NEW rest, NEW lost,
         Placed(queues, cur, pools, rest, lost), cur[c] = None, Counts(num, queues, cur),
         PickFrom(c, list, num, svt, queues, cur, spec, prev)
  PROVE  Placed(runqueue', current', pools, rest, lost)
<1>0. PICK g : g = MinGroup(list, num, cur, prev)
  OBVIOUS
<1>1. CASE g = None
  BY <1>0, <1>1 DEF PickFrom
<1>2. CASE g # None
  <2>1. g \in Groups /\ num[g] > Cardinality(Running(cur, g))
    BY <1>0, <1>2, MinGroupWaits
  <2>2. num[g] = Len(queues[g]) + Cardinality(Running(cur, g))
    BY <2>1 DEF Counts
  <2>3. queues[g] # <<>>
    <3> SUFFICES ASSUME queues[g] = <<>> PROVE FALSE
      OBVIOUS
    <3>1. Len(queues[g]) = 0
      OBVIOUS
    <3> QED
      BY <2>1, <2>2, <3>1, RunningFinite
  <2>4. PICK q, queues2 : q = Head(queues[g]) /\ queues2 = [queues EXCEPT ![g] = Tail(@)]
    OBVIOUS
  <2>5. q \in Procs \ lost /\ Placed(queues2, cur, pools, rest, lost \cup {q})
    BY <2>1, <2>3, <2>4, TakeQueued
  <2>6. Placed(queues2, [cur EXCEPT ![c] = q], pools, rest, (lost \cup {q}) \ {q})
    BY <2>5, GiveCore
  <2>7. (lost \cup {q}) \ {q} = lost
    BY <2>5
  <2>8. current' = [cur EXCEPT ![c] = q] /\ runqueue' = queues2
    BY <1>0, <1>2, <2>4 DEF PickFrom, Assign
  <2> QED
    BY <2>6, <2>7, <2>8
<1> QED
  BY <1>1, <1>2

LEMMA EnqueuePlaces ==
  ASSUME NEW q \in Procs, NEW pools, NEW rest, EnqueueProc(q),
         Placed(runqueue, current, pools, rest, {} \cup {q})
  PROVE  Placed(runqueue', current', pools, rest, {})
<1>1. Placed(Pushed(runqueue, q), current, pools, rest, ({} \cup {q}) \ {q})
  BY GiveQueue
<1>2. ({} \cup {q}) \ {q} = {}
  OBVIOUS
<1>3. runqueue' = Pushed(runqueue, q) /\ current' = current
  BY DEF EnqueueProc
<1> QED
  BY <1>1, <1>2, <1>3

LEMMA SchedulePlaces ==
  ASSUME IInv, NEW c \in Cores, ScheduleTick(c), NEW pools, NEW rest,
         Placed(runqueue, current, pools, rest, {})
  PROVE  Placed(runqueue', current', pools, rest, {})
<1> DEFINE p == current[c]
           g == GroupOf[p]
           cur == [current EXCEPT ![c] = None]
           spec == IF p = None THEN spec_time ELSE Collapsed(g, c)
           queues == IF p = None THEN runqueue ELSE Pushed(runqueue, p)
           prev == IF p = None THEN None ELSE g
<1>1. PickFrom(c, groups, num_threads, spec_virt_time, queues, cur, spec, prev)
  BY DEF ScheduleTick
<1>2. Counts(num_threads, queues, cur) /\ cur[c] = None
  BY TickPickable DEF Pickable
<1>3. groups \in Seq(Groups) /\ current \in [Cores -> Procs \cup {None}]
  BY DEF IInv, TypeOK
<1>4. Placed(queues, cur, pools, rest, {})
  <2>1. CASE p = None
    <3>1. cur = current
      BY <1>3, <2>1
    <3> QED
      BY <2>1, <3>1
  <2>2. CASE p # None
    <3>1. p \in Procs /\ Placed(runqueue, cur, pools, rest, {} \cup {p})
      BY <2>2, TakeRunning
    <3> HIDE DEF p, cur
    <3>2. Placed(Pushed(runqueue, p), cur, pools, rest, ({} \cup {p}) \ {p})
      BY <3>1, GiveQueue
    <3>3. ({} \cup {p}) \ {p} = {}
      OBVIOUS
    <3> QED
      BY <2>2, <3>2, <3>3
  <2> QED
    BY <2>1, <2>2
<1> HIDE DEF p, g, cur, spec, queues, prev
<1> QED
  BY <1>1, <1>2, <1>3, <1>4, PickPlaces

(* dequeue picks for the core before the process it took is in the pool.   *)
LEMMA DequeuePlaces ==
  ASSUME IInv, NEW c \in Cores, NEW p, p = current[c], p # None, NEW pools, NEW rest,
         DequeueOne(p, c) \/ DequeueLast(p, c), Placed(runqueue, current, pools, rest, {})
  PROVE  Placed(runqueue', current', [pools EXCEPT ![c] = <<p>> \o @], rest, {})
<1>0. PICK g, num, cur : g = GroupOn(c) /\ num = Remaining(g) /\ cur = Stopped(c)
  OBVIOUS
<1>1. /\ p \in Procs /\ cur[c] = None /\ Placed(runqueue, cur, pools, rest, {p})
  <2>1. current \in [Cores -> Procs \cup {None}] /\ cur = [current EXCEPT ![c] = None]
    BY <1>0 DEF IInv, TypeOK, Stopped
  <2>2. p \in Procs /\ Placed(runqueue, cur, pools, rest, {} \cup {p})
    BY <2>1, TakeRunning
  <2>3. {} \cup {p} = {p}
    OBVIOUS
  <2> QED
    BY <2>1, <2>2, <2>3
<1>2. Counts(num, runqueue, cur) /\ g \in Groups
  BY <1>0, LeaverCounts, StopKeeps
<1>3. Placed(runqueue', current', pools, rest, {p})
  <2>1. CASE DequeueOne(p, c)
    <3>1. PickFrom(c, groups, num, spec_virt_time, runqueue, cur, Collapsed(g, c), g)
      BY <1>0, <2>1 DEF DequeueOne, GroupOn, Remaining, Stopped
    <3>2. groups \in Seq(Groups)
      BY DEF IInv, TypeOK
    <3> QED
      BY <1>1, <1>2, <3>1, <3>2, PickPlaces
  <2>2. CASE DequeueLast(p, c)
    <3> DEFINE list == Unlinked(groups, g)
               spec == [spec_time EXCEPT ![g] = [d \in Cores |-> 0]]
               svt == [spec_virt_time EXCEPT ![g] = -1]
    <3>1. PickFrom(c, list, num, svt, runqueue, cur, spec, None)
      BY <1>0, <2>2 DEF DequeueLast, GroupOn, Remaining, Stopped
    <3>2. list \in Seq(Groups)
      BY <1>2, UnlinkedList DEF IInv, TypeOK, ListedByThreads
    <3> HIDE DEF list, spec, svt
    <3> QED
      BY <1>1, <1>2, <3>1, <3>2, PickPlaces
  <2> QED
    BY <2>1, <2>2
<1>4. Placed(runqueue', current', [pools EXCEPT ![c] = <<p>> \o @], rest, {p} \ {p})
  BY <1>1, <1>3, GivePool
<1>5. {p} \ {p} = {}
  OBVIOUS
<1> QED
  BY <1>4, <1>5

InPlace == Placed(runqueue, current, pool, todo, {})

LEMMA InitPlaces == Init => InPlace
<1> SUFFICES ASSUME Init
             PROVE  Placed(runqueue, current, pool, todo, {})
  BY DEF InPlace
<1>1. /\ runqueue = [g \in Groups |-> <<>>] /\ current = [c \in Cores |-> None]
      /\ pool = [c \in Cores |-> <<>>] /\ todo = Creation
  BY DEF Init
<1>2. <<>> \in Seq(Procs) /\ SetOf(<<>>) = {} /\ Distinct(<<>>)
  BY DEF SetOf, Distinct
<1>3. Creation \in Seq(Procs) /\ Distinct(Creation) /\ \A p \in Procs : p \in SetOf(Creation)
  <2>1. Creation \in Seq(Procs) /\ DOMAIN Creation = 1 .. Len(Creation)
    BY CreationAssumption, LenProperties
  <2> QED
    BY <2>1, CreationAssumption DEF IsInjective, Contains, Distinct, SetOf
<1>4. Lists(runqueue, current, pool, todo)
  BY <1>1, <1>2, <1>3 DEF Lists
<1>5. ASSUME NEW p \in Procs
      PROVE  OneOf(Queued(runqueue, p), OnCore(current, p), Pooled(pool, p), Unmade(todo, p))
  <2>1. Queued(runqueue, p) = {} /\ Pooled(pool, p) = {}
    BY <1>1, <1>2 DEF Queued, Pooled
  <2>2. OnCore(current, p) = {}
    BY <1>1, NoneAssumption DEF OnCore
  <2>3. Unmade(todo, p) = {0}
    BY <1>1, <1>3 DEF Unmade
  <2> QED
    BY <2>1, <2>2, <2>3 DEF OneOf, Single
<1> QED
  BY <1>4, <1>5 DEF Placed

LEMMA StepPlaces == IInv /\ InPlace /\ [Next]_vars => InPlace'
<1> SUFFICES ASSUME IInv, Placed(runqueue, current, pool, todo, {}), [Next]_vars
             PROVE  Placed(runqueue', current', pool', todo', {})
  BY DEF InPlace
<1>1. CASE Create
  <2>1. todo # <<>> /\ todo' = Tail(todo) /\ EnqueueProc(Head(todo)) /\ pool' = pool
    BY <1>1 DEF Create
  <2>2. /\ Head(todo) \in Procs
        /\ Placed(runqueue, current, pool, Tail(todo), {} \cup {Head(todo)})
    BY <2>1, TakeUnmade
  <2> QED
    BY <2>1, <2>2, EnqueuePlaces
<1>2. ASSUME NEW c \in Cores, Schedule(c)
      PROVE  Placed(runqueue', current', pool', todo', {})
  <2>1. ScheduleTick(c) /\ pool' = pool /\ todo' = todo
    BY <1>2 DEF Schedule
  <2> QED
    BY <2>1, SchedulePlaces
<1>3. ASSUME NEW c \in Cores, Enqueue(c)
      PROVE  Placed(runqueue', current', pool', todo', {})
  <2>1. /\ pool[c] # <<>> /\ pool' = [pool EXCEPT ![c] = Tail(@)]
        /\ EnqueueProc(Head(pool[c])) /\ todo' = todo
    BY <1>3 DEF Enqueue, Choose
  <2>2. /\ Head(pool[c]) \in Procs
        /\ Placed(runqueue, current, [pool EXCEPT ![c] = Tail(@)], todo, {} \cup {Head(pool[c])})
    BY <2>1, TakePooled
  <2> QED
    BY <2>1, <2>2, EnqueuePlaces
<1>4. ASSUME NEW c \in Cores, Dequeue(c)
      PROVE  Placed(runqueue', current', pool', todo', {})
  <2>1. /\ current[c] # None
        /\ DequeueOne(current[c], c) \/ DequeueLast(current[c], c)
        /\ pool' = [pool EXCEPT ![c] = <<current[c]>> \o @] /\ todo' = todo
    BY <1>4 DEF Dequeue, Choose
  <2> QED
    BY <2>1, DequeuePlaces
<1>5. CASE \E c \in Cores : Run(c)
  BY <1>5 DEF Run, Choose, places
<1>6. CASE UNCHANGED vars
  BY <1>6 DEF vars, places
<1> QED
  BY <1>1, <1>2, <1>3, <1>4, <1>5, <1>6 DEF Next

(* A place of the proof is a place of OnePlace.                            *)
LEMMA PlacedOnce == InPlace => OnePlace
<1> SUFFICES ASSUME InPlace, NEW p \in Procs
             PROVE  LET copies(s) == UNION {{k} \X {i \in DOMAIN s[k] : s[k][i] = p} : k \in DOMAIN s}
                    IN  Cardinality(copies(runqueue)) + Cardinality(copies(pool))
                          + Cardinality({c \in Cores : current[c] = p}) + Times(p, todo) = 1
  BY DEF OnePlace
<1> DEFINE Q == Copies(runqueue, p)
           P == Copies(pool, p)
           H == {c \in Cores : current[c] = p}
           U == {i \in DOMAIN todo : todo[i] = p}
<1>1. /\ Lists(runqueue, current, pool, todo)
      /\ OneOf(Queued(runqueue, p), OnCore(current, p), Pooled(pool, p), Unmade(todo, p))
  BY DEF InPlace, Placed
<1>2. /\ Queued(runqueue, p) = {} => Q = {}
      /\ Single(Queued(runqueue, p)) => \E x : Q = {x}
  <2>1. /\ runqueue \in [Groups -> Seq(Procs)] /\ \A g \in Groups : Distinct(runqueue[g])
        /\ Queued(runqueue, p) = {g \in Groups : p \in SetOf(runqueue[g])}
    BY <1>1 DEF Lists, Queued
  <2> QED
    BY <2>1, OnceInLists
<1>3. /\ Pooled(pool, p) = {} => P = {}
      /\ Single(Pooled(pool, p)) => \E x : P = {x}
  <2>1. /\ pool \in [Cores -> Seq(Procs)] /\ \A c \in Cores : Distinct(pool[c])
        /\ Pooled(pool, p) = {c \in Cores : p \in SetOf(pool[c])}
    BY <1>1 DEF Lists, Pooled
  <2> QED
    BY <2>1, OnceInLists
<1>4. OnCore(current, p) = H
  BY DEF OnCore
<1>5. /\ Unmade(todo, p) = {} => U = {}
      /\ Single(Unmade(todo, p)) => \E x : U = {x}
  BY <1>1, OnceInList DEF Lists, Unmade, Single
<1>6. Times(p, todo) = Cardinality(U)
  BY DEF Times
<1> HIDE DEF Q, P, H, U
<1>7. /\ \A S : S = {} => Cardinality(S) = 0
      /\ \A S : (\E x : S = {x}) => Cardinality(S) = 1
  BY FS_EmptySet, FS_Singleton
<1>8. Cardinality(Q) + Cardinality(P) + Cardinality(H) + Cardinality(U) = 1
  <2>1. CASE (\E x : Q = {x}) /\ H = {} /\ P = {} /\ U = {}
    <3>1. Cardinality(Q) = 1 /\ Cardinality(H) = 0 /\ Cardinality(P) = 0 /\ Cardinality(U) = 0
      BY <1>7, <2>1
    <3> QED
      BY <3>1
  <2>2. CASE (\E x : H = {x}) /\ Q = {} /\ P = {} /\ U = {}
    <3>1. Cardinality(H) = 1 /\ Cardinality(Q) = 0 /\ Cardinality(P) = 0 /\ Cardinality(U) = 0
      BY <1>7, <2>2
    <3> QED
      BY <3>1
  <2>3. CASE (\E x : P = {x}) /\ Q = {} /\ H = {} /\ U = {}
    <3>1. Cardinality(P) = 1 /\ Cardinality(Q) = 0 /\ Cardinality(H) = 0 /\ Cardinality(U) = 0
      BY <1>7, <2>3
    <3> QED
      BY <3>1
  <2>4. CASE (\E x : U = {x}) /\ Q = {} /\ H = {} /\ P = {}
    <3>1. Cardinality(U) = 1 /\ Cardinality(Q) = 0 /\ Cardinality(H) = 0 /\ Cardinality(P) = 0
      BY <1>7, <2>4
    <3> QED
      BY <3>1
  <2> QED
    BY <1>1, <1>2, <1>3, <1>4, <1>5, <2>1, <2>2, <2>3, <2>4 DEF OneOf, Single
<1> QED
  BY <1>6, <1>8 DEF Q, P, H, Copies

(* A process is never lost and never in two places, through any sequence   *)
(* of calls: its one next field is in the list it was last put into.       *)
THEOREM EachInOnePlace == Spec => []OnePlace
<1>1. Init => IInv /\ InPlace
  BY InitInv, InitPlaces
<1>2. IInv /\ InPlace /\ [Next]_vars => (IInv /\ InPlace)'
  BY StepInv, StepPlaces
<1>3. IInv /\ InPlace => OnePlace
  BY PlacedOnce
<1> QED
  BY <1>1, <1>2, <1>3, PTL DEF Spec

-----------------------------------------------------------------------------
(* A core is left idle only if there is nothing to pick.  A search that    *)
(* finds no group has found none eligible: of the eligible ones, finitely  *)
(* many positions with virtual times bounded from below, the first with    *)
(* the least time would have been best.                                    *)

Effective(g, prev) == spec_virt_time[g] - (IF g = prev THEN GroupBonus ELSE 0)

LEMMA NoneEligible ==
  ASSUME NEW list \in Seq(Groups), NEW num, NEW cur, NEW prev,
         spec_virt_time \in [Groups -> Nat \cup {-1}],
         MinGroup(list, num, cur, prev) = None
  PROVE  \A i \in DOMAIN list : num[list[i]] > Cardinality(Running(cur, list[i])) =>
                                  spec_virt_time[list[i]] >= IntMax
<1> DEFINE eligible == {i \in DOMAIN list :
                          /\ num[list[i]] > Cardinality(Running(cur, list[i]))
                          /\ Effective(list[i], prev) < IntMax}
           best == {i \in eligible : \A j \in eligible :
                      \/ Effective(list[i], prev) < Effective(list[j], prev)
                      \/ Effective(list[i], prev) = Effective(list[j], prev) /\ i <= j}
           f == [i \in DOMAIN list |-> Effective(list[i], prev)]
           b == -1 - GroupBonus
<1>1. MinGroup(list, num, cur, prev) = IF best = {} THEN None ELSE list[CHOOSE i \in best : TRUE]
  BY DEF MinGroup, Effective
<1>2. /\ DOMAIN list = 1 .. Len(list) /\ Len(list) \in Nat
      /\ \A i \in DOMAIN list : list[i] \in Groups /\ list[i] # None
  BY LenProperties, NoneAssumption
<1>3. b \in Int /\ \A i \in DOMAIN list : /\ f[i] = Effective(list[i], prev)
                                          /\ f[i] \in Int /\ f[i] >= b
                                          /\ f[i] <= spec_virt_time[list[i]]
                                          /\ spec_virt_time[list[i]] \in Int
  <2>1. \A g \in Groups : /\ Effective(g, prev) \in Int /\ Effective(g, prev) >= b
                          /\ Effective(g, prev) <= spec_virt_time[g]
                          /\ spec_virt_time[g] \in Int
    BY TimesAssumption DEF Effective
  <2> QED
    BY <1>2, <2>1, TimesAssumption
<1>4. best = {}
  <2> SUFFICES ASSUME best # {} PROVE FALSE
    OBVIOUS
  <2>1. (CHOOSE i \in best : TRUE) \in best
    OBVIOUS
  <2>2. best \subseteq DOMAIN list
    OBVIOUS
  <2> HIDE DEF best
  <2> QED
    BY <1>1, <1>2, <2>1, <2>2
<1>5. eligible = {}
  <2> SUFFICES ASSUME eligible # {} PROVE FALSE
    OBVIOUS
  <2>1. eligible \in SUBSET DOMAIN list /\ eligible \in SUBSET Nat
    BY <1>2
  <2> HIDE DEF f, b, eligible
  <2>2. \A i \in eligible : f[i] \in Int /\ f[i] >= b
    BY <1>3, <2>1
  <2>3. PICK i \in eligible : \A j \in eligible : f[i] < f[j] \/ (f[i] = f[j] /\ i <= j)
    BY <1>3, <2>1, <2>2, FirstLeast
  <2>4. \A j \in eligible : \/ Effective(list[i], prev) < Effective(list[j], prev)
                            \/ Effective(list[i], prev) = Effective(list[j], prev) /\ i <= j
    BY <1>3, <2>1, <2>3
  <2>5. i \in best
    BY <2>4
  <2> QED
    BY <1>4, <2>5
<1>6. ASSUME NEW i \in DOMAIN list, num[list[i]] > Cardinality(Running(cur, list[i]))
      PROVE  spec_virt_time[list[i]] >= IntMax
  <2>1. ~(Effective(list[i], prev) < IntMax)
    BY <1>5, <1>6
  <2> QED
    BY <1>3, <2>1, TimesAssumption
<1> QED
  BY <1>6

LEMMA IdlePick ==
  ASSUME NEW c \in Cores, NEW list \in Seq(Groups), NEW num, NEW svt, NEW queues, NEW cur,
         NEW spec, NEW prev, Pickable(num, svt, queues, cur, spec),
         spec_virt_time \in [Groups -> Nat \cup {-1}],
         \A g \in Groups : num[g] > 0 => Contains(list, g) /\ svt[g] = spec_virt_time[g],
         PickFrom(c, list, num, svt, queues, cur, spec, prev), current'[c] = None
  PROVE  \A g \in Groups : runqueue'[g] # <<>> => spec_virt_time'[g] >= IntMax
<1> DEFINE picked == MinGroup(list, num, cur, prev)
<1> USE DEF Pickable
<1>1. \A g \in Groups : /\ num[g] = Len(queues[g]) + Cardinality(Running(cur, g))
                        /\ queues[g] \in Seq(Procs) /\ Len(queues[g]) \in Nat
                        /\ Cardinality(Running(cur, g)) \in Nat /\ num[g] \in Nat
  BY LenProperties, RunningFinite DEF Counts
<1>2. picked = None
  <2> SUFFICES ASSUME picked # None PROVE FALSE
    OBVIOUS
  <2>1. picked \in Groups /\ num[picked] > Cardinality(Running(cur, picked))
    BY MinGroupWaits
  <2>2. current' = [cur EXCEPT ![c] = Head(queues[picked])]
    BY DEF PickFrom, Assign
  <2> HIDE DEF picked
  <2>3. queues[picked] # <<>>
    BY <1>1, <2>1, EmptySeq
  <2>4. Head(queues[picked]) \in Procs
    BY <1>1, <2>1, <2>3
  <2> QED
    BY <2>2, <2>4, NoneAssumption
<1>3. runqueue' = queues /\ spec_virt_time' = svt
  BY <1>2 DEF PickFrom
<1>4. ASSUME NEW g \in Groups, queues[g] # <<>> PROVE svt[g] >= IntMax
  <2>1. Len(queues[g]) > 0
    BY <1>1, <1>4, EmptySeq
  <2>2. num[g] > Cardinality(Running(cur, g)) /\ num[g] > 0
    BY <1>1, <2>1
  <2>3. PICK i \in DOMAIN list : list[i] = g
    <3>1. Contains(list, g)
      BY <2>2
    <3>2. DOMAIN list = 1 .. Len(list)
      BY LenProperties
    <3> QED
      BY <3>1, <3>2 DEF Contains
  <2>4. spec_virt_time[g] >= IntMax
    BY <1>2, <2>2, <2>3, NoneEligible
  <2> QED
    BY <2>2, <2>4
<1> QED
  BY <1>3, <1>4

(* The search goes by virtual time: the group picked has no more than any  *)
(* other with a process left in its queue, but for the bonus.              *)
LEMMA LeastPicked ==
  ASSUME NEW list \in Seq(Groups), NEW num, NEW cur, NEW prev, NEW g, NEW h \in Groups,
         spec_virt_time \in [Groups -> Nat \cup {-1}],
         g = MinGroup(list, num, cur, prev), g # None,
         Contains(list, h), num[h] > Cardinality(Running(cur, h))
  PROVE  g \in Groups /\ spec_virt_time[g] <= spec_virt_time[h] + GroupBonus
<1> DEFINE eligible == {i \in DOMAIN list :
                          /\ num[list[i]] > Cardinality(Running(cur, list[i]))
                          /\ Effective(list[i], prev) < IntMax}
           best == {i \in eligible : \A j \in eligible :
                      \/ Effective(list[i], prev) < Effective(list[j], prev)
                      \/ Effective(list[i], prev) = Effective(list[j], prev) /\ i <= j}
<1>1. g = IF best = {} THEN None ELSE list[CHOOSE i \in best : TRUE]
  BY DEF MinGroup, Effective
<1>2. PICK i \in best : g = list[i]
  <2>1. best # {}
    BY <1>1
  <2>2. (CHOOSE i \in best : TRUE) \in best
    BY <2>1
  <2> HIDE DEF best
  <2> QED
    BY <1>1, <2>1, <2>2
<1>3. /\ i \in DOMAIN list /\ Effective(g, prev) < IntMax
      /\ \A j \in eligible : Effective(g, prev) <= Effective(list[j], prev)
  <2>1. \A k \in Groups : Effective(k, prev) \in Int
    BY TimesAssumption DEF Effective
  <2>2. \A j \in eligible : list[j] \in Groups
    BY LenProperties
  <2>3. i \in DOMAIN list /\ g \in Groups /\ Effective(g, prev) < IntMax
    BY <1>2, <2>2
  <2>4. \A j \in eligible : \/ Effective(g, prev) < Effective(list[j], prev)
                            \/ Effective(g, prev) = Effective(list[j], prev)
    BY <1>2
  <2> HIDE DEF eligible, best
  <2> QED
    BY <2>1, <2>2, <2>3, <2>4
<1>4. g \in Groups
  BY <1>2, <1>3, LenProperties
<1>5. PICK j \in DOMAIN list : list[j] = h
  <2>1. DOMAIN list = 1 .. Len(list)
    BY LenProperties
  <2> QED
    BY <2>1 DEF Contains
<1>6. Effective(g, prev) <= Effective(h, prev)
  <2>1. Effective(g, prev) \in Int /\ Effective(h, prev) \in Int
    <3>1. \A k \in Groups : Effective(k, prev) \in Int
      BY TimesAssumption DEF Effective
    <3> QED
      BY <1>4, <3>1
  <2>2. CASE Effective(h, prev) < IntMax
    BY <1>3, <1>5, <2>2
  <2>3. CASE ~(Effective(h, prev) < IntMax)
    BY <1>3, <2>1, <2>3, TimesAssumption
  <2> QED
    BY <2>2, <2>3
<1> QED
  BY <1>4, <1>6, TimesAssumption DEF Effective

LEMMA FairPick ==
  ASSUME NEW c \in Cores, NEW list \in Seq(Groups), NEW num, NEW svt, NEW queues, NEW cur,
         NEW spec, NEW prev, Pickable(num, svt, queues, cur, spec),
         spec_virt_time \in [Groups -> Nat \cup {-1}],
         \A g \in Groups : num[g] > 0 => Contains(list, g) /\ svt[g] = spec_virt_time[g],
         PickFrom(c, list, num, svt, queues, cur, spec, prev)
  PROVE  \A g, h \in Groups : spec_virt_time'[g] > svt[g] /\ runqueue'[h] # <<>> =>
           spec_virt_time'[g] - Cost[g] <= spec_virt_time'[h] + GroupBonus
<1> SUFFICES ASSUME NEW g \in Groups, NEW h \in Groups,
                    spec_virt_time'[g] > svt[g], runqueue'[h] # <<>>
             PROVE  spec_virt_time'[g] - Cost[g] <= spec_virt_time'[h] + GroupBonus
  OBVIOUS
<1>1. PICK picked : picked = MinGroup(list, num, cur, prev)
  OBVIOUS
<1> USE DEF Pickable
<1>2. \A k \in Groups : /\ num[k] = Len(queues[k]) + Cardinality(Running(cur, k))
                        /\ queues[k] \in Seq(Procs) /\ Len(queues[k]) \in Nat
                        /\ Cardinality(Running(cur, k)) \in Nat /\ num[k] \in Nat
                        /\ svt[k] \in Int /\ spec_virt_time[k] \in Int /\ Cost[k] \in Nat
  <2>1. \A k \in Groups : /\ num[k] = Len(queues[k]) + Cardinality(Running(cur, k))
                          /\ queues[k] \in Seq(Procs) /\ Len(queues[k]) \in Nat
                          /\ Cardinality(Running(cur, k)) \in Nat /\ num[k] \in Nat
    BY LenProperties, RunningFinite DEF Counts
  <2>2. \A k \in Groups : svt[k] \in Int /\ spec_virt_time[k] \in Int /\ Cost[k] \in Nat
    BY GroupsAssumption
  <2> QED
    BY <2>1, <2>2
<1>3. picked # None
  <2> SUFFICES ASSUME picked = None PROVE FALSE
    OBVIOUS
  <2>1. spec_virt_time' = svt
    BY <1>1 DEF PickFrom
  <2> QED
    BY <1>2, <2>1
<1>4. picked \in Groups /\ num[picked] > Cardinality(Running(cur, picked))
  BY <1>1, <1>3, MinGroupWaits
<1>5. /\ runqueue' = [queues EXCEPT ![picked] = Tail(queues[picked])]
      /\ spec_virt_time' = [svt EXCEPT ![picked] = svt[picked] + Cost[picked]]
  BY <1>1, <1>3 DEF PickFrom, Assign
<1>6. /\ picked = g /\ spec_virt_time'[g] = svt[g] + Cost[g]
      /\ spec_virt_time'[h] >= svt[h] /\ spec_virt_time'[h] \in Int
  <2>1. \A k \in Groups : spec_virt_time'[k] = IF k = picked THEN svt[k] + Cost[k] ELSE svt[k]
    BY <1>5
  <2>2. picked = g
    <3>1. svt[g] \in Int /\ spec_virt_time'[g] # svt[g]
      BY <1>2
    <3> QED
      BY <2>1, <3>1
  <2> QED
    BY <1>2, <2>1, <2>2
<1>7. queues[h] # <<>>
  <2>1. CASE h = picked
    <3> SUFFICES ASSUME queues[picked] = <<>> PROVE FALSE
      BY <2>1
    <3>1. Len(queues[picked]) = 0
      OBVIOUS
    <3> QED
      BY <1>2, <1>4, <3>1
  <2>2. CASE h # picked
    BY <1>5, <2>2
  <2> QED
    BY <2>1, <2>2
<1>8. num[h] > Cardinality(Running(cur, h)) /\ num[h] > 0
  <2>1. Len(queues[h]) > 0
    BY <1>2, <1>7, EmptySeq
  <2> QED
    BY <1>2, <2>1
<1>9. svt[h] = spec_virt_time[h] /\ svt[g] = spec_virt_time[g] /\ Contains(list, h)
  <2>1. num[g] > 0
    BY <1>2, <1>4, <1>6
  <2> QED
    BY <1>8, <2>1
<1>10. spec_virt_time[picked] <= spec_virt_time[h] + GroupBonus
  BY <1>1, <1>3, <1>8, <1>9, LeastPicked
<1>11. spec_virt_time'[g] - Cost[g] = spec_virt_time[g]
  BY <1>2, <1>6, <1>9
<1>12. /\ spec_virt_time[g] <= spec_virt_time[h] + GroupBonus
       /\ spec_virt_time'[h] >= spec_virt_time[h]
  BY <1>6, <1>9, <1>10
<1>13. /\ spec_virt_time[g] \in Int /\ spec_virt_time[h] \in Int /\ spec_virt_time'[h] \in Int
       /\ GroupBonus \in Int
  BY <1>2, <1>6, TimesAssumption
<1> QED
  BY <1>11, <1>12, <1>13

(* Both facts of a pick, of the calls that make one.                       *)
IdleOf(c) == current'[c] = None =>
               \A g \in Groups : runqueue'[g] # <<>> => spec_virt_time'[g] >= IntMax
FairOf(svt) == \A g, h \in Groups : spec_virt_time'[g] > svt[g] /\ runqueue'[h] # <<>> =>
                 spec_virt_time'[g] - Cost[g] <= spec_virt_time'[h] + GroupBonus

LEMMA RightAfterTick ==
  ASSUME IInv, NEW c \in Cores, ScheduleTick(c)
  PROVE  IdleOf(c) /\ FairOf(spec_virt_time)
<1> DEFINE p == current[c]
           g == GroupOf[p]
           cur == [current EXCEPT ![c] = None]
           spec == IF p = None THEN spec_time ELSE Collapsed(g, c)
           queues == IF p = None THEN runqueue ELSE Pushed(runqueue, p)
           prev == IF p = None THEN None ELSE g
<1>1. PickFrom(c, groups, num_threads, spec_virt_time, queues, cur, spec, prev)
  BY DEF ScheduleTick
<1>2. Pickable(num_threads, spec_virt_time, queues, cur, spec)
  BY TickPickable
<1> HIDE DEF p, g, cur, spec, queues, prev
<1>3. /\ groups \in Seq(Groups) /\ spec_virt_time \in [Groups -> Nat \cup {-1}]
      /\ \A h \in Groups : num_threads[h] > 0 => Contains(groups, h)
  BY DEF IInv, TypeOK, ListedByThreads
<1> QED
  BY <1>1, <1>2, <1>3, IdlePick, FairPick DEF IdleOf, FairOf

LEMMA RightAfterDequeueOne ==
  ASSUME IInv, NEW c \in Cores, current[c] # None, DequeueOne(current[c], c)
  PROVE  IdleOf(c) /\ FairOf(spec_virt_time)
<1> DEFINE g == GroupOf[current[c]]
           num == [num_threads EXCEPT ![g] = @ - 1]
           cur == [current EXCEPT ![c] = None]
<1>1. /\ num[g] # 0
      /\ PickFrom(c, groups, num, spec_virt_time, runqueue, cur, Collapsed(g, c), g)
  BY DEF DequeueOne
<1> HIDE DEF g, num, cur
<1>2. g = GroupOn(c) /\ cur = Stopped(c) /\ num = Remaining(g)
  BY DEF g, num, cur, GroupOn, Stopped, Remaining
<1>3. Pickable(num_threads, spec_virt_time, runqueue, current, spec_time)
  BY PickableNow
<1>4. /\ g \in Groups /\ num_threads[g] > 0
      /\ cur \in [Cores -> Procs \cup {None}]
      /\ Collapsed(g, c) \in [Groups -> [Cores -> Nat]] /\ Matches(cur, Collapsed(g, c))
  BY <1>2, StopKeeps
<1>5. /\ num \in [Groups -> Nat] /\ Counts(num, runqueue, cur)
      /\ \A h \in Groups : num[h] = IF h = g THEN num_threads[h] - 1 ELSE num_threads[h]
  BY <1>2, LeaverCounts
<1>6. \A h \in Groups : num[h] = 0 => num_threads[h] = 0
  BY <1>1, <1>5
<1>7. Pickable(num, spec_virt_time, runqueue, cur, Collapsed(g, c))
  BY <1>3, <1>4, <1>5, <1>6 DEF Pickable
<1>8. /\ groups \in Seq(Groups) /\ spec_virt_time \in [Groups -> Nat \cup {-1}]
      /\ \A h \in Groups : num_threads[h] > 0 => Contains(groups, h)
  BY DEF IInv, TypeOK, ListedByThreads
<1>9. \A h \in Groups : num[h] > 0 => num_threads[h] > 0
  BY <1>4, <1>5
<1> QED
  BY <1>1, <1>7, <1>8, <1>9, IdlePick, FairPick DEF IdleOf, FairOf

LEMMA RightAfterDequeueLast ==
  ASSUME IInv, NEW c \in Cores, current[c] # None, DequeueLast(current[c], c)
  PROVE  IdleOf(c) /\ FairOf(spec_virt_time)
<1> DEFINE g == GroupOf[current[c]]
           num == [num_threads EXCEPT ![g] = @ - 1]
           cur == [current EXCEPT ![c] = None]
           list == Unlinked(groups, g)
           spec == [spec_time EXCEPT ![g] = [d \in Cores |-> 0]]
           svt == [spec_virt_time EXCEPT ![g] = -1]
<1>1. num[g] = 0 /\ PickFrom(c, list, num, svt, runqueue, cur, spec, None)
  BY DEF DequeueLast
<1> HIDE DEF g, num, cur, list, spec, svt
<1>2. g = GroupOn(c) /\ cur = Stopped(c) /\ num = Remaining(g)
  BY DEF g, num, cur, GroupOn, Stopped, Remaining
<1>3. Pickable(num, svt, runqueue, cur, spec) /\ cur[c] = None
  <2>1. Remaining(GroupOn(c))[GroupOn(c)] = 0
    BY <1>1, <1>2
  <2> QED
    BY <2>1, LastPickable DEF g, num, cur, spec, svt
<1>4. g \in Groups
  BY <1>2, StopKeeps
<1>5. \A h \in Groups : num[h] = IF h = g THEN num_threads[h] - 1 ELSE num_threads[h]
  BY <1>2, LeaverCounts
<1>6. /\ groups \in Seq(Groups) /\ spec_virt_time \in [Groups -> Nat \cup {-1}]
      /\ \A h \in Groups : num_threads[h] > 0 => Contains(groups, h)
      /\ IsInjective(groups)
  BY DEF IInv, TypeOK, ListedByThreads
<1>7. /\ list \in Seq(Groups)
      /\ \A h \in Groups : Contains(list, h) <=> Contains(groups, h) /\ h # g
  BY <1>4, <1>6, UnlinkedList DEF list
<1>8. \A h \in Groups : num[h] > 0 => Contains(list, h) /\ svt[h] = spec_virt_time[h]
  BY <1>1, <1>5, <1>6, <1>7 DEF svt
<1>9. FairOf(svt)
  BY <1>1, <1>3, <1>6, <1>7, <1>8, FairPick DEF FairOf
<1>10. ASSUME NEW h \in Groups, spec_virt_time'[h] > spec_virt_time[h]
       PROVE  spec_virt_time'[h] > svt[h]
  <2>1. spec_virt_time'[h] \in Int /\ spec_virt_time[h] \in Int /\ svt[h] <= spec_virt_time[h]
        /\ svt[h] \in Int
    <3>1. Pickable(num, spec_virt_time', runqueue', current', spec_time')
      BY <1>1, <1>3, <1>7, PickKeeps
    <3>2. svt[h] = IF h = g THEN -1 ELSE spec_virt_time[h]
      BY <1>4, <1>6 DEF svt
    <3> QED
      BY <1>6, <3>1, <3>2 DEF Pickable
  <2> QED
    BY <1>10, <2>1
<1>11. IdleOf(c)
  BY <1>1, <1>3, <1>6, <1>7, <1>8, IdlePick DEF IdleOf
<1> QED
  BY <1>9, <1>10, <1>11 DEF FairOf

(* A core that schedule or dequeue leaves without a process leaves no      *)
(* process queued in a group whose virtual time is below INT_MAX, whoever  *)
(* else ran in between and however the bonus of the last group shifts the  *)
(* comparison.                                                             *)
THEOREM IdleJustified == Spec => IdleOnlyIfNoWork
<1> DEFINE Idle == \A c \in Cores :
                     (Schedule(c) \/ Dequeue(c)) /\ current'[c] = None =>
                       \A g \in Groups : runqueue'[g] # <<>> => spec_virt_time'[g] >= IntMax
<1>1. IInv => Idle
  <2> SUFFICES ASSUME IInv, NEW c \in Cores, Schedule(c) \/ Dequeue(c), current'[c] = None
               PROVE  \A g \in Groups : runqueue'[g] # <<>> => spec_virt_time'[g] >= IntMax
    OBVIOUS
  <2>1. CASE Schedule(c)
    BY <2>1, RightAfterTick DEF Schedule, IdleOf
  <2>2. CASE Dequeue(c)
    BY <2>2, RightAfterDequeueOne, RightAfterDequeueLast DEF Dequeue, IdleOf
  <2> QED
    BY <2>1, <2>2
<1>2. []IInv => [][Idle]_vars
  BY <1>1, PTL
<1> QED
  BY <1>2, Invariant, PTL DEF IdleOnlyIfNoWork

(* A group with threads is charged only when it is its turn: its virtual   *)
(* time before the charge is, but for the bonus, no more than that of any  *)
(* group in whose queue a process still waits.                             *)
LeastCharged ==
  [][\A g \in Groups :
       num_threads[g] > 0 /\ spec_virt_time'[g] > spec_virt_time[g] =>
         \A h \in Groups : runqueue'[h] # <<>> =>
           spec_virt_time'[g] - Cost[g] <= spec_virt_time'[h] + GroupBonus]_vars

(* How far the picks may depart from the order of the virtual times: by    *)
(* GROUP_BONUS and no more, whatever the other cores did in between.       *)
THEOREM ChargedInTurn == Spec => LeastCharged
<1> DEFINE Fair == \A g \in Groups :
                     num_threads[g] > 0 /\ spec_virt_time'[g] > spec_virt_time[g] =>
                       \A h \in Groups : runqueue'[h] # <<>> =>
                         spec_virt_time'[g] - Cost[g] <= spec_virt_time'[h] + GroupBonus
<1>1. IInv /\ [Next]_vars => [Fair]_vars
  <2> SUFFICES ASSUME IInv, Next,
                      NEW g \in Groups, num_threads[g] > 0, spec_virt_time'[g] > spec_virt_time[g],
                      NEW h \in Groups, runqueue'[h] # <<>>
               PROVE  spec_virt_time'[g] - Cost[g] <= spec_virt_time'[h] + GroupBonus
    OBVIOUS
  <2>1. spec_virt_time \in [Groups -> Nat \cup {-1}] /\ spec_virt_time[g] \in Int
    BY DEF IInv, TypeOK
  <2>2. spec_virt_time'[g] # spec_virt_time[g]
    BY <2>1
  <2>3. ASSUME NEW p, EnqueueProc(p) PROVE FALSE
    <3>1. CASE num_threads[GroupOf[p]] = 0
      <4>1. g # GroupOf[p]
        BY <3>1
      <4>2. \E x : spec_virt_time' = [spec_virt_time EXCEPT ![GroupOf[p]] = x]
        BY <2>3, <3>1 DEF EnqueueProc
      <4> QED
        BY <2>1, <2>2, <4>1, <4>2
    <3>2. CASE num_threads[GroupOf[p]] # 0
      BY <2>2, <2>3, <3>2 DEF EnqueueProc
    <3> QED
      BY <3>1, <3>2
  <2>4. ~Create
    BY <2>3 DEF Create
  <2>5. PICK c \in Cores : Schedule(c) \/ Run(c) \/ Enqueue(c) \/ Dequeue(c)
    BY <2>4 DEF Next
  <2>6. ~Run(c) /\ ~Enqueue(c)
    BY <2>2, <2>3 DEF Run, Enqueue, accounts
  <2>7. FairOf(spec_virt_time)
    <3>1. CASE Schedule(c)
      BY <3>1, RightAfterTick DEF Schedule
    <3>2. CASE Dequeue(c)
      BY <3>2, RightAfterDequeueOne, RightAfterDequeueLast DEF Dequeue
    <3> QED
      BY <2>5, <2>6, <3>1, <3>2
  <2> QED
    BY <2>7 DEF FairOf
<1>2. []IInv /\ [][Next]_vars => [][Fair]_vars
  BY <1>1, PTL
<1> QED
  BY <1>2, Invariant, PTL DEF LeastCharged, Spec
=============================================================================
