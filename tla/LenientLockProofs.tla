-------------------------- MODULE LenientLockProofs --------------------------
(***************************************************************************)
(* What holds of LenientLock for any number of cores, any groups, weights  *)
(* and processes, and any bound on the weights.                            *)
(***************************************************************************)
EXTENDS LenientLock, DataFacts

Has(queues, cur, p) == p \in SetOf(queues[GroupOf[p]]) \/ \E c \in Cores : cur[c] = p
ThreadsOf(queues, cur, g) == {p \in Procs : GroupOf[p] = g /\ Has(queues, cur, p)}
CoresOn(cur, g) == {c \in Cores : cur[c] # None /\ GroupOf[cur[c]] = g}

(* A process is in one queue once, that of its group, or on one core.      *)
Sorted(queues) ==
  /\ queues \in [Groups -> Seq(Procs)]
  /\ \A g \in Groups : Distinct(queues[g]) /\ \A p \in SetOf(queues[g]) : GroupOf[p] = g
Neat(queues, cur) ==
  /\ Sorted(queues) /\ cur \in [Cores -> Procs \cup {None}]
  /\ \A c, d \in Cores : cur[c] # None /\ cur[c] = cur[d] => c = d
  /\ \A c \in Cores : cur[c] # None => cur[c] \notin SetOf(queues[GroupOf[cur[c]]])

LEMMA CoresFacts == NumCores \in Nat /\ NumCores > 0 /\ Cores = 0 .. NumCores - 1 /\ IsFiniteSet(Cores)
<1>1. NumCores \in Nat /\ NumCores > 0
  BY SizesAssumption
<1>2. NumCores - 1 \in Int
  BY <1>1
<1> QED
  BY <1>1, <1>2, FS_Interval DEF Cores

LEMMA MinOfTwo ==
  ASSUME NEW a \in Nat, NEW b \in Nat
  PROVE  Min({a, b}) = IF a <= b THEN a ELSE b
BY DEF Min

-----------------------------------------------------------------------------
(* The head of schedule: every process that runs is queued.                *)
Collected(queues, cur, n, g) ==
  SetOf(queues[g]) \cup {p \in Procs : GroupOf[p] = g /\ \E c \in Cores : c < n /\ cur[c] = p}

RightUpTo(queues, cur, n, d) ==
  /\ d \in [Groups -> Seq(Procs)]
  /\ \A g \in Groups : Distinct(d[g]) /\ SetOf(d[g]) = Collected(queues, cur, n, g)

LEMMA RequeuedStep ==
  ASSUME NEW queues, NEW cur, Neat(queues, cur), NEW n \in 0 .. NumCores - 1,
         NEW d, RightUpTo(queues, cur, n, d), NEW e,
         e = IF cur[n] = None THEN d ELSE [d EXCEPT ![GroupOf[cur[n]]] = Append(@, cur[n])]
  PROVE  RightUpTo(queues, cur, n + 1, e)
<1> USE DEF RightUpTo
<1>1. n \in Cores /\ \A c \in Cores : c < n + 1 <=> (c < n \/ c = n)
  BY CoresFacts
<1>2. CASE cur[n] = None
  <2>1. \A p \in Procs : (\E c \in Cores : c < n + 1 /\ cur[c] = p)
                           <=> (\E c \in Cores : c < n /\ cur[c] = p)
    BY <1>1, <1>2, NoneAssumption
  <2>2. \A g \in Groups : Collected(queues, cur, n + 1, g) = Collected(queues, cur, n, g)
    BY <2>1 DEF Collected
  <2> QED
    BY <1>2, <2>2
<1>3. CASE cur[n] # None
  <2>1. PICK p \in Procs : p = cur[n]
    BY <1>1, <1>3 DEF Neat
  <2>2. PICK h \in Groups : h = GroupOf[p]
    BY <2>1, GroupsAssumption
  <2>3. \A q \in Procs : (\E c \in Cores : c < n + 1 /\ cur[c] = q)
                           <=> ((\E c \in Cores : c < n /\ cur[c] = q) \/ q = p)
    BY <1>1, <2>1
  <2>4. \A g \in Groups : Collected(queues, cur, n + 1, g) =
                            IF g = h THEN Collected(queues, cur, n, g) \cup {p}
                            ELSE Collected(queues, cur, n, g)
    BY <2>2, <2>3 DEF Collected
  <2>5. p \notin SetOf(d[h])
    <3>1. p \notin SetOf(queues[h])
      BY <1>1, <1>3, <2>1, <2>2 DEF Neat
    <3>2. ~ \E c \in Cores : c < n /\ cur[c] = p
      BY <1>1, <1>3, <2>1 DEF Neat
    <3> QED
      BY <3>1, <3>2 DEF Collected
  <2>6. /\ Append(d[h], p) \in Seq(Procs) /\ Distinct(Append(d[h], p))
        /\ SetOf(Append(d[h], p)) = SetOf(d[h]) \cup {p}
    BY <2>5, AppendList
  <2>7. e = [d EXCEPT ![h] = Append(d[h], p)]
    BY <1>3, <2>1, <2>2
  <2>8. \A g \in Groups : e[g] = IF g = h THEN Append(d[h], p) ELSE d[g]
    BY <2>7
  <2> QED
    BY <2>4, <2>6, <2>7, <2>8
<1> QED
  BY <1>2, <1>3

LEMMA RequeuedAll ==
  ASSUME NEW queues, NEW cur, Neat(queues, cur), NEW q, q = Requeued(queues, cur)
  PROVE  /\ q \in [Groups -> Seq(Procs)]
         /\ \A g \in Groups : Distinct(q[g]) /\ SetOf(q[g]) = ThreadsOf(queues, cur, g)
<1> DEFINE put(d, n) == IF cur[n - 1] = None THEN d
                        ELSE [d EXCEPT ![GroupOf[cur[n - 1]]] = Append(@, cur[n - 1])]
           After(h) == h = [n \in 0 .. NumCores |-> IF n = 0 THEN queues ELSE put(h[n - 1], n)]
<1>1. \A n \in 1 .. NumCores : n - 1 \in Cores /\ n - 1 \in 0 .. NumCores
  BY CoresFacts
<1>2. \E h : After(h)
  <2>1. PICK D : D = [Groups -> Seq(Procs)]
    OBVIOUS
  <2>2. PICK G : G = [n \in 1 .. NumCores |-> [d \in D |-> put(d, n)]]
    OBVIOUS
  <2>3. ASSUME NEW n \in 1 .. NumCores, NEW d \in D
        PROVE  put(d, n) \in D
    <3>1. CASE cur[n - 1] = None
      BY <3>1
    <3>2. CASE cur[n - 1] # None
      <4>1. cur[n - 1] \in Procs /\ GroupOf[cur[n - 1]] \in Groups
        BY <1>1, <3>2, GroupsAssumption DEF Neat
      <4>2. Append(d[GroupOf[cur[n - 1]]], cur[n - 1]) \in Seq(Procs)
        BY <2>1, <4>1, AppendProperties
      <4> QED
        BY <2>1, <3>2, <4>1, <4>2
    <3> QED
      BY <3>1, <3>2
  <2> HIDE DEF put
  <2>4. G \in [1 .. NumCores -> [D -> D]] /\ queues \in D /\ NumCores \in Nat
    BY <2>1, <2>2, <2>3, CoresFacts DEF Neat, Sorted
  <2>5. PICK f \in [0 .. NumCores -> D] :
           f[0] = queues /\ \A n \in 1 .. NumCores : f[n] = G[n][f[n - 1]]
    BY ONLY <2>4, RecursionExists
  <2>6. \A n \in 0 .. NumCores : f[n] = IF n = 0 THEN queues ELSE put(f[n - 1], n)
    <3> SUFFICES ASSUME NEW n \in 0 .. NumCores, n # 0
                 PROVE  f[n] = put(f[n - 1], n)
      BY <2>5
    <3>1. n \in 1 .. NumCores /\ n - 1 \in 0 .. NumCores
      BY CoresFacts
    <3>2. f[n - 1] \in D /\ f[n] = G[n][f[n - 1]]
      BY <2>5, <3>1
    <3> QED
      BY <2>2, <3>1, <3>2
  <2>7. f = [n \in 0 .. NumCores |-> IF n = 0 THEN queues ELSE put(f[n - 1], n)]
    BY <2>5, <2>6
  <2> QED
    BY <2>7
<1>3. PICK h : After(h) /\ q = h[NumCores]
  <2>1. q = (CHOOSE h : After(h))[NumCores]
    BY DEF Requeued
  <2> HIDE DEF After
  <2> QED
    BY <1>2, <2>1
<1>4. \A n \in 0 .. NumCores : h[n] = IF n = 0 THEN queues ELSE put(h[n - 1], n)
  BY <1>3
<1> HIDE DEF After, put
<1> DEFINE A == {n \in Nat : n <= NumCores => RightUpTo(queues, cur, n, h[n])}
<1>5. \A n \in Nat : n \in A
  <2>1. 0 \in A
    <3>1. \A c \in Cores : ~(c < 0)
      BY CoresFacts
    <3>2. \A g \in Groups : Collected(queues, cur, 0, g) = SetOf(queues[g])
      BY <3>1 DEF Collected
    <3>3. h[0] = queues
      <4>1. 0 \in 0 .. NumCores
        BY CoresFacts
      <4> QED
        BY <1>4, <4>1
    <3> QED
      BY <3>2, <3>3 DEF Neat, Sorted, RightUpTo
  <2>2. ASSUME NEW n \in Nat, n \in A
        PROVE  n + 1 \in A
    <3> SUFFICES ASSUME n + 1 <= NumCores
                 PROVE  RightUpTo(queues, cur, n + 1, h[n + 1])
      OBVIOUS
    <3>1. n \in 0 .. NumCores - 1 /\ n + 1 \in 0 .. NumCores /\ n + 1 # 0 /\ (n + 1) - 1 = n
      BY CoresFacts
    <3>2. RightUpTo(queues, cur, n, h[n])
      BY <2>2, <3>1, CoresFacts
    <3>3. h[n + 1] = put(h[n], n + 1)
      BY <1>4, <3>1
    <3>4. h[n + 1] = IF cur[n] = None THEN h[n]
                     ELSE [h[n] EXCEPT ![GroupOf[cur[n]]] = Append(@, cur[n])]
      BY <3>1, <3>3 DEF put
    <3>5. PICK d, e : d = h[n] /\ e = h[n + 1]
      OBVIOUS
    <3>6. RightUpTo(queues, cur, n, d)
      BY <3>2, <3>5
    <3>7. e = IF cur[n] = None THEN d ELSE [d EXCEPT ![GroupOf[cur[n]]] = Append(@, cur[n])]
      BY <3>4, <3>5
    <3>8. RightUpTo(queues, cur, n + 1, e)
      BY ONLY Neat(queues, cur), <3>1, <3>6, <3>7, RequeuedStep
    <3> QED
      BY <3>5, <3>8
  <2> HIDE DEF A
  <2> QED
    BY <2>1, <2>2, NumberInduction
<1>6. RightUpTo(queues, cur, NumCores, q)
  BY <1>3, <1>5, CoresFacts
<1>7. \A g \in Groups : Collected(queues, cur, NumCores, g) = ThreadsOf(queues, cur, g)
  <2> SUFFICES ASSUME NEW g \in Groups
               PROVE  Collected(queues, cur, NumCores, g) = ThreadsOf(queues, cur, g)
    OBVIOUS
  <2>1. \A c \in Cores : c < NumCores
    BY CoresFacts
  <2>2. \A p \in SetOf(queues[g]) : p \in Procs /\ GroupOf[p] = g
    BY DEF Neat, Sorted, SetOf
  <2> QED
    BY <2>1, <2>2 DEF Collected, ThreadsOf, Has
<1> QED
  BY <1>6, <1>7 DEF RightUpTo

-----------------------------------------------------------------------------
(* The groups take their shares in turn.                                   *)
GivenOf(q, share) == [g \in Groups |-> Given(share[g], q[g])]
LeftOf(q, given) == [g \in Groups |-> SubSeq(q[g], Len(given[g]) + 1, Len(q[g]))]
ChosenOf(list, given) == FlattenSeq([i \in DOMAIN list |-> given[list[i]]])

Parted(q, share, given, left) ==
  /\ Sorted(given) /\ Sorted(left)
  /\ \A g \in Groups : /\ Len(given[g]) = Min({share[g], Len(q[g])})
                       /\ Len(given[g]) <= share[g]
                       /\ SetOf(given[g]) \cup SetOf(left[g]) = SetOf(q[g])
                       /\ SetOf(given[g]) \cap SetOf(left[g]) = {}

LEMMA GivenFacts ==
  ASSUME NEW q, Sorted(q), NEW share \in [Groups -> Nat], NEW given, given = GivenOf(q, share),
         NEW left, left = LeftOf(q, given)
  PROVE  Parted(q, share, given, left)
<1>1. ASSUME NEW g \in Groups
      PROVE  /\ given[g] \in Seq(Procs) /\ left[g] \in Seq(Procs)
             /\ Distinct(given[g]) /\ Distinct(left[g])
             /\ Len(given[g]) = Min({share[g], Len(q[g])}) /\ Len(given[g]) <= share[g]
             /\ SetOf(given[g]) \cup SetOf(left[g]) = SetOf(q[g])
             /\ SetOf(given[g]) \cap SetOf(left[g]) = {}
  <2>1. PICK s : s = q[g]
    OBVIOUS
  <2>2. s \in Seq(Procs) /\ Distinct(s) /\ Len(s) \in Nat /\ share[g] \in Nat
    BY <2>1, LenProperties DEF Sorted
  <2>3. PICK n : n = Min({share[g], Len(s)})
    OBVIOUS
  <2>4. n \in 0 .. Len(s) /\ n <= share[g]
    BY <2>2, <2>3, MinOfTwo
  <2>5. given[g] = SubSeq(s, 1, n)
    BY <2>1, <2>3 DEF GivenOf, Given
  <2>6. Len(given[g]) = n
    BY <2>2, <2>4, <2>5, SplitList
  <2>7. left[g] = SubSeq(s, n + 1, Len(s))
    BY <2>1, <2>6 DEF LeftOf
  <2>8. PICK a, b : a = given[g] /\ b = left[g]
    OBVIOUS
  <2>9. /\ a \in Seq(Procs) /\ b \in Seq(Procs) /\ Len(a) = n /\ Distinct(a) /\ Distinct(b)
        /\ SetOf(a) \cup SetOf(b) = SetOf(s) /\ SetOf(a) \cap SetOf(b) = {}
    BY <2>2, <2>4, <2>5, <2>7, <2>8, SplitList
  <2> QED
    BY <2>1, <2>3, <2>4, <2>8, <2>9
<1>2. /\ given \in [Groups -> Seq(Procs)] /\ left \in [Groups -> Seq(Procs)]
  BY <1>1 DEF GivenOf, LeftOf
<1>3. \A g \in Groups : \A p \in SetOf(given[g]) \cup SetOf(left[g]) : GroupOf[p] = g
  BY <1>1 DEF Sorted
<1> QED
  BY <1>1, <1>2, <1>3 DEF Sorted, Parted

FirstGroups(list, n) == {list[i] : i \in 1 .. n}
ChosenUpTo(list, given, share, n, s) ==
  /\ s \in Seq(Procs) /\ Distinct(s) /\ Len(s) <= SumOver(share, FirstGroups(list, n))
  /\ \A p \in Procs : p \in SetOf(s) <=>
                        GroupOf[p] \in FirstGroups(list, n) /\ p \in SetOf(given[GroupOf[p]])

LEMMA FrontFacts ==
  ASSUME NEW list \in Seq(Groups), IsInjective(list), NEW n \in 0 .. Len(list)
  PROVE  /\ FirstGroups(list, n) \subseteq Groups /\ IsFiniteSet(FirstGroups(list, n))
         /\ n > 0 => /\ list[n] \in Groups /\ list[n] \notin FirstGroups(list, n - 1)
                     /\ FirstGroups(list, n) = FirstGroups(list, n - 1) \cup {list[n]}
<1>1. /\ Len(list) \in Nat /\ DOMAIN list = 1 .. Len(list)
      /\ \A i \in 1 .. Len(list) : list[i] \in Groups
  BY LenProperties
<1>2. FirstGroups(list, n) \subseteq Groups
  BY <1>1 DEF FirstGroups
<1>3. IsFiniteSet(FirstGroups(list, n))
  <2>1. PICK f : f = [i \in 1 .. n |-> list[i]]
    OBVIOUS
  <2>2. f \in Surjection(1 .. n, FirstGroups(list, n))
    BY <2>1 DEF FirstGroups, Surjection
  <2>3. IsFiniteSet(1 .. n)
    BY FS_Interval
  <2> QED
    BY <2>2, <2>3, FS_Surjection
<1>4. ASSUME n > 0
      PROVE  /\ list[n] \in Groups /\ list[n] \notin FirstGroups(list, n - 1)
             /\ FirstGroups(list, n) = FirstGroups(list, n - 1) \cup {list[n]}
  <2>1. n \in 1 .. Len(list) /\ \A i \in 1 .. n - 1 : i \in 1 .. Len(list) /\ i # n
    BY <1>1, <1>4
  <2>2. list[n] \notin FirstGroups(list, n - 1)
    BY <1>1, <2>1 DEF FirstGroups, IsInjective
  <2>3. \A i : i \in 1 .. n <=> (i \in 1 .. n - 1 \/ i = n)
    BY <1>4
  <2> QED
    BY <1>1, <2>1, <2>2, <2>3 DEF FirstGroups
<1> QED
  BY <1>2, <1>3, <1>4

LEMMA ChosenStep ==
  ASSUME NEW list \in Seq(Groups), IsInjective(list), NEW given, Sorted(given),
         NEW share \in [Groups -> Nat], \A g \in Groups : Len(given[g]) <= share[g],
         NEW n \in 0 .. Len(list) - 1, NEW s, ChosenUpTo(list, given, share, n, s)
  PROVE  ChosenUpTo(list, given, share, n + 1, s \o given[list[n + 1]])
<1>1. /\ n + 1 \in 0 .. Len(list) /\ n \in 0 .. Len(list) /\ n + 1 > 0 /\ (n + 1) - 1 = n
  BY LenProperties
<1>2. PICK g, t : g \in Groups /\ g = list[n + 1] /\ t = given[g]
  BY <1>1, FrontFacts
<1>3. /\ g \notin FirstGroups(list, n) /\ FirstGroups(list, n + 1) = FirstGroups(list, n) \cup {g}
      /\ FirstGroups(list, n) \subseteq Groups /\ IsFiniteSet(FirstGroups(list, n))
  BY <1>1, <1>2, FrontFacts
<1>4. /\ s \in Seq(Procs) /\ Distinct(s) /\ Len(s) \in Nat
      /\ Len(s) <= SumOver(share, FirstGroups(list, n))
      /\ \A p \in Procs : p \in SetOf(s) <=>
                            GroupOf[p] \in FirstGroups(list, n) /\ p \in SetOf(given[GroupOf[p]])
  BY LenProperties DEF ChosenUpTo
<1>5. /\ t \in Seq(Procs) /\ Distinct(t) /\ Len(t) \in Nat /\ Len(t) <= share[g]
      /\ \A p \in SetOf(t) : p \in Procs /\ GroupOf[p] = g
  BY <1>2, LenProperties DEF Sorted, SetOf
<1>6. SetOf(s) \cap SetOf(t) = {}
  BY <1>3, <1>4, <1>5
<1>7. /\ s \o t \in Seq(Procs) /\ Distinct(s \o t) /\ Len(s \o t) = Len(s) + Len(t)
      /\ SetOf(s \o t) = SetOf(s) \cup SetOf(t)
  BY <1>4, <1>5, <1>6, ConcatList
<1>8. Len(s \o t) <= SumOver(share, FirstGroups(list, n + 1))
  <2>1. PICK A, B : A = FirstGroups(list, n) /\ B = FirstGroups(list, n + 1)
    OBVIOUS
  <2>2. /\ B = A \cup {g} /\ g \notin A /\ IsFiniteSet(A)
        /\ \A x \in A : share[x] \in Nat
        /\ \A x \in A \cup {g} : share[x] \in Int
    BY <1>2, <1>3, <2>1
  <2>3. SumOver(share, B) = share[g] + SumOver(share, A)
    BY ONLY <2>2, SumAdd
  <2>4. SumOver(share, A) \in Nat
    BY ONLY <2>2, SumNat
  <2>5. PICK a, b : a = SumOver(share, A) /\ b = SumOver(share, B)
    OBVIOUS
  <2>6. a \in Nat /\ b = share[g] + a /\ share[g] \in Nat
    BY <1>2, <2>3, <2>4, <2>5
  <2>7. Len(s) <= a
    BY <1>4, <2>1, <2>5
  <2>8. Len(s \o t) <= b
    BY <1>4, <1>5, <1>7, <2>6, <2>7
  <2> QED
    BY <2>1, <2>5, <2>8
<1>9. ASSUME NEW p \in Procs
      PROVE  p \in SetOf(s \o t) <=>
               GroupOf[p] \in FirstGroups(list, n + 1) /\ p \in SetOf(given[GroupOf[p]])
  <2>1. p \in SetOf(t) <=> GroupOf[p] = g /\ p \in SetOf(given[GroupOf[p]])
    BY <1>2, <1>5
  <2> QED
    BY <1>3, <1>4, <1>7, <2>1
<1> QED
  BY <1>2, <1>7, <1>8, <1>9 DEF ChosenUpTo

LEMMA ChosenAll ==
  ASSUME NEW list \in Seq(Groups), IsInjective(list), NEW given, Sorted(given),
         NEW share \in [Groups -> Nat], \A g \in Groups : Len(given[g]) <= share[g],
         NEW chosen, chosen = ChosenOf(list, given)
  PROVE  ChosenUpTo(list, given, share, Len(list), chosen)
<1>1. Len(list) \in Nat /\ DOMAIN list = 1 .. Len(list)
  BY LenProperties
<1>2. PICK lists : lists = [i \in 1 .. Len(list) |-> given[list[i]]]
  OBVIOUS
<1>3. lists \in Seq(Seq(Procs)) /\ Len(lists) = Len(list)
  BY <1>1, <1>2 DEF Sorted
<1>4. PICK f : /\ f \in [0 .. Len(list) -> Seq(Procs)] /\ f[0] = <<>> /\ chosen = f[Len(list)]
               /\ \A n \in 1 .. Len(list) : f[n] = f[n - 1] \o lists[n]
  <2>1. chosen = FlattenSeq(lists)
    BY <1>1, <1>2 DEF ChosenOf
  <2>2. \E f : Concatenations(f, Len(lists), lists, Seq(Procs)) /\ FlattenSeq(lists) = f[Len(lists)]
    BY <1>3, Flattened
  <2> QED
    BY <1>3, <2>1, <2>2 DEF Concatenations
<1> DEFINE A == {n \in Nat : n <= Len(list) => ChosenUpTo(list, given, share, n, f[n])}
<1>5. \A n \in Nat : n \in A
  <2>1. 0 \in A
    <3>1. FirstGroups(list, 0) = {}
      BY DEF FirstGroups
    <3>2. SumOver(share, FirstGroups(list, 0)) = 0
      BY <3>1, SumEmpty
    <3>3. <<>> \in Seq(Procs) /\ Distinct(<<>>) /\ SetOf(<<>>) = {} /\ Len(<<>>) = 0
      BY DEF Distinct, SetOf
    <3> QED
      BY <1>4, <3>1, <3>2, <3>3 DEF ChosenUpTo
  <2>2. ASSUME NEW n \in Nat, n \in A
        PROVE  n + 1 \in A
    <3> SUFFICES ASSUME n + 1 <= Len(list)
                 PROVE  ChosenUpTo(list, given, share, n + 1, f[n + 1])
      OBVIOUS
    <3>1. n \in 0 .. Len(list) - 1 /\ n + 1 \in 1 .. Len(list) /\ (n + 1) - 1 = n
      BY <1>1
    <3>2. ChosenUpTo(list, given, share, n, f[n])
      BY <2>2, <1>1
    <3>3. f[n + 1] = f[n] \o given[list[n + 1]]
      BY <1>2, <1>4, <3>1
    <3> QED
      BY <3>1, <3>2, <3>3, ChosenStep
  <2> HIDE DEF A
  <2> QED
    BY <2>1, <2>2, NumberInduction
<1>6. Len(list) \in A
  BY <1>1, <1>5
<1>7. ChosenUpTo(list, given, share, Len(list), f[Len(list)])
  BY <1>1, <1>6
<1> QED
  BY <1>4, <1>7

-----------------------------------------------------------------------------
(* The shares: of a total that has every listed group's weight in it.      *)
Weighed(list, total, share) ==
  /\ list \in Seq(Groups) /\ IsInjective(list)
  /\ total \in Nat /\ total >= SumOver(Weight, ToSet(list))
  /\ share \in [Groups -> 0 .. NumCores]
  /\ \A g \in ToSet(list) : share[g] = Share(g, total)

LEMMA TimesMonotone ==
  ASSUME NEW a \in Nat, NEW b \in Nat, NEW k \in Nat, k > 0, k * a <= k * b
  PROVE  a <= b
<1> SUFFICES ASSUME a >= b + 1 PROVE FALSE
  OBVIOUS
<1>1. PICK d \in Nat : a = b + 1 + d
  <2>1. a - b - 1 \in Nat /\ a = b + 1 + (a - b - 1)
    OBVIOUS
  <2> QED
    BY <2>1
<1>2. k * a = k * b + k + k * d
  BY <1>1
<1>3. k * b \in Nat /\ k * d \in Nat
  OBVIOUS
<1> QED
  BY <1>2, <1>3

LEMMA Quotient ==
  ASSUME NEW a \in Nat, NEW k \in Nat, k > 0
  PROVE  a \div k \in Nat /\ k * (a \div k) <= a
OBVIOUS

LEMMA ToSetFront ==
  ASSUME NEW list \in Seq(Groups), IsInjective(list)
  PROVE  /\ ToSet(list) = FirstGroups(list, Len(list)) /\ ToSet(list) \subseteq Groups
         /\ IsFiniteSet(ToSet(list)) /\ \A g : Contains(list, g) <=> g \in ToSet(list)
<1>1. Len(list) \in Nat /\ DOMAIN list = 1 .. Len(list)
  BY LenProperties
<1>2. ToSet(list) = FirstGroups(list, Len(list)) /\ \A g : Contains(list, g) <=> g \in ToSet(list)
  BY <1>1 DEF ToSet, FirstGroups, Contains
<1> QED
  BY <1>1, <1>2, FrontFacts

LEMMA ShareFacts ==
  ASSUME NEW S, IsFiniteSet(S), S \subseteq Groups, NEW total \in Nat,
         total >= SumOver(Weight, S), NEW g \in S
  PROVE  /\ total > 0 /\ Share(g, total) \in 0 .. NumCores
         /\ total * Share(g, total) <= NumCores * Weight[g]
<1>1. PICK w, n : w = Weight[g] /\ n = NumCores
  OBVIOUS
<1>2. w \in Nat /\ w > 0 /\ n \in Nat /\ \A x \in S : Weight[x] \in Nat
  BY <1>1, GroupsAssumption, SizesAssumption
<1>3. w <= SumOver(Weight, S) /\ SumOver(Weight, S) \in Nat
  BY <1>1, <1>2, SumAtLeast, SumNat
<1>4. total > 0 /\ w <= total
  BY <1>2, <1>3
<1>5. PICK a : a = w * n
  OBVIOUS
<1>6. a \in Nat /\ Share(g, total) = a \div total
  BY <1>1, <1>2, <1>5 DEF Share
<1>7. PICK q : q = a \div total
  OBVIOUS
<1>8. q \in Nat /\ total * q <= a
  BY <1>4, <1>6, <1>7, Quotient
<1>9. a <= total * n
  <2>1. PICK d \in Nat : total = w + d
    <3>1. total - w \in Nat /\ total = w + (total - w)
      BY <1>2, <1>4
    <3> QED
      BY <3>1
  <2>2. total * n = w * n + d * n /\ d * n \in Nat
    BY <1>2, <2>1
  <2> QED
    BY <1>2, <1>5, <1>6, <2>2
<1>10. total * q <= total * n
  BY <1>2, <1>6, <1>8, <1>9
<1>11. q <= n
  BY <1>2, <1>4, <1>8, <1>10, TimesMonotone
<1>12. a = n * w
  BY <1>2, <1>5
<1> QED
  BY <1>1, <1>2, <1>4, <1>6, <1>7, <1>8, <1>11, <1>12

(* n_cores_assigned never passes NUM_CORES.                                *)
LEMMA SharesFitIn ==
  ASSUME NEW list, NEW total, NEW share, Weighed(list, total, share)
  PROVE  SumOver(share, ToSet(list)) \in Nat /\ SumOver(share, ToSet(list)) <= NumCores
<1>1. PICK S : S = ToSet(list)
  OBVIOUS
<1>2. /\ S \subseteq Groups /\ IsFiniteSet(S) /\ total \in Nat /\ total >= SumOver(Weight, S)
      /\ share \in [Groups -> 0 .. NumCores] /\ \A g \in S : share[g] = Share(g, total)
  BY <1>1, ToSetFront DEF Weighed
<1>3. NumCores \in Nat
  BY SizesAssumption
<1>4. \A g \in S : share[g] \in Nat /\ Weight[g] \in Nat /\ total * share[g] <= NumCores * Weight[g]
  BY <1>2, <1>3, ShareFacts, GroupsAssumption
<1>5. PICK a, b : a = SumOver(share, S) /\ b = SumOver(Weight, S)
  OBVIOUS
<1>6. a \in Nat /\ b \in Nat
  BY <1>2, <1>4, <1>5, SumNat
<1>7. total * a <= NumCores * b
  BY <1>2, <1>3, <1>4, <1>5, SumProportion
<1>8. CASE S = {}
  BY <1>1, <1>3, <1>5, <1>6, <1>8, SumEmpty
<1>9. CASE S # {}
  <2>1. total > 0
    BY <1>2, <1>9, ShareFacts
  <2>2. NumCores * b <= NumCores * total
    <3>1. PICK d \in Nat : total = b + d
      <4>1. total - b \in Nat /\ total = b + (total - b)
        BY <1>2, <1>5, <1>6
      <4> QED
        BY <4>1
    <3>2. NumCores * total = NumCores * b + NumCores * d /\ NumCores * d \in Nat /\ NumCores * b \in Nat
      BY <1>3, <1>6, <3>1
    <3> QED
      BY <3>2
  <2>3. NumCores * total = total * NumCores /\ total * a \in Nat /\ NumCores * b \in Nat
          /\ total * NumCores \in Nat
    BY <1>2, <1>3, <1>6
  <2>4. total * a <= total * NumCores
    BY <1>7, <2>2, <2>3
  <2>5. a <= NumCores
    BY <1>2, <1>3, <1>6, <2>1, <2>4, TimesMonotone
  <2> QED
    BY <1>1, <1>5, <1>6, <2>5
<1> QED
  BY <1>8, <1>9

-----------------------------------------------------------------------------
(* What schedule leaves behind, whatever it finds in the queues and on the *)
(* cores: the listed groups on their shares of the cores, and every thread *)
(* where the cores and the queues say.                                     *)
Scheduled(list, share, queues, cur) ==
  /\ Neat(queues, cur)
  /\ \A g \in Groups : Cardinality(CoresOn(cur, g)) =
       IF g \in ToSet(list) THEN Min({share[g], Cardinality(ThreadsOf(queues, cur, g))}) ELSE 0
Noted(core, cur) ==
  core \in [Procs -> Cores \cup {-1}] /\ \A p \in Procs, c \in Cores : core[p] = c <=> cur[c] = p

(* The cores, filled from the first on.                                    *)
Filled(chosen) == [c \in Cores |-> IF c < Len(chosen) THEN chosen[c + 1] ELSE None]

LEMMA FilledFacts ==
  ASSUME NEW chosen \in Seq(Procs), Distinct(chosen), Len(chosen) <= NumCores,
         NEW cur, cur = Filled(chosen)
  PROVE  /\ cur \in [Cores -> Procs \cup {None}]
         /\ \A c, d \in Cores : cur[c] # None /\ cur[c] = cur[d] => c = d
         /\ \A p \in Procs : (\E c \in Cores : cur[c] = p) <=> p \in SetOf(chosen)
         /\ \A p \in SetOf(chosen) : CoreFor(chosen, p) \in Cores /\ cur[CoreFor(chosen, p)] = p
<1>1. Len(chosen) \in Nat /\ \A i \in 1 .. Len(chosen) : chosen[i] \in Procs /\ chosen[i] # None
  BY LenProperties, NoneAssumption
<1>2. \A c \in Cores : c \in Nat /\ (c < Len(chosen) => c + 1 \in 1 .. Len(chosen))
  BY <1>1, CoresFacts
<1>3. \A c \in Cores : cur[c] = IF c < Len(chosen) THEN chosen[c + 1] ELSE None
  BY DEF Filled
<1>4. cur \in [Cores -> Procs \cup {None}]
  BY <1>1, <1>2 DEF Filled
<1>5. ASSUME NEW c \in Cores, NEW d \in Cores, cur[c] # None, cur[c] = cur[d]
      PROVE  c = d
  <2>1. c + 1 \in 1 .. Len(chosen) /\ d + 1 \in 1 .. Len(chosen) /\ chosen[c + 1] = chosen[d + 1]
    BY <1>2, <1>3, <1>5
  <2>2. c + 1 = d + 1
    BY <2>1 DEF Distinct
  <2> QED
    BY <1>2, <2>2
<1>6. ASSUME NEW p \in SetOf(chosen)
      PROVE  CoreFor(chosen, p) \in Cores /\ cur[CoreFor(chosen, p)] = p
  <2>1. PICK i \in 1 .. Len(chosen) : chosen[i] = p
    BY DEF SetOf
  <2>2. {j \in 1 .. Len(chosen) : chosen[j] = p} = {i}
    BY <2>1 DEF Distinct
  <2>3. Min({i}) = i
    BY <1>1 DEF Min
  <2>4. CoreFor(chosen, p) = i - 1
    BY <2>2, <2>3 DEF CoreFor, SelectInSeq
  <2>5. i - 1 \in Cores /\ i - 1 < Len(chosen) /\ (i - 1) + 1 = i
    BY <1>1, CoresFacts
  <2>6. cur[i - 1] = chosen[i]
    BY <1>3, <2>5
  <2> QED
    BY <2>1, <2>4, <2>5, <2>6
<1>7. ASSUME NEW p \in Procs
      PROVE  (\E c \in Cores : cur[c] = p) <=> p \in SetOf(chosen)
  <2>1. ASSUME NEW c \in Cores, cur[c] = p
        PROVE  p \in SetOf(chosen)
    <3>1. c + 1 \in 1 .. Len(chosen) /\ chosen[c + 1] = p
      BY <1>2, <1>3, <2>1, NoneAssumption
    <3> QED
      BY <3>1 DEF SetOf
  <2> QED
    BY <1>6, <2>1
<1> QED
  BY <1>4, <1>5, <1>6, <1>7

LEMMA Scheduling ==
  ASSUME NEW queues, NEW cur, Neat(queues, cur), NEW list, NEW total, NEW share,
         Weighed(list, total, share), Noted(core_running_on, current),
         ScheduleFrom(queues, cur, list, share)
  PROVE  /\ Scheduled(list, share, runqueue', current') /\ Noted(core_running_on', current')
         /\ \A g \in Groups : ThreadsOf(runqueue', current', g) = ThreadsOf(queues, cur, g)
<1>1. PICK q : q = Requeued(queues, cur)
  OBVIOUS
<1>2. PICK given, left : given = GivenOf(q, share) /\ left = LeftOf(q, given)
  OBVIOUS
<1>3. PICK chosen : chosen = ChosenOf(list, given)
  OBVIOUS
<1>4. PICK S : S = ToSet(list)
  OBVIOUS
<1>5. PICK queues2, cur2, core2 : queues2 = runqueue' /\ cur2 = current' /\ core2 = core_running_on'
  OBVIOUS
<1>6. /\ cur2 = Filled(chosen)
      /\ queues2 = [g \in Groups |-> IF Contains(list, g) THEN left[g] ELSE q[g]]
      /\ core2 = [p \in Procs |->
           IF Contains(chosen, p) THEN CoreFor(chosen, p)
           ELSE IF \E c \in Cores : current[c] = p THEN -1
           ELSE core_running_on[p]]
  BY <1>1, <1>2, <1>3, <1>5 DEF ScheduleFrom, Filled, GivenOf, LeftOf, ChosenOf
<1>7. /\ Sorted(q) /\ \A g \in Groups : SetOf(q[g]) = ThreadsOf(queues, cur, g)
  <2>1. /\ q \in [Groups -> Seq(Procs)]
        /\ \A g \in Groups : Distinct(q[g]) /\ SetOf(q[g]) = ThreadsOf(queues, cur, g)
    BY <1>1, RequeuedAll
  <2> QED
    BY <2>1 DEF Sorted, ThreadsOf
<1>8. /\ list \in Seq(Groups) /\ IsInjective(list) /\ share \in [Groups -> Nat]
      /\ NumCores \in Nat
  BY SizesAssumption DEF Weighed
<1>9. /\ Sorted(given) /\ Sorted(left)
      /\ \A g \in Groups : /\ Len(given[g]) = Min({share[g], Len(q[g])})
                           /\ Len(given[g]) <= share[g]
                           /\ SetOf(given[g]) \cup SetOf(left[g]) = SetOf(q[g])
                           /\ SetOf(given[g]) \cap SetOf(left[g]) = {}
  <2>1. Parted(q, share, given, left)
    BY ONLY <1>2, <1>7, <1>8, GivenFacts
  <2> QED
    BY <2>1 DEF Parted
<1>10. S \subseteq Groups /\ IsFiniteSet(S) /\ \A g : Contains(list, g) <=> g \in S
  BY <1>4, <1>8, ToSetFront
<1>11. /\ chosen \in Seq(Procs) /\ Distinct(chosen) /\ Len(chosen) <= NumCores
       /\ \A p \in Procs : p \in SetOf(chosen) <=>
                             GroupOf[p] \in S /\ p \in SetOf(given[GroupOf[p]])
  <2>1. ChosenUpTo(list, given, share, Len(list), chosen)
    BY <1>3, <1>8, <1>9, ChosenAll
  <2>2. S = FirstGroups(list, Len(list))
    BY <1>4, <1>8, ToSetFront
  <2>3. Len(chosen) <= SumOver(share, S) /\ Len(chosen) \in Nat
    BY <2>1, <2>2, LenProperties DEF ChosenUpTo
  <2>4. SumOver(share, S) \in Nat /\ SumOver(share, S) <= NumCores
    BY <1>4, SharesFitIn
  <2> QED
    BY <1>8, <2>1, <2>2, <2>3, <2>4 DEF ChosenUpTo
<1>12. /\ cur2 \in [Cores -> Procs \cup {None}]
       /\ \A c, d \in Cores : cur2[c] # None /\ cur2[c] = cur2[d] => c = d
       /\ \A p \in Procs : (\E c \in Cores : cur2[c] = p) <=> p \in SetOf(chosen)
       /\ \A p \in SetOf(chosen) : CoreFor(chosen, p) \in Cores /\ cur2[CoreFor(chosen, p)] = p
  BY <1>6, <1>11, FilledFacts
<1>13. \A g \in Groups : queues2[g] = IF g \in S THEN left[g] ELSE q[g]
  BY <1>6, <1>10
<1>14. Sorted(queues2)
  BY <1>6, <1>7, <1>9, <1>13 DEF Sorted
<1>15. Neat(queues2, cur2)
  <2>1. ASSUME NEW c \in Cores, cur2[c] # None
        PROVE  cur2[c] \notin SetOf(queues2[GroupOf[cur2[c]]])
    <3>1. PICK p \in Procs : p = cur2[c]
      BY <1>12, <2>1
    <3>2. PICK g \in Groups : g = GroupOf[p]
      BY GroupsAssumption
    <3>3. g \in S /\ p \in SetOf(given[g])
      BY <1>11, <1>12, <3>1, <3>2
    <3>4. p \notin SetOf(left[g])
      BY <1>9, <3>3
    <3> QED
      BY <1>13, <3>1, <3>2, <3>3, <3>4
  <2> QED
    BY <1>12, <1>14, <2>1 DEF Neat
<1>16. ASSUME NEW g \in Groups
       PROVE  ThreadsOf(queues2, cur2, g) = SetOf(q[g])
  <2>1. \A p \in Procs : GroupOf[p] = g =>
          (Has(queues2, cur2, p) <=> p \in SetOf(queues2[g]) \/ p \in SetOf(chosen))
    BY <1>12 DEF Has
  <2>2. \A p \in SetOf(q[g]) : p \in Procs /\ GroupOf[p] = g
    BY <1>7 DEF ThreadsOf
  <2>3. CASE g \in S
    <3>1. queues2[g] = left[g] /\ SetOf(given[g]) \cup SetOf(left[g]) = SetOf(q[g])
      BY <1>9, <1>13, <2>3
    <3>2. \A p \in Procs : GroupOf[p] = g => (Has(queues2, cur2, p) <=> p \in SetOf(q[g]))
      BY <1>11, <2>1, <2>3, <3>1
    <3> QED
      BY <2>2, <3>2 DEF ThreadsOf
  <2>4. CASE g \notin S
    BY <1>11, <1>13, <2>1, <2>2, <2>4 DEF ThreadsOf
  <2> QED
    BY <2>3, <2>4
<1>17. ASSUME NEW g \in Groups
       PROVE  Cardinality(CoresOn(cur2, g)) =
                IF g \in S THEN Min({share[g], Cardinality(ThreadsOf(queues2, cur2, g))}) ELSE 0
  <2>1. \A c \in Cores : cur2[c] # None => cur2[c] \in Procs /\ cur2[c] \in SetOf(chosen)
    BY <1>12
  <2>2. CASE g \in S
    <3>1. PICK R, T, f : R = CoresOn(cur2, g) /\ T = SetOf(given[g]) /\ f = [c \in R |-> cur2[c]]
      OBVIOUS
    <3>2. \A c \in R : cur2[c] \in T /\ c \in Cores /\ cur2[c] # None
      BY <1>11, <2>1, <3>1 DEF CoresOn
    <3>3. \A p \in T : p \in Procs /\ GroupOf[p] = g
      BY <1>9, <3>1 DEF Sorted, SetOf
    <3>4. \A p \in T : \E c \in R : cur2[c] = p
      <4> SUFFICES ASSUME NEW p \in T
                   PROVE  \E c \in R : cur2[c] = p
        OBVIOUS
      <4>1. p \in SetOf(chosen)
        BY <1>11, <2>2, <3>1, <3>3
      <4>2. PICK c \in Cores : cur2[c] = p
        BY <1>12, <4>1
      <4> QED
        BY <3>1, <3>3, <4>2, NoneAssumption DEF CoresOn
    <3>5. f \in Bijection(R, T)
      <4>1. \A c \in R : f[c] = cur2[c]
        BY <3>1
      <4>2. f \in [R -> T]
        BY <3>1, <3>2
      <4>3. \A c, d \in R : f[c] = f[d] => c = d
        BY <1>12, <3>2, <4>1
      <4>4. \A p \in T : \E c \in R : f[c] = p
        BY <3>4, <4>1
      <4> QED
        BY <4>2, <4>3, <4>4 DEF Bijection, Injection, Surjection, IsInjective
    <3>6. IsFiniteSet(R)
      BY <3>1, CoresFacts, FS_Subset DEF CoresOn
    <3>7. Cardinality(T) = Cardinality(R)
      BY <3>5, <3>6, FS_Bijection DEF ExistsBijection
    <3>8. Cardinality(T) = Len(given[g]) /\ Cardinality(SetOf(q[g])) = Len(q[g])
      BY <1>7, <1>9, <3>1, CountList DEF Sorted
    <3> QED
      BY <1>9, <1>16, <2>2, <3>1, <3>7, <3>8
  <2>3. CASE g \notin S
    <3>1. CoresOn(cur2, g) = {}
      BY <1>11, <2>1, <2>3 DEF CoresOn
    <3> QED
      BY <2>3, <3>1, FS_EmptySet
  <2> QED
    BY <2>2, <2>3
<1>18. Noted(core2, cur2)
  <2>1. ASSUME NEW p \in Procs
        PROVE  core2[p] \in Cores \cup {-1} /\ \A c \in Cores : core2[p] = c <=> cur2[c] = p
    <3>1. Contains(chosen, p) <=> p \in SetOf(chosen)
      BY DEF Contains, SetOf
    <3>2. CASE p \in SetOf(chosen)
      <4>1. PICK d : d = CoreFor(chosen, p)
        OBVIOUS
      <4>2. core2[p] = d /\ d \in Cores /\ cur2[d] = p
        BY <1>6, <1>12, <3>1, <3>2, <4>1
      <4> QED
        BY <1>12, <4>2, NoneAssumption
    <3>3. CASE p \notin SetOf(chosen)
      <4>1. core2[p] = -1
        BY <1>6, <3>1, <3>3 DEF Noted
      <4>2. \A c \in Cores : c # -1 /\ cur2[c] # p
        BY <1>12, <3>3, CoresFacts
      <4> QED
        BY <4>1, <4>2
    <3> QED
      BY <3>2, <3>3
  <2> QED
    BY <1>6, <2>1 DEF Noted
<1> QED
  BY <1>4, <1>5, <1>7, <1>15, <1>16, <1>17, <1>18 DEF Scheduled

-----------------------------------------------------------------------------
(* The list of groups, before schedule is called.                          *)
Reweighed(list, total, share) ==
  [g \in Groups |-> IF Contains(list, g) THEN Share(g, total) ELSE share[g]]

LEMMA ReweighedFacts ==
  ASSUME NEW list \in Seq(Groups), IsInjective(list), NEW total \in Nat,
         total >= SumOver(Weight, ToSet(list)), NEW old \in [Groups -> 0 .. NumCores],
         NEW share, share = Reweighed(list, total, old)
  PROVE  Weighed(list, total, share)
<1>1. PICK S : S = ToSet(list)
  OBVIOUS
<1>2. S \subseteq Groups /\ IsFiniteSet(S) /\ \A g : Contains(list, g) <=> g \in S
  BY <1>1, ToSetFront
<1>3. \A g \in S : Share(g, total) \in 0 .. NumCores
  BY <1>1, <1>2, ShareFacts
<1>4. \A g \in Groups : share[g] = IF g \in S THEN Share(g, total) ELSE old[g]
  BY <1>2 DEF Reweighed
<1>5. share \in [Groups -> 0 .. NumCores]
  BY <1>2, <1>3 DEF Reweighed
<1> QED
  BY <1>1, <1>2, <1>4, <1>5 DEF Weighed

LEMMA ListSet ==
  ASSUME NEW list \in Seq(Groups)
  PROVE  /\ DOMAIN list = 1 .. Len(list) /\ SetOf(list) = ToSet(list)
         /\ IsInjective(list) <=> Distinct(list)
BY LenProperties DEF SetOf, ToSet, Distinct, IsInjective

LEMMA LinkedWeighed ==
  ASSUME NEW list, NEW total, NEW share, Weighed(list, total, share),
         NEW g \in Groups, g \notin ToSet(list),
         NEW list2, list2 = <<g>> \o list, NEW total2, total2 = total + Weight[g]
  PROVE  Weighed(list2, total2, Reweighed(list2, total2, share))
<1>1. /\ list \in Seq(Groups) /\ IsInjective(list) /\ total \in Nat
      /\ total >= SumOver(Weight, ToSet(list)) /\ share \in [Groups -> 0 .. NumCores]
  BY DEF Weighed
<1>2. /\ DOMAIN list = 1 .. Len(list) /\ SetOf(list) = ToSet(list) /\ Distinct(list)
      /\ IsFiniteSet(ToSet(list)) /\ ToSet(list) \subseteq Groups
  BY <1>1, ListSet, ToSetFront
<1>3. /\ list2 \in Seq(Groups) /\ SetOf(list2) = SetOf(list) \cup {g} /\ Distinct(list2)
  BY <1>1, <1>2, ConsList
<1>4. DOMAIN list2 = 1 .. Len(list2) /\ SetOf(list2) = ToSet(list2) /\ IsInjective(list2)
  BY <1>3, ListSet
<1>5. PICK S, T : S = ToSet(list) /\ T = ToSet(list2)
  OBVIOUS
<1>6. T = S \cup {g} /\ g \notin S /\ IsFiniteSet(S) /\ \A h \in S \cup {g} : Weight[h] \in Int
  <2>1. T = S \cup {g} /\ g \notin S /\ IsFiniteSet(S) /\ S \subseteq Groups
    BY <1>2, <1>3, <1>4, <1>5
  <2> QED
    BY <2>1, GroupsAssumption
<1>7. SumOver(Weight, T) = Weight[g] + SumOver(Weight, S)
  BY ONLY <1>6, SumAdd
<1>8. SumOver(Weight, S) \in Nat
  BY <1>2, <1>5, SumNat, GroupsAssumption
<1>9. total2 \in Nat /\ total2 >= SumOver(Weight, ToSet(list2))
  BY <1>1, <1>5, <1>7, <1>8, GroupsAssumption
<1> QED
  BY <1>1, <1>3, <1>4, <1>9, ReweighedFacts

(* next_group of the one unlinked is NULL already: the list ends before it. *)
LEMMA UnlinkedWeighed ==
  ASSUME NEW list, NEW total, NEW share, Weighed(list, total, share), NEW g \in ToSet(list),
         NEW list2, list2 = Unlinked(list, g), NEW total2, total2 = total - Weight[g]
  PROVE  Weighed(list2, total2, Reweighed(list2, total2, share)) /\ total2 <= total
<1>1. /\ list \in Seq(Groups) /\ IsInjective(list) /\ total \in Nat
      /\ total >= SumOver(Weight, ToSet(list)) /\ share \in [Groups -> 0 .. NumCores]
  BY DEF Weighed
<1>2. /\ DOMAIN list = 1 .. Len(list) /\ SetOf(list) = ToSet(list) /\ Distinct(list)
      /\ IsFiniteSet(ToSet(list)) /\ ToSet(list) \subseteq Groups /\ Contains(list, g)
  BY <1>1, ListSet, ToSetFront
<1>3. PICK i \in 1 .. Len(list) : list[i] = g
  BY <1>2 DEF SetOf
<1>4. SelectInSeq(list, LAMBDA h : h = g) = i
  <2>1. {j \in 1 .. Len(list) : list[j] = g} = {i}
    BY <1>2, <1>3 DEF Distinct
  <2>2. Min({i}) = i
    BY <1>3 DEF Min
  <2>3. SelectInSeq(list, LAMBDA h : h = g) =
          IF {j \in 1 .. Len(list) : list[j] = g} = {} THEN 0
          ELSE Min({j \in 1 .. Len(list) : list[j] = g})
    BY DEF SelectInSeq
  <2> QED
    BY <2>1, <2>2, <2>3
<1>5. PICK n : n = i - 1
  OBVIOUS
<1>6. n \in 0 .. Len(list) /\ n < i /\ Len(list) \in Nat
  BY <1>1, <1>3, <1>5, LenProperties
<1>7. list2 = SubSeq(list, 1, n)
  BY <1>2, <1>4, <1>5 DEF Unlinked
<1>8. list2 \in Seq(Groups) /\ Distinct(list2) /\ Len(list2) = n
  BY <1>1, <1>2, <1>6, <1>7, SplitList
<1>9. DOMAIN list2 = 1 .. n /\ \A j \in 1 .. n : list2[j] = list[j]
  <2>1. DOMAIN list2 = 1 .. n
    BY <1>8, LenProperties
  <2>2. 1 \in Int /\ n \in Int /\ \A j \in 1 .. n : j \in 1 .. Len(list) /\ list[j] \in Groups
    BY <1>1, <1>6, LenProperties
  <2>3. \A j \in 1 .. n - 1 + 1 : list2[j] = list[1 + j - 1]
    BY <1>7, <2>2, SubSeqProperties
  <2>4. ASSUME NEW j \in 1 .. n
        PROVE  list2[j] = list[j]
    <3>1. j \in 1 .. n - 1 + 1 /\ 1 + j - 1 = j
      BY <1>6
    <3> QED
      BY <2>3, <3>1
  <2> QED
    BY <2>1, <2>4
<1>10. IsInjective(list2) /\ ToSet(list2) = {list[j] : j \in 1 .. n}
  BY <1>8, <1>9 DEF Distinct, IsInjective, ToSet
<1>11. PICK S, T, R : S = ToSet(list) /\ T = ToSet(list2) /\ R = S \ {g}
  OBVIOUS
<1>12. T \subseteq R
  <2>1. \A j \in 1 .. n : j \in 1 .. Len(list) /\ j # i
    BY <1>6
  <2>2. \A j \in 1 .. n : list[j] \in S /\ list[j] # g
    BY <1>2, <1>3, <1>11, <2>1 DEF Distinct, SetOf
  <2> QED
    BY <1>10, <1>11, <2>2
<1>13. /\ IsFiniteSet(S) /\ IsFiniteSet(R) /\ g \in S /\ R = S \ {g}
       /\ \A h \in S : Weight[h] \in Nat /\ Weight[h] \in Int
  BY <1>2, <1>11, FS_RemoveElement, GroupsAssumption
<1>14. SumOver(Weight, S) = Weight[g] + SumOver(Weight, R)
  BY <1>13, SumRemove
<1>15. SumOver(Weight, T) <= SumOver(Weight, R)
  BY <1>12, <1>13, SumSubset
<1>16. SumOver(Weight, R) \in Nat /\ SumOver(Weight, T) \in Nat
  <2>1. IsFiniteSet(T) /\ \A h \in T : Weight[h] \in Nat
    BY <1>12, <1>13, FS_Subset
  <2>2. \A h \in R : Weight[h] \in Nat
    BY <1>13
  <2> QED
    BY <1>13, <2>1, <2>2, SumNat
<1>17. total2 \in Nat /\ total2 >= SumOver(Weight, ToSet(list2)) /\ total2 <= total
  BY <1>1, <1>11, <1>13, <1>14, <1>15, <1>16
<1> QED
  BY <1>1, <1>8, <1>10, <1>17, ReweighedFacts

-----------------------------------------------------------------------------
(* Each call, from a settled state to a settled state.                     *)
Settled ==
  /\ Weighed(groups, total_weight, cores_should_get) /\ total_weight <= MaxWeight
  /\ Scheduled(groups, cores_should_get, runqueue, current)
  /\ Noted(core_running_on, current)
InPlay(p) == Has(runqueue, current, p)

LEMMA SchedulingSettles ==
  ASSUME Noted(core_running_on, current), NEW queues, NEW cur, Neat(queues, cur),
         NEW list, NEW total, NEW share, Weighed(list, total, share), total <= MaxWeight,
         groups' = list, total_weight' = total, cores_should_get' = share,
         ScheduleFrom(queues, cur, list, share)
  PROVE  Settled' /\ \A p \in Procs : InPlay(p)' <=> Has(queues, cur, p)
<1>1. /\ Scheduled(list, share, runqueue', current') /\ Noted(core_running_on', current')
      /\ \A g \in Groups : ThreadsOf(runqueue', current', g) = ThreadsOf(queues, cur, g)
  BY Scheduling
<1>2. \A p \in Procs : Has(runqueue', current', p) <=> Has(queues, cur, p)
  <2> TAKE p \in Procs
  <2>1. PICK g \in Groups : g = GroupOf[p]
    BY GroupsAssumption
  <2>2. ThreadsOf(runqueue', current', g) = ThreadsOf(queues, cur, g)
    BY <1>1
  <2> QED
    BY <2>1, <2>2 DEF ThreadsOf
<1> QED
  BY <1>1, <1>2 DEF Settled, InPlay

LEMMA ScheduleKeeps ==
  ASSUME Settled, UNCHANGED weights, ScheduleFrom(runqueue, current, groups, cores_should_get)
  PROVE  Settled' /\ \A p \in Procs : InPlay(p)' => InPlay(p)
<1>1. PICK queues, cur, list, total, share :
        /\ queues = runqueue /\ cur = current /\ list = groups /\ total = total_weight
        /\ share = cores_should_get
  OBVIOUS
<1>2. /\ Noted(core_running_on, current) /\ Neat(queues, cur) /\ Weighed(list, total, share)
      /\ total <= MaxWeight
  BY <1>1 DEF Settled, Scheduled
<1>3. groups' = list /\ total_weight' = total /\ cores_should_get' = share
  BY <1>1 DEF weights
<1>4. ScheduleFrom(queues, cur, list, share)
  BY <1>1
<1>5. Settled' /\ \A p \in Procs : InPlay(p)' <=> Has(queues, cur, p)
  BY ONLY <1>2, <1>3, <1>4, SchedulingSettles
<1> QED
  BY <1>1, <1>5 DEF InPlay

LEMMA EnqueueKeeps ==
  ASSUME Settled, NEW p \in Procs, ~InPlay(p), EnqueueProc(p)
  PROVE  Settled' /\ \A q \in Procs : InPlay(q)' => InPlay(q) \/ q = p
<1>1. PICK g \in Groups : g = GroupOf[p]
  BY GroupsAssumption
<1>2. PICK cur, list, total, share :
        cur = current /\ list = groups' /\ total = total_weight' /\ share = cores_should_get'
  OBVIOUS
<1>3. PICK queue : queue = IF Contains(groups, g) THEN Append(runqueue[g], p) ELSE <<p>>
  OBVIOUS
<1>4. PICK queues : queues = [runqueue EXCEPT ![g] = queue]
  OBVIOUS
<1>5. /\ Neat(runqueue, cur) /\ Noted(core_running_on, current)
      /\ Weighed(groups, total_weight, cores_should_get) /\ total_weight <= MaxWeight
  BY <1>2 DEF Settled, Scheduled
<1>6. \A h \in Groups : queues[h] = IF h = g THEN queue ELSE runqueue[h]
  BY <1>4, <1>5 DEF Neat, Sorted
<1>7. p \notin SetOf(runqueue[g]) /\ \A c \in Cores : cur[c] # p
  BY <1>1, <1>2 DEF InPlay, Has
<1>8. /\ queue \in Seq(Procs) /\ Distinct(queue)
      /\ SetOf(queue) \subseteq SetOf(runqueue[g]) \cup {p}
  <2>1. CASE Contains(groups, g)
    <3>1. runqueue[g] \in Seq(Procs) /\ Distinct(runqueue[g])
      BY <1>5 DEF Neat, Sorted
    <3> QED
      BY <1>3, <1>7, <2>1, <3>1, AppendList
  <2>2. CASE ~Contains(groups, g)
    BY <1>3, <2>2 DEF Distinct, SetOf
  <2> QED
    BY <2>1, <2>2
<1>9. Sorted(queues)
  <2>1. queues \in [Groups -> Seq(Procs)]
    BY <1>4, <1>5, <1>8 DEF Neat, Sorted
  <2>2. ASSUME NEW h \in Groups
        PROVE  Distinct(queues[h]) /\ \A q \in SetOf(queues[h]) : GroupOf[q] = h
    BY <1>1, <1>5, <1>6, <1>8 DEF Neat, Sorted
  <2> QED
    BY <2>1, <2>2 DEF Sorted
<1>10. Neat(queues, cur)
  <2>1. ASSUME NEW c \in Cores, cur[c] # None
        PROVE  cur[c] \notin SetOf(queues[GroupOf[cur[c]]])
    <3>1. PICK h \in Groups : h = GroupOf[cur[c]]
      BY <1>5, <2>1, GroupsAssumption DEF Neat
    <3>2. cur[c] \notin SetOf(runqueue[h]) /\ cur[c] # p
      BY <1>5, <1>7, <2>1, <3>1 DEF Neat
    <3> QED
      BY <1>6, <1>8, <3>1, <3>2
  <2> QED
    BY <1>5, <1>9, <2>1 DEF Neat
<1>11. Weighed(list, total, share) /\ total <= MaxWeight
  <2>1. CASE Contains(groups, g)
    BY <1>1, <1>2, <1>5, <2>1 DEF EnqueueProc, weights
  <2>2. CASE ~Contains(groups, g)
    <3>1. PICK list0, total0, share0 :
            list0 = groups /\ total0 = total_weight /\ share0 = cores_should_get
      OBVIOUS
    <3>2. /\ total0 + Weight[g] <= MaxWeight /\ list = <<g>> \o list0
          /\ total = total0 + Weight[g] /\ share = Reweighed(list, total, share0)
      BY <1>1, <1>2, <2>2, <3>1 DEF EnqueueProc, Shares, Reweighed
    <3>3. Weighed(list0, total0, share0) /\ g \notin ToSet(list0)
      BY <1>5, <2>2, <3>1, ToSetFront DEF Weighed
    <3> QED
      BY <3>2, <3>3, LinkedWeighed
  <2> QED
    BY <2>1, <2>2
<1>12. ScheduleFrom(queues, cur, list, share)
  BY <1>1, <1>2, <1>3, <1>4 DEF EnqueueProc
<1>13. Settled' /\ \A q \in Procs : InPlay(q)' <=> Has(queues, cur, q)
  <2>1. groups' = list /\ total_weight' = total /\ cores_should_get' = share
    BY <1>2
  <2> QED
    BY ONLY <1>5, <1>10, <1>11, <1>12, <2>1, SchedulingSettles
<1>14. \A q \in Procs : Has(queues, cur, q) => Has(runqueue, cur, q) \/ q = p
  BY <1>6, <1>8, GroupsAssumption DEF Has
<1> QED
  BY <1>2, <1>13, <1>14 DEF InPlay

(* A group's threads are those that wait and those that run.               *)
LEMMA ThreadsCount ==
  ASSUME NEW queues, NEW cur, Neat(queues, cur), NEW g \in Groups
  PROVE  /\ Cardinality(CoresOn(cur, g)) \in Nat
         /\ Cardinality(ThreadsOf(queues, cur, g)) = Len(queues[g]) + Cardinality(CoresOn(cur, g))
<1>1. PICK R, Q, f, I : /\ R = CoresOn(cur, g) /\ Q = SetOf(queues[g]) /\ f = [c \in R |-> cur[c]]
                        /\ I = {cur[c] : c \in R}
  OBVIOUS
<1>2. IsFiniteSet(R) /\ \A c \in R : c \in Cores /\ cur[c] # None /\ GroupOf[cur[c]] = g
  BY <1>1, CoresFacts, FS_Subset DEF CoresOn
<1>3. f \in Bijection(R, I)
  <2>1. \A c \in R : f[c] = cur[c]
    BY <1>1
  <2>2. f \in [R -> I] /\ \A x \in I : \E c \in R : f[c] = x
    BY <1>1, <2>1
  <2>3. \A c, d \in R : f[c] = f[d] => c = d
    BY <1>2, <2>1 DEF Neat
  <2> QED
    BY <2>2, <2>3 DEF Bijection, Injection, Surjection, IsInjective
<1>4. IsFiniteSet(I) /\ Cardinality(I) = Cardinality(R)
  BY <1>2, <1>3, FS_Bijection DEF ExistsBijection
<1>5. IsFiniteSet(Q) /\ Cardinality(Q) = Len(queues[g]) /\ Len(queues[g]) \in Nat
  BY <1>1, CountList, LenProperties DEF Neat, Sorted
<1>6. Q \cap I = {}
  BY <1>1, <1>2 DEF Neat
<1>7. ThreadsOf(queues, cur, g) = Q \cup I
  <2>1. \A p \in Q : p \in Procs /\ GroupOf[p] = g
    BY <1>1 DEF Neat, Sorted, SetOf
  <2>2. \A p \in I : p \in Procs /\ GroupOf[p] = g /\ \E c \in Cores : cur[c] = p
    BY <1>1, <1>2 DEF Neat
  <2>3. \A p \in Procs : GroupOf[p] = g => \A c \in Cores : cur[c] = p => p \in I
    BY <1>1, NoneAssumption DEF CoresOn
  <2> QED
    BY <1>1, <2>1, <2>2, <2>3 DEF ThreadsOf, Has
<1>8. Cardinality(Q \cup I) = Cardinality(Q) + Cardinality(I)
  <2>1. Cardinality(Q \cap I) = 0 /\ Cardinality(Q) \in Nat /\ Cardinality(I) \in Nat
    BY <1>4, <1>5, <1>6, FS_EmptySet, FS_CardinalityType
  <2>2. Cardinality(Q \cup I) = Cardinality(Q) + Cardinality(I) - Cardinality(Q \cap I)
    BY <1>4, <1>5, FS_Union
  <2> QED
    BY <2>1, <2>2
<1> QED
  BY <1>1, <1>2, <1>4, <1>5, <1>7, <1>8, FS_CardinalityType

LEMMA ReplaceKeeps ==
  ASSUME Settled, NEW p \in Procs, NEW c \in Cores, current[c] = p,
         runqueue[GroupOf[p]] # <<>>, ReplaceBy(p, Head(runqueue[GroupOf[p]]), c)
  PROVE  Settled' /\ \A r \in Procs : InPlay(r)' => InPlay(r) /\ r # p
<1>1. PICK h \in Groups : h = GroupOf[p]
  BY GroupsAssumption
<1>2. PICK queues, cur, list, share :
        queues = runqueue /\ cur = current /\ list = groups /\ share = cores_should_get
  OBVIOUS
<1>3. PICK queue, n, rest : queue = queues[h] /\ n = Head(queue) /\ rest = Tail(queue)
  OBVIOUS
<1>4. PICK queues2, cur2, core2 : queues2 = runqueue' /\ cur2 = current' /\ core2 = core_running_on'
  OBVIOUS
<1>5. /\ Neat(queues, cur) /\ Scheduled(list, share, queues, cur) /\ Noted(core_running_on, cur)
      /\ Weighed(list, total_weight, share) /\ total_weight <= MaxWeight
      /\ cur[c] = p /\ p # None
  BY <1>2, NoneAssumption DEF Settled, Scheduled
<1>6. /\ queue \in Seq(Procs) /\ queue # <<>> /\ Distinct(queue)
      /\ \A r \in SetOf(queue) : GroupOf[r] = h
  BY <1>1, <1>2, <1>3, <1>5 DEF Neat, Sorted
<1>7. /\ n \in SetOf(queue) /\ n \in Procs /\ rest \in Seq(Procs) /\ Distinct(rest)
      /\ SetOf(rest) = SetOf(queue) \ {n} /\ GroupOf[n] = h /\ n # None
      /\ Len(queue) \in Nat /\ Len(rest) = Len(queue) - 1
  <2>1. /\ n \in SetOf(queue) /\ n \in Procs /\ rest \in Seq(Procs) /\ Distinct(rest)
        /\ SetOf(rest) = SetOf(queue) \ {n}
    BY <1>3, <1>6, UnconsList
  <2>2. Len(queue) \in Nat /\ Len(rest) = Len(queue) - 1
    BY <1>3, <1>6, LenProperties, HeadTailProperties
  <2> QED
    BY <1>6, <2>1, <2>2, NoneAssumption
<1>8. /\ queues2 = [queues EXCEPT ![h] = rest] /\ cur2 = [cur EXCEPT ![c] = n]
      /\ core2 = [core_running_on EXCEPT ![n] = c, ![p] = -1] /\ UNCHANGED weights
  BY <1>1, <1>2, <1>3, <1>4 DEF ReplaceBy
<1>9. /\ queues2 \in [Groups -> Seq(Procs)] /\ cur2 \in [Cores -> Procs \cup {None}]
      /\ \A g \in Groups : queues2[g] = IF g = h THEN rest ELSE queues[g]
      /\ \A d \in Cores : cur2[d] = IF d = c THEN n ELSE cur[d]
  BY <1>5, <1>7, <1>8 DEF Neat, Sorted
<1>10. \A d \in Cores : cur[d] # n /\ (cur[d] = p => d = c)
  BY <1>3, <1>5, <1>7 DEF Neat
<1>11. n # p /\ p \notin SetOf(queue)
  BY <1>1, <1>3, <1>5, <1>10 DEF Neat
<1>12. Neat(queues2, cur2)
  <2>1. Sorted(queues2)
    <3>1. \A g \in Groups : Distinct(queues2[g]) /\ \A r \in SetOf(queues2[g]) : GroupOf[r] = g
      BY <1>3, <1>5, <1>6, <1>7, <1>9 DEF Neat, Sorted
    <3> QED
      BY <1>9, <3>1 DEF Sorted
  <2>2. \A d, e \in Cores : cur2[d] # None /\ cur2[d] = cur2[e] => d = e
    BY <1>5, <1>9, <1>10 DEF Neat
  <2>3. ASSUME NEW d \in Cores, cur2[d] # None
        PROVE  cur2[d] \notin SetOf(queues2[GroupOf[cur2[d]]])
    <3>1. CASE d = c
      BY <1>7, <1>9, <3>1
    <3>2. CASE d # c
      <4>1. PICK r \in Procs, g \in Groups : r = cur[d] /\ g = GroupOf[r]
        BY <1>5, <1>9, <2>3, <3>2, GroupsAssumption DEF Neat
      <4>2. cur2[d] = r /\ r \notin SetOf(queues[g])
        BY <1>5, <1>9, <2>3, <3>2, <4>1 DEF Neat
      <4>3. SetOf(queues2[g]) \subseteq SetOf(queues[g])
        BY <1>3, <1>7, <1>9
      <4> QED
        BY <4>1, <4>2, <4>3
    <3> QED
      BY <3>1, <3>2
  <2> QED
    BY <1>9, <2>1, <2>2, <2>3 DEF Neat
<1>13. \A g \in Groups : CoresOn(cur2, g) = CoresOn(cur, g)
  <2>1. \A g \in Groups, d \in Cores :
          (cur2[d] # None /\ GroupOf[cur2[d]] = g) <=> (cur[d] # None /\ GroupOf[cur[d]] = g)
    BY <1>1, <1>5, <1>7, <1>9
  <2> QED
    BY <2>1 DEF CoresOn
<1>14. Scheduled(list, share, queues2, cur2)
  <2> SUFFICES ASSUME NEW g \in Groups
               PROVE  Cardinality(CoresOn(cur2, g)) =
                        IF g \in ToSet(list)
                        THEN Min({share[g], Cardinality(ThreadsOf(queues2, cur2, g))}) ELSE 0
    BY <1>12 DEF Scheduled
  <2>1. PICK k, t, t2 : /\ k = Cardinality(CoresOn(cur, g))
                        /\ t = Cardinality(ThreadsOf(queues, cur, g))
                        /\ t2 = Cardinality(ThreadsOf(queues2, cur2, g))
    OBVIOUS
  <2>2. k = IF g \in ToSet(list) THEN Min({share[g], t}) ELSE 0
    BY <1>5, <2>1 DEF Scheduled
  <2>3. k \in Nat /\ t = Len(queues[g]) + k
    BY <1>5, <2>1, ThreadsCount
  <2>4. t2 = Len(queues2[g]) + k
    BY <1>12, <1>13, <2>1, ThreadsCount
  <2>5. Len(queues[g]) \in Nat /\ share[g] \in Nat
    BY <1>5, LenProperties, SizesAssumption DEF Neat, Sorted, Weighed
  <2>6. PICK l, l2 : l = Len(queues[g]) /\ l2 = Len(queues2[g])
    OBVIOUS
  <2>7. l \in Nat /\ l2 \in Nat /\ (l2 = l \/ l2 = l - 1)
    <3>1. CASE g = h
      <4>1. queues2[g] = rest /\ queues[g] = queue
        BY <1>3, <1>9, <3>1
      <4>2. l = Len(queue) /\ l2 = Len(rest)
        BY <2>6, <4>1
      <4> QED
        BY <1>7, <4>2, LenProperties
    <3>2. CASE g # h
      BY <1>9, <2>5, <2>6, <3>2
    <3> QED
      BY <3>1, <3>2
  <2>8. CASE g \in ToSet(list)
    <3>1. PICK a : a = share[g]
      OBVIOUS
    <3>2. k = IF a <= l + k THEN a ELSE l + k
      <4>1. k = Min({a, t}) /\ a \in Nat /\ t \in Nat /\ t = l + k
        BY <2>2, <2>3, <2>5, <2>6, <2>7, <2>8, <3>1
      <4>2. Min({a, t}) = IF a <= t THEN a ELSE t
        BY <4>1, MinOfTwo
      <4> QED
        BY <4>1, <4>2
    <3>3. k = Min({a, t2})
      BY <2>3, <2>4, <2>5, <2>6, <2>7, <3>1, <3>2, MinOfTwo
    <3> QED
      BY <1>13, <2>1, <2>8, <3>1, <3>3
  <2> QED
    BY <1>13, <2>1, <2>2, <2>8
<1>15. Noted(core2, cur2)
  <2>1. core2 \in [Procs -> Cores \cup {-1}]
    BY <1>5, <1>7, <1>8 DEF Noted
  <2>2. \A r \in Procs : core2[r] = IF r = p THEN -1 ELSE IF r = n THEN c ELSE core_running_on[r]
    BY <1>5, <1>7, <1>8 DEF Noted
  <2>3. \A d \in Cores : d # -1
    BY CoresFacts
  <2>4. \A r \in Procs, d \in Cores : core2[r] = d <=> cur2[d] = r
    BY <1>5, <1>9, <1>10, <1>11, <2>2, <2>3 DEF Noted
  <2> QED
    BY <2>1, <2>4 DEF Noted
<1>16. \A r \in Procs : Has(queues2, cur2, r) => Has(queues, cur, r) /\ r # p
  <2> SUFFICES ASSUME NEW r \in Procs, Has(queues2, cur2, r)
               PROVE  Has(queues, cur, r) /\ r # p
    OBVIOUS
  <2>1. PICK g \in Groups : g = GroupOf[r]
    BY GroupsAssumption
  <2>2. CASE r \in SetOf(queues2[g])
    BY <1>1, <1>3, <1>7, <1>9, <1>11, <2>1, <2>2 DEF Has
  <2>3. CASE \E d \in Cores : cur2[d] = r
    BY <1>3, <1>7, <1>9, <1>10, <1>11, <2>3 DEF Has
  <2> QED
    BY <2>1, <2>2, <2>3 DEF Has
<1> QED
  <2>1. groups' = list /\ cores_should_get' = share /\ total_weight' = total_weight
    BY <1>2, <1>8 DEF weights
  <2> QED
    BY <1>2, <1>4, <1>5, <1>14, <1>15, <1>16, <2>1 DEF Settled, InPlay

LEMMA LastKeeps ==
  ASSUME Settled, NEW p \in Procs, NEW c \in Cores, current[c] = p, LastThread(p, c)
  PROVE  Settled' /\ \A r \in Procs : InPlay(r)' => InPlay(r) /\ r # p
<1>1. PICK g \in Groups : g = GroupOf[p]
  BY GroupsAssumption
<1>2. PICK queues, cur, list, total, share :
        /\ queues = runqueue /\ cur = [current EXCEPT ![c] = None] /\ list = groups'
        /\ total = total_weight' /\ share = cores_should_get'
  OBVIOUS
<1>3. PICK list0, total0, share0 :
        list0 = groups /\ total0 = total_weight /\ share0 = cores_should_get
  OBVIOUS
<1>4. /\ Neat(queues, current) /\ Scheduled(list0, share0, queues, current)
      /\ Noted(core_running_on, current) /\ Weighed(list0, total0, share0) /\ total0 <= MaxWeight
      /\ p # None
  BY <1>2, <1>3, NoneAssumption DEF Settled, Scheduled
<1>5. cur \in [Cores -> Procs \cup {None}] /\ \A d \in Cores : cur[d] = IF d = c THEN None ELSE current[d]
  BY <1>2, <1>4 DEF Neat
<1>6. Neat(queues, cur)
  BY <1>4, <1>5 DEF Neat
<1>7. g \in ToSet(list0)
  <2>1. c \in CoresOn(current, g) /\ IsFiniteSet(CoresOn(current, g))
    BY <1>1, <1>4, CoresFacts, FS_Subset DEF CoresOn
  <2>2. Cardinality(CoresOn(current, g)) # 0
    BY <2>1, FS_EmptySet
  <2> QED
    BY <1>4, <2>2 DEF Scheduled
<1>8. list = Unlinked(list0, g) /\ total = total0 - Weight[g] /\ share = Reweighed(list, total, share0)
  BY <1>1, <1>2, <1>3 DEF LastThread, Shares, Reweighed
<1>9. Weighed(list, total, share) /\ total <= total0
  BY <1>4, <1>7, <1>8, UnlinkedWeighed
<1>10. total <= MaxWeight
  BY <1>4, <1>9, SizesAssumption DEF Weighed
<1>11. ScheduleFrom(queues, cur, list, share)
  <2>1. list = Unlinked(groups, GroupOf[p])
    BY <1>1, <1>3, <1>8
  <2> QED
    BY <1>2, <2>1 DEF LastThread
<1>12. Settled' /\ \A r \in Procs : InPlay(r)' <=> Has(queues, cur, r)
  <2>1. groups' = list /\ total_weight' = total /\ cores_should_get' = share
    BY <1>2
  <2> QED
    BY ONLY <1>4, <1>6, <1>9, <1>10, <1>11, <2>1, SchedulingSettles
<1>13. \A r \in Procs : Has(queues, cur, r) => Has(queues, current, r) /\ r # p
  <2>1. p \notin SetOf(queues[GroupOf[p]])
    BY <1>4 DEF Neat
  <2>2. \A d \in Cores : cur[d] # p /\ \A r \in Procs : cur[d] = r => current[d] = r
    BY <1>4, <1>5, NoneAssumption DEF Neat
  <2> QED
    BY <2>1, <2>2 DEF Has
<1> QED
  BY <1>2, <1>12, <1>13 DEF InPlay

-----------------------------------------------------------------------------
(* The processes that wait to be enqueued are apart: in no queue and on no *)
(* core, each once.                                                        *)
Apart(pools, rest, busy) ==
  /\ pools \in [Cores -> Seq(Procs)] /\ \A c \in Cores : Distinct(pools[c])
  /\ rest \in Seq(Procs) /\ Distinct(rest)
  /\ \A c, d \in Cores : c # d => SetOf(pools[c]) \cap SetOf(pools[d]) = {}
  /\ \A c \in Cores : SetOf(pools[c]) \cap SetOf(rest) = {} /\ SetOf(pools[c]) \cap busy = {}
  /\ SetOf(rest) \cap busy = {}

LEMMA FewerBusy ==
  ASSUME NEW pools, NEW rest, NEW busy, Apart(pools, rest, busy), NEW less \in SUBSET busy
  PROVE  Apart(pools, rest, less)
BY DEF Apart

LEMMA TakeCreated ==
  ASSUME NEW pools, NEW rest, NEW busy, Apart(pools, rest, busy), rest # <<>>
  PROVE  /\ Head(rest) \in Procs \ busy
         /\ Apart(pools, Tail(rest), busy \cup {Head(rest)})
<1>1. PICK p, t : p = Head(rest) /\ t = Tail(rest)
  OBVIOUS
<1>2. p \in SetOf(rest) /\ p \in Procs /\ t \in Seq(Procs) /\ SetOf(t) = SetOf(rest) \ {p} /\ Distinct(t)
  BY <1>1, UnconsList DEF Apart
<1>3. p \notin busy /\ \A c \in Cores : p \notin SetOf(pools[c])
  BY <1>2 DEF Apart
<1>4. Apart(pools, t, busy \cup {p})
  BY <1>2, <1>3 DEF Apart
<1> QED
  BY <1>1, <1>2, <1>3, <1>4

LEMMA TakePooled ==
  ASSUME NEW pools, NEW rest, NEW busy, Apart(pools, rest, busy), NEW c \in Cores, pools[c] # <<>>
  PROVE  /\ Head(pools[c]) \in Procs \ busy
         /\ Apart([pools EXCEPT ![c] = Tail(@)], rest, busy \cup {Head(pools[c])})
<1>1. PICK s, p, t : s = pools[c] /\ p = Head(s) /\ t = Tail(s)
  OBVIOUS
<1>2. s \in Seq(Procs) /\ s # <<>> /\ Distinct(s)
  BY <1>1 DEF Apart
<1>3. p \in SetOf(s) /\ p \in Procs /\ t \in Seq(Procs) /\ SetOf(t) = SetOf(s) \ {p} /\ Distinct(t)
  BY <1>1, <1>2, UnconsList
<1>4. PICK pools2 : pools2 = [pools EXCEPT ![c] = t]
  OBVIOUS
<1>5. /\ pools2 \in [Cores -> Seq(Procs)]
      /\ \A d \in Cores : pools2[d] = IF d = c THEN t ELSE pools[d]
  BY <1>3, <1>4 DEF Apart
<1>6. p \notin busy /\ p \notin SetOf(rest) /\ \A d \in Cores : d # c => p \notin SetOf(pools[d])
  BY <1>1, <1>3 DEF Apart
<1>7. Apart(pools2, rest, busy \cup {p})
  <2>1. \A d \in Cores : SetOf(pools2[d]) \subseteq SetOf(pools[d]) /\ p \notin SetOf(pools2[d])
    BY <1>1, <1>3, <1>5, <1>6
  <2>2. \A d \in Cores : Distinct(pools2[d])
    BY <1>3, <1>5 DEF Apart
  <2> QED
    BY <1>5, <1>6, <2>1, <2>2 DEF Apart
<1> QED
  BY <1>1, <1>3, <1>4, <1>6, <1>7

LEMMA GivePooled ==
  ASSUME NEW pools, NEW rest, NEW busy, Apart(pools, rest, busy), NEW c \in Cores,
         NEW p \in Procs, p \in busy
  PROVE  Apart([pools EXCEPT ![c] = <<p>> \o @], rest, busy \ {p})
<1>1. PICK s, t : s = pools[c] /\ t = <<p>> \o s
  OBVIOUS
<1>2. s \in Seq(Procs) /\ Distinct(s) /\ p \notin SetOf(s)
  BY <1>1 DEF Apart
<1>3. t \in Seq(Procs) /\ SetOf(t) = SetOf(s) \cup {p} /\ Distinct(t)
  BY <1>1, <1>2, ConsList
<1>4. PICK pools2 : pools2 = [pools EXCEPT ![c] = t]
  OBVIOUS
<1>5. /\ pools2 \in [Cores -> Seq(Procs)]
      /\ \A d \in Cores : pools2[d] = IF d = c THEN t ELSE pools[d]
  BY <1>3, <1>4 DEF Apart
<1>6. p \notin SetOf(rest) /\ \A d \in Cores : p \notin SetOf(pools[d])
  BY DEF Apart
<1>7. \A d \in Cores : /\ SetOf(pools2[d]) \subseteq SetOf(pools[d]) \cup {p}
                       /\ d # c => pools2[d] = pools[d]
                       /\ Distinct(pools2[d])
  BY <1>1, <1>3, <1>5 DEF Apart
<1>8. Apart(pools2, rest, busy \ {p})
  <2>1. \A d \in Cores : SetOf(pools2[d]) \cap SetOf(rest) = {}
    BY <1>6, <1>7 DEF Apart
  <2>2. \A d \in Cores : SetOf(pools2[d]) \cap (busy \ {p}) = {}
    BY <1>7 DEF Apart
  <2>3. ASSUME NEW d \in Cores, NEW e \in Cores, d # e
        PROVE  SetOf(pools2[d]) \cap SetOf(pools2[e]) = {}
    <3>1. SetOf(pools[d]) \cap SetOf(pools[e]) = {} /\ p \notin SetOf(pools[d]) /\ p \notin SetOf(pools[e])
      BY <1>6, <2>3 DEF Apart
    <3>2. pools2[d] = pools[d] \/ pools2[e] = pools[e]
      BY <1>7, <2>3
    <3> QED
      BY <1>7, <3>1, <3>2
  <2>4. rest \in Seq(Procs) /\ Distinct(rest) /\ SetOf(rest) \cap (busy \ {p}) = {}
    BY DEF Apart
  <2> QED
    BY <1>5, <1>7, <2>1, <2>2, <2>3, <2>4 DEF Apart
<1> QED
  BY <1>1, <1>4, <1>8

-----------------------------------------------------------------------------
Playing == {p \in Procs : InPlay(p)}

(* The inductive invariant.                                                *)
IInv ==
  /\ Settled
  /\ Apart(pool, todo, Playing)
  /\ pc \in [Cores -> {"schedule", "choose"}]

LEMMA InitInv == Init => IInv
<1> SUFFICES ASSUME Init PROVE IInv
  OBVIOUS
<1>1. /\ groups = <<>> /\ total_weight = 0 /\ cores_should_get = [g \in Groups |-> 0]
      /\ runqueue = [g \in Groups |-> <<>>] /\ current = [c \in Cores |-> None]
      /\ core_running_on = [p \in Procs |-> -1] /\ pool = [c \in Cores |-> <<>>]
      /\ todo = Creation /\ pc = [c \in Cores |-> "schedule"]
  BY DEF Init
<1>2. /\ <<>> \in Seq(Procs) /\ <<>> \in Seq(Groups) /\ SetOf(<<>>) = {} /\ Distinct(<<>>)
      /\ ToSet(<<>>) = {} /\ IsInjective(<<>>)
  BY DEF SetOf, Distinct, ToSet, IsInjective
<1>3. Weighed(groups, total_weight, cores_should_get) /\ total_weight <= MaxWeight
  <2>1. SumOver(Weight, {}) = 0
    BY SumEmpty
  <2>2. cores_should_get \in [Groups -> 0 .. NumCores]
    BY <1>1, SizesAssumption
  <2>3. PICK list, total, share :
          list = groups /\ total = total_weight /\ share = cores_should_get
    OBVIOUS
  <2>4. /\ list \in Seq(Groups) /\ IsInjective(list) /\ total = 0 /\ SumOver(Weight, ToSet(list)) = 0
        /\ share \in [Groups -> 0 .. NumCores] /\ ToSet(list) = {}
    BY <1>1, <1>2, <2>1, <2>2, <2>3
  <2>5. Weighed(list, total, share)
    BY <2>4 DEF Weighed
  <2> QED
    BY <2>3, <2>4, <2>5, SizesAssumption
<1>4. Neat(runqueue, current)
  BY <1>1, <1>2, CoresFacts DEF Neat, Sorted
<1>5. Scheduled(groups, cores_should_get, runqueue, current)
  <2>1. \A g \in Groups : CoresOn(current, g) = {}
    BY <1>1 DEF CoresOn
  <2>2. ToSet(groups) = {}
    BY <1>1, <1>2
  <2> QED
    BY <1>4, <2>1, <2>2, FS_EmptySet DEF Scheduled
<1>6. Noted(core_running_on, current)
  BY <1>1, CoresFacts, NoneAssumption DEF Noted
<1>7. Playing = {}
  BY <1>1, <1>2, GroupsAssumption, NoneAssumption DEF Playing, InPlay, Has
<1>8. Creation \in Seq(Procs) /\ Distinct(Creation)
  <2>1. DOMAIN Creation = 1 .. Len(Creation)
    BY CreationAssumption, LenProperties
  <2> QED
    BY <2>1, CreationAssumption DEF IsInjective, Distinct
<1>9. Apart(pool, todo, Playing)
  BY <1>1, <1>2, <1>7, <1>8 DEF Apart
<1> QED
  BY <1>1, <1>3, <1>5, <1>6, <1>9 DEF IInv, Settled

LEMMA StepInv == IInv /\ [Next]_vars => IInv'
<1> SUFFICES ASSUME IInv, [Next]_vars PROVE IInv'
  OBVIOUS
<1>1. /\ Settled /\ Apart(pool, todo, Playing) /\ pc \in [Cores -> {"schedule", "choose"}]
      /\ current \in [Cores -> Procs \cup {None}]
      /\ \A p \in Procs : p \in Playing <=> InPlay(p)
  BY DEF IInv, Settled, Scheduled, Neat, Playing
<1>2. CASE Create
  <2>1. PICK p : p = Head(todo)
    OBVIOUS
  <2>2. /\ todo # <<>> /\ todo' = Tail(todo) /\ EnqueueProc(p) /\ pool' = pool /\ pc' = pc
    BY <1>2, <2>1 DEF Create
  <2>3. p \in Procs \ Playing /\ Apart(pool, Tail(todo), Playing \cup {p})
    BY <1>1, <2>1, <2>2, TakeCreated
  <2>4. Settled' /\ \A q \in Procs : InPlay(q)' => InPlay(q) \/ q = p
    BY <1>1, <2>2, <2>3, EnqueueKeeps
  <2>5. Playing' \subseteq Playing \cup {p}
    BY <2>4 DEF Playing
  <2>6. Apart(pool, Tail(todo), Playing')
    BY <2>3, <2>5, FewerBusy
  <2> QED
    BY <1>1, <2>2, <2>4, <2>6 DEF IInv
<1>3. ASSUME NEW c \in Cores, Schedule(c)
      PROVE  IInv'
  <2>1. Settled' /\ \A q \in Procs : InPlay(q)' => InPlay(q)
    BY <1>1, <1>3, ScheduleKeeps DEF Schedule
  <2>2. Playing' \subseteq Playing
    BY <2>1 DEF Playing
  <2>3. Apart(pool, todo, Playing')
    BY <1>1, <2>2, FewerBusy
  <2>4. pool' = pool /\ todo' = todo /\ pc' \in [Cores -> {"schedule", "choose"}]
    BY <1>1, <1>3 DEF Schedule
  <2> QED
    BY <2>1, <2>3, <2>4 DEF IInv
<1>4. ASSUME NEW c \in Cores, Enqueue(c)
      PROVE  IInv'
  <2>1. PICK p : p = Head(pool[c])
    OBVIOUS
  <2>2. /\ pool[c] # <<>> /\ pool' = [pool EXCEPT ![c] = Tail(@)] /\ EnqueueProc(p)
        /\ todo' = todo /\ pc' \in [Cores -> {"schedule", "choose"}]
    BY <1>1, <1>4, <2>1 DEF Enqueue, Choose
  <2>3. p \in Procs \ Playing /\ Apart(pool', todo, Playing \cup {p})
    BY <1>1, <2>1, <2>2, TakePooled
  <2>4. Settled' /\ \A q \in Procs : InPlay(q)' => InPlay(q) \/ q = p
    BY <1>1, <2>2, <2>3, EnqueueKeeps
  <2>5. Playing' \subseteq Playing \cup {p}
    BY <2>4 DEF Playing
  <2>6. Apart(pool', todo, Playing')
    BY <2>3, <2>5, FewerBusy
  <2> QED
    BY <2>2, <2>4, <2>6 DEF IInv
<1>5. ASSUME NEW c \in Cores, Dequeue(c)
      PROVE  IInv'
  <2>1. PICK p : p = current[c]
    OBVIOUS
  <2>2. /\ p # None /\ DequeueProc(p) /\ pool' = [pool EXCEPT ![c] = <<p>> \o @]
        /\ todo' = todo /\ pc' \in [Cores -> {"schedule", "choose"}]
    BY <1>1, <1>5, <2>1 DEF Dequeue, Choose
  <2>3. p \in Procs /\ InPlay(p) /\ p \in Playing
    BY <1>1, <2>1, <2>2 DEF InPlay, Has
  <2>4. core_running_on[p] = c
    BY <1>1, <2>1, <2>3 DEF Settled, Noted
  <2>5. Settled' /\ \A q \in Procs : InPlay(q)' => InPlay(q) /\ q # p
    <3>1. CASE runqueue[GroupOf[p]] # <<>> /\ ReplaceBy(p, Head(runqueue[GroupOf[p]]), c)
      BY <1>1, <2>1, <2>3, <3>1, ReplaceKeeps
    <3>2. CASE LastThread(p, c)
      BY <1>1, <2>1, <2>3, <3>2, LastKeeps
    <3> QED
      BY <2>2, <2>4, <3>1, <3>2 DEF DequeueProc
  <2>6. Playing' \subseteq Playing \ {p}
    BY <2>5 DEF Playing
  <2>7. Apart(pool', todo, Playing \ {p})
    BY <1>1, <2>2, <2>3, GivePooled
  <2>8. Apart(pool', todo, Playing')
    BY <2>6, <2>7, FewerBusy
  <2> QED
    BY <2>2, <2>5, <2>8 DEF IInv
<1>6. ASSUME NEW c \in Cores, Run(c)
      PROVE  IInv'
  <2>1. /\ UNCHANGED <<weights, places, pool, todo>>
        /\ pc' \in [Cores -> {"schedule", "choose"}]
    BY <1>1, <1>6 DEF Run, Choose
  <2>2. Settled' /\ Playing' = Playing
    BY <1>1, <2>1 DEF weights, places, Settled, Playing, InPlay
  <2> QED
    BY <1>1, <2>1, <2>2 DEF IInv
<1>7. CASE UNCHANGED vars
  <2>1. UNCHANGED <<weights, places, pool, todo, pc>>
    BY <1>7 DEF vars
  <2>2. Settled' /\ Playing' = Playing
    BY <1>1, <2>1 DEF weights, places, Settled, Playing, InPlay
  <2> QED
    BY <1>1, <2>1, <2>2 DEF IInv
<1> QED
  BY <1>2, <1>3, <1>4, <1>5, <1>6, <1>7 DEF Next

LEMMA InvHolds == Spec => []IInv
BY InitInv, StepInv, PTL DEF Spec

-----------------------------------------------------------------------------
(* Every variable has its type; the total weight stays within the bound,   *)
(* and the share of a group within the number of cores.                    *)
THEOREM TypeCorrect == Spec => []TypeOK
<1>1. IInv => TypeOK
  <2> SUFFICES ASSUME IInv PROVE TypeOK
    OBVIOUS
  <2>1. total_weight \in 0 .. MaxWeight
    BY SizesAssumption DEF IInv, Settled, Weighed
  <2>2. runqueue \in [Groups -> Seq(Procs)] /\ current \in [Cores -> Procs \cup {None}]
    BY DEF IInv, Settled, Scheduled, Neat, Sorted
  <2>3. core_running_on \in [Procs -> Cores \cup {-1}] /\ groups \in Seq(Groups)
          /\ cores_should_get \in [Groups -> 0 .. NumCores]
    BY DEF IInv, Settled, Weighed, Noted
  <2>4. pool \in [Cores -> Seq(Procs)] /\ todo \in Seq(Procs)
    BY DEF IInv, Apart
  <2> QED
    BY <2>1, <2>2, <2>3, <2>4 DEF TypeOK, IInv
<1> QED
  BY <1>1, InvHolds, PTL

(* dequeue finds the core that it empties in core_running_on: it is the    *)
(* core that runs the process, after any sequence of calls.                *)
THEOREM KnowsItsCore == Spec => []RunningOn
<1>1. IInv => RunningOn
  BY DEF IInv, Settled, Noted, RunningOn
<1> QED
  BY <1>1, InvHolds, PTL

(* n_cores_assigned never passes NUM_CORES in schedule, which does not     *)
(* look: the shares of the listed groups add up to no more.                *)
THEOREM SharesWithinCores == Spec => []SharesFit
<1>1. IInv => SharesFit
  <2> SUFFICES ASSUME IInv PROVE SharesFit
    OBVIOUS
  <2>1. SumOver(cores_should_get, Listed) <= NumCores
    <3>1. PICK list, total, share :
            list = groups /\ total = total_weight /\ share = cores_should_get
      OBVIOUS
    <3>2. Weighed(list, total, share)
      BY <3>1 DEF IInv, Settled
    <3>3. SumOver(share, ToSet(list)) <= NumCores
      BY <3>2, SharesFitIn
    <3> QED
      BY <3>1, <3>3 DEF Listed
  <2> QED
    BY <2>1 DEF SharesFit, SumOver, MapThenSumSet, MapThenFoldSet
<1> QED
  BY <1>1, InvHolds, PTL

(* total_weight never falls below the weights of the groups on the list,   *)
(* though unlinking one group cuts others off with it.                     *)
THEOREM WeightStaysCounted == Spec => []WeightCounted
<1>1. IInv => WeightCounted
  <2> SUFFICES ASSUME IInv PROVE WeightCounted
    OBVIOUS
  <2>1. total_weight >= SumOver(Weight, Listed)
    BY DEF IInv, Settled, Weighed, Listed
  <2> QED
    BY <2>1 DEF WeightCounted, SumOver, MapThenSumSet, MapThenFoldSet
<1> QED
  BY <1>1, InvHolds, PTL

(* After every call each listed group runs on at least the cores it should *)
(* get, or all its threads run, and no group runs that is off the list.    *)
THEOREM SharesAlwaysTaken == Spec => []SharesTaken
<1>1. IInv => SharesTaken
  <2> SUFFICES ASSUME IInv, NEW g \in Groups
               PROVE  IF g \in Listed
                      THEN Cardinality(CoresOf(g)) >= Min({cores_should_get[g], Cardinality(Threads(g))})
                      ELSE CoresOf(g) = {}
    BY DEF SharesTaken
  <2>1. CoresOf(g) = CoresOn(current, g)
    BY DEF CoresOf, CoresOn
  <2>2. Threads(g) = ThreadsOf(runqueue, current, g)
    BY DEF Threads, ThreadsOf, Has, Contains, SetOf
  <2>3. Cardinality(CoresOn(current, g)) =
          IF g \in ToSet(groups)
          THEN Min({cores_should_get[g], Cardinality(ThreadsOf(runqueue, current, g))}) ELSE 0
    BY DEF IInv, Settled, Scheduled
  <2>4. IsFiniteSet(CoresOf(g)) /\ Cardinality(CoresOf(g)) \in Nat
    <3>1. IsFiniteSet(Cores) /\ CoresOf(g) \subseteq Cores
      BY SizesAssumption, FS_Interval DEF Cores, CoresOf
    <3> QED
      BY <3>1, FS_Subset, FS_CardinalityType
  <2>5. CASE g \in Listed
    BY <2>1, <2>2, <2>3, <2>4, <2>5 DEF Listed
  <2>6. CASE g \notin Listed
    <3>1. Cardinality(CoresOf(g)) = 0
      BY <2>1, <2>3, <2>6 DEF Listed
    <3> QED
      BY <2>4, <2>6, <3>1, FS_EmptySet
  <2> QED
    BY <2>5, <2>6
<1> QED
  BY <1>1, InvHolds, PTL

LEMMA ApartOnce == IInv => OnePlace
<1> SUFFICES ASSUME IInv, NEW p \in Procs
             PROVE  LET copies(s) == UNION {{k} \X {i \in DOMAIN s[k] : s[k][i] = p} : k \in DOMAIN s}
                    IN  Cardinality(copies(runqueue)) + Cardinality(copies(pool))
                          + Cardinality({c \in Cores : current[c] = p}) + Times(p, todo) <= 1
  BY DEF OnePlace
<1> DEFINE Q == Copies(runqueue, p)
           P == Copies(pool, p)
           H == {c \in Cores : current[c] = p}
           U == {i \in DOMAIN todo : todo[i] = p}
           inQ == {g \in Groups : p \in SetOf(runqueue[g])}
           inP == {c \in Cores : p \in SetOf(pool[c])}
<1>1. Neat(runqueue, current) /\ Sorted(runqueue) /\ Apart(pool, todo, Playing)
  BY DEF IInv, Settled, Scheduled, Neat
<1>2. (inQ = {} \/ Single(inQ)) /\ (inQ # {} => InPlay(p) /\ H = {})
  <2>1. PICK g \in Groups : g = GroupOf[p]
    BY GroupsAssumption
  <2>2. \A h \in inQ : h = g /\ p \in SetOf(runqueue[g])
    BY <1>1, <2>1 DEF Sorted
  <2>3. inQ # {} => InPlay(p) /\ H = {}
    BY <1>1, <2>1, <2>2, NoneAssumption DEF InPlay, Has, Neat
  <2> QED
    BY <2>2, <2>3 DEF Single
<1>3. (H = {} \/ \E x : H = {x}) /\ (H # {} => InPlay(p))
  BY <1>1, NoneAssumption DEF Neat, InPlay, Has
<1>4. /\ inP = {} \/ Single(inP)
      /\ inP # {} => ~InPlay(p) /\ p \notin SetOf(todo)
      /\ p \in SetOf(todo) => ~InPlay(p)
  BY <1>1 DEF Apart, Single, Playing
<1>5. /\ inQ = {} => Q = {}
      /\ Single(inQ) => \E x : Q = {x}
  <2>1. runqueue \in [Groups -> Seq(Procs)] /\ \A g \in Groups : Distinct(runqueue[g])
    BY <1>1 DEF Sorted
  <2> QED
    BY <2>1, OnceInLists
<1>6. /\ inP = {} => P = {}
      /\ Single(inP) => \E x : P = {x}
  <2>1. pool \in [Cores -> Seq(Procs)] /\ \A c \in Cores : Distinct(pool[c])
    BY <1>1 DEF Apart
  <2> QED
    BY <2>1, OnceInLists
<1>7. IF p \in SetOf(todo) THEN \E x : U = {x} ELSE U = {}
  BY <1>1, OnceInList DEF Apart
<1>8. Times(p, todo) = Cardinality(U)
  BY DEF Times
<1> HIDE DEF Q, P, H, U, inQ, inP
<1>9. /\ Cardinality({}) = 0
      /\ \A S : (\E x : S = {x}) => Cardinality(S) = 1
  BY FS_EmptySet, FS_Singleton
<1>10. Cardinality(Q) + Cardinality(P) + Cardinality(H) + Cardinality(U) <= 1
  <2>1. CASE p \in SetOf(todo)
    <3>1. Q = {} /\ P = {} /\ H = {} /\ \E x : U = {x}
      BY <1>2, <1>3, <1>4, <1>5, <1>6, <1>7, <2>1
    <3>2. Cardinality(Q) = 0 /\ Cardinality(P) = 0 /\ Cardinality(H) = 0 /\ Cardinality(U) = 1
      BY <1>9, <3>1
    <3> QED
      BY <3>2
  <2>2. CASE inP # {}
    <3>1. Q = {} /\ H = {} /\ U = {} /\ \E x : P = {x}
      BY <1>2, <1>3, <1>4, <1>5, <1>6, <1>7, <2>2
    <3>2. Cardinality(Q) = 0 /\ Cardinality(P) = 1 /\ Cardinality(H) = 0 /\ Cardinality(U) = 0
      BY <1>9, <3>1
    <3> QED
      BY <3>2
  <2>3. CASE inQ # {}
    <3>1. H = {} /\ P = {} /\ U = {} /\ \E x : Q = {x}
      BY <1>2, <1>4, <1>5, <1>6, <1>7, <2>3
    <3>2. Cardinality(Q) = 1 /\ Cardinality(P) = 0 /\ Cardinality(H) = 0 /\ Cardinality(U) = 0
      BY <1>9, <3>1
    <3> QED
      BY <3>2
  <2>4. CASE p \notin SetOf(todo) /\ inP = {} /\ inQ = {}
    <3>1. Q = {} /\ P = {} /\ U = {} /\ (H = {} \/ \E x : H = {x})
      BY <1>3, <1>5, <1>6, <1>7, <2>4
    <3>2. /\ Cardinality(Q) = 0 /\ Cardinality(P) = 0 /\ Cardinality(U) = 0
          /\ Cardinality(H) = 0 \/ Cardinality(H) = 1
      BY <1>9, <3>1
    <3> QED
      BY <3>2
  <2> QED
    BY <2>1, <2>2, <2>3, <2>4
<1> QED
  BY <1>8, <1>10 DEF Q, P, H, U, Copies

(* A process is never in two lists or twice in one: it has one next field, *)
(* which the queue of its group, the pool and main's list would share.     *)
THEOREM NeverInTwoPlaces == Spec => []OnePlace
BY ApartOnce, InvHolds, PTL
=============================================================================
