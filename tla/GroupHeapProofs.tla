--------------------------- MODULE GroupHeapProofs ---------------------------
(***************************************************************************)
(* What holds of GroupHeap for any number of groups, any capacity of the   *)
(* first allocation and any keys: the sifts of gl_heap_fix_index restore   *)
(* the order, so a peek returns the least group.                           *)
(***************************************************************************)
EXTENDS GroupHeap, DataFacts

KeyRange == [Groups -> Nat]

LEMMA SizeFacts ==
  NumGroups \in Nat /\ NumGroups > 0 /\ FirstCapacity \in Nat /\ FirstCapacity > 0
BY GroupHeapAssumption

(* Not to come before another is a total preorder.                         *)
LEMMA BeforeOrders ==
  ASSUME NEW q \in KeyRange, NEW v \in KeyRange, NEW a \in Groups, NEW b \in Groups
  PROVE  /\ ~Before(q, v, a, a)
         /\ Before(q, v, a, b) => ~Before(q, v, b, a)
         /\ \A c \in Groups : ~Before(q, v, a, b) /\ ~Before(q, v, b, c) => ~Before(q, v, a, c)
<1>1. PICK Q, V : Q = q /\ V = v
  OBVIOUS
<1>2. \A g \in Groups : Q[g] \in Nat /\ V[g] \in Nat /\ g \in Int
  BY <1>1, SizeFacts DEF KeyRange, Groups
<1>3. /\ ~Before(Q, V, a, a)
      /\ Before(Q, V, a, b) => ~Before(Q, V, b, a)
      /\ \A c \in Groups : ~Before(Q, V, a, b) /\ ~Before(Q, V, b, c) => ~Before(Q, V, a, c)
  BY <1>2 DEF Before
<1> QED
  BY <1>1, <1>3

(* The tree: an index and its children.                                    *)
LEMMA ChildFacts ==
  ASSUME NEW i \in Nat
  PROVE  /\ Left(i) \in Nat /\ Right(i) \in Nat /\ Left(i) > i /\ Right(i) > Left(i)
         /\ Parent(Left(i)) = i /\ Parent(Right(i)) = i
         /\ Left(i) = 2 * i + 1 /\ Right(i) = 2 * i + 2
BY DEF Left, Right, Parent

LEMMA ParentFacts ==
  ASSUME NEW j \in Nat, j > 0
  PROVE  /\ Parent(j) \in Nat /\ Parent(j) < j /\ 2 * Parent(j) + 1 <= j
         /\ j = Left(Parent(j)) \/ j = Right(Parent(j))
BY DEF Left, Right, Parent

LEMMA ParentInHeap ==
  ASSUME NEW n \in Nat, NEW j \in 1 .. n - 1
  PROVE  /\ j \in 0 .. n - 1 /\ Parent(j) \in 0 .. n - 1 /\ Parent(j) < j
         /\ j = Left(Parent(j)) \/ j = Right(Parent(j))
<1>1. j \in Nat /\ j > 0
  OBVIOUS
<1> QED
  BY <1>1, ParentFacts

Least(h, n, q, v, i, m) ==
  /\ m \in 0 .. n - 1
  /\ m = i \/ (m = Left(i) /\ Before(q, v, h[m], h[i])) \/ (m = Right(i) /\ Before(q, v, h[m], h[i]))
  /\ Left(i) < n => ~Before(q, v, h[Left(i)], h[m])
  /\ Right(i) < n => ~Before(q, v, h[Right(i)], h[m])

LEMMA SmallestFacts ==
  ASSUME NEW n \in Nat, NEW h \in [0 .. n - 1 -> Groups], NEW q \in KeyRange, NEW v \in KeyRange,
         NEW i \in 0 .. n - 1, NEW m, m = Smallest(h, n, q, v, i)
  PROVE  Least(h, n, q, v, i, m)
<1>1. PICK l, r : l = Left(i) /\ r = Right(i)
  OBVIOUS
<1>2. i \in Nat /\ l \in Nat /\ r \in Nat /\ l > i /\ r > l
  <2>1. i \in Nat
    OBVIOUS
  <2> QED
    BY <1>1, <2>1, ChildFacts
<1>3. PICK w : w = IF l < n /\ Before(q, v, h[l], h[i]) THEN l ELSE i
  OBVIOUS
<1>4. m = IF r < n /\ Before(q, v, h[r], h[w]) THEN r ELSE w
  BY <1>1, <1>3 DEF Smallest
<1>5. \A j \in 0 .. n - 1 : h[j] \in Groups
  OBVIOUS
<1>6. w \in 0 .. n - 1 /\ m \in 0 .. n - 1
  BY <1>2, <1>3, <1>4
<1>7. l < n => h[l] \in Groups
  BY <1>2, <1>5
<1>8. r < n => h[r] \in Groups
  BY <1>2, <1>5
<1>9. l < n => ~Before(q, v, h[l], h[w])
  BY <1>3, <1>5, <1>7, BeforeOrders
<1>10. h[w] \in Groups /\ h[i] \in Groups
  BY <1>5, <1>6
<1>11. r < n /\ Before(q, v, h[r], h[w]) => ~Before(q, v, h[w], h[r])
  BY <1>8, <1>10, BeforeOrders
<1>12. r < n => ~Before(q, v, h[r], h[m])
  BY <1>4, <1>8, BeforeOrders
<1>13. l < n => ~Before(q, v, h[l], h[m])
  BY <1>4, <1>7, <1>8, <1>9, <1>10, <1>11, BeforeOrders
<1>14. w = i \/ (w = l /\ Before(q, v, h[w], h[i]))
  BY <1>3
<1>15. m = r /\ m # w => Before(q, v, h[m], h[i])
  <2> SUFFICES ASSUME m = r, m # w
               PROVE  Before(q, v, h[r], h[i])
    OBVIOUS
  <2>1. r < n /\ Before(q, v, h[r], h[w])
    BY <1>4
  <2>2. CASE w = i
    BY <2>1, <2>2
  <2>3. CASE w # i
    <3>1. Before(q, v, h[w], h[i])
      BY <1>14, <2>3
    <3>2. ~Before(q, v, h[i], h[w])
      BY <1>10, <3>1, BeforeOrders
    <3>3. ~Before(q, v, h[r], h[i]) => ~Before(q, v, h[r], h[w])
      BY <1>8, <1>10, <2>1, <3>2, BeforeOrders
    <3> QED
      BY <2>1, <3>3
  <2> QED
    BY <2>2, <2>3
<1> QED
  BY <1>1, <1>4, <1>6, <1>12, <1>13, <1>14, <1>15 DEF Least

-----------------------------------------------------------------------------
(* A state of a sift: an array of n groups that agrees with their indices. *)
Indexed(h, ix, n) ==
  /\ \A g \in Groups : ix[g] # -1 => ix[g] \in 0 .. n - 1 /\ h[ix[g]] = g
  /\ \A i \in 0 .. n - 1 : ix[h[i]] = i
Sifts(n) ==
  [h : [0 .. n - 1 -> Groups], ix : [Groups -> -1 .. NumGroups - 1], at : 0 .. n - 1]
SameGroups(ix, jx) == \A g \in Groups : ix[g] = -1 <=> jx[g] = -1

LEMMA MovedFacts ==
  ASSUME NEW n \in Nat, n <= NumGroups, NEW s \in Sifts(n), Indexed(s.h, s.ix, n),
         NEW j \in 0 .. n - 1, j # s.at, NEW t, t = Moved(s, j)
  PROVE  /\ t \in Sifts(n) /\ Indexed(t.h, t.ix, n) /\ t.at = j /\ SameGroups(s.ix, t.ix)
         /\ t.h[s.at] = s.h[j] /\ t.h[j] = s.h[s.at]
         /\ \A k \in 0 .. n - 1 : k # j /\ k # s.at => t.h[k] = s.h[k]
<1>1. PICK h, ix, i : h = s.h /\ ix = s.ix /\ i = s.at
  OBVIOUS
<1>2. /\ h \in [0 .. n - 1 -> Groups] /\ ix \in [Groups -> -1 .. NumGroups - 1] /\ i \in 0 .. n - 1
      /\ Indexed(h, ix, n) /\ i # j
  BY <1>1 DEF Sifts
<1>3. PICK a, b : a = h[i] /\ b = h[j]
  OBVIOUS
<1>4. a \in Groups /\ b \in Groups /\ ix[a] = i /\ ix[b] = j /\ a # b
  BY <1>2, <1>3 DEF Indexed
<1>5. PICK h2, ix2 : h2 = [h EXCEPT ![i] = b, ![j] = a] /\ ix2 = [ix EXCEPT ![b] = i, ![a] = j]
  OBVIOUS
<1>6. t = [h |-> h2, ix |-> ix2, at |-> j]
  BY <1>1, <1>3, <1>5 DEF Moved, SwapHeap, SwapIndex
<1>7. /\ h2 \in [0 .. n - 1 -> Groups] /\ h2[i] = b /\ h2[j] = a
      /\ \A k \in 0 .. n - 1 : k # i /\ k # j => h2[k] = h[k]
  BY <1>2, <1>4, <1>5
<1>8. /\ ix2 \in [Groups -> -1 .. NumGroups - 1] /\ ix2[b] = i /\ ix2[a] = j
      /\ \A g \in Groups : g # a /\ g # b => ix2[g] = ix[g]
  BY <1>2, <1>4, <1>5, SizeFacts
<1>9. i # -1 /\ j # -1
  BY <1>2
<1>10. Indexed(h2, ix2, n)
  <2>1. ASSUME NEW g \in Groups, ix2[g] # -1
        PROVE  ix2[g] \in 0 .. n - 1 /\ h2[ix2[g]] = g
    <3>1. CASE g = a \/ g = b
      BY <1>2, <1>7, <1>8, <3>1
    <3>2. CASE g # a /\ g # b
      <4>1. ix[g] = ix2[g] /\ ix[g] \in 0 .. n - 1 /\ h[ix[g]] = g
        BY <1>2, <1>8, <2>1, <3>2 DEF Indexed
      <4>2. ix[g] # i /\ ix[g] # j
        BY <1>3, <3>2, <4>1
      <4> QED
        BY <1>7, <4>1, <4>2
    <3> QED
      BY <3>1, <3>2
  <2>2. ASSUME NEW k \in 0 .. n - 1
        PROVE  ix2[h2[k]] = k
    <3>1. CASE k = i \/ k = j
      BY <1>7, <1>8, <3>1
    <3>2. CASE k # i /\ k # j
      <4>1. h2[k] = h[k] /\ ix[h[k]] = k /\ h[k] \in Groups
        BY <1>2, <1>7, <3>2 DEF Indexed
      <4>2. h[k] # a /\ h[k] # b
        BY <1>4, <3>2, <4>1
      <4> QED
        BY <1>8, <4>1, <4>2
    <3> QED
      BY <3>1, <3>2
  <2> QED
    BY <2>1, <2>2 DEF Indexed
<1>11. SameGroups(ix, ix2)
  BY <1>4, <1>8, <1>9 DEF SameGroups
<1>12. t \in Sifts(n) /\ t.h = h2 /\ t.ix = ix2 /\ t.at = j
  <2>1. t.h = h2 /\ t.ix = ix2 /\ t.at = j
    BY <1>6
  <2>2. t \in Sifts(n)
    BY ONLY <1>6, <1>7, <1>8, j \in 0 .. n - 1 DEF Sifts
  <2> QED
    BY <2>1, <2>2
<1> QED
  BY <1>1, <1>3, <1>7, <1>10, <1>11, <1>12

(* How far an array is in order: everywhere, everywhere but around i, but  *)
(* below i, and but above i.                                               *)
InPlace(h, q, v, j) == ~Before(q, v, h[j], h[Parent(j)])
Bridged(h, n, q, v, i) ==
  i > 0 => \A j \in 1 .. n - 1 : Parent(j) = i => ~Before(q, v, h[j], h[Parent(i)])
Ordered(h, n, q, v) == \A j \in 1 .. n - 1 : InPlace(h, q, v, j)
ButAround(h, n, q, v, i) ==
  Bridged(h, n, q, v, i) /\ \A j \in 1 .. n - 1 : j # i /\ Parent(j) # i => InPlace(h, q, v, j)
ButBelow(h, n, q, v, i) ==
  Bridged(h, n, q, v, i) /\ \A j \in 1 .. n - 1 : Parent(j) # i => InPlace(h, q, v, j)
ButAbove(h, n, q, v, i) ==
  Bridged(h, n, q, v, i) /\ \A j \in 1 .. n - 1 : j # i => InPlace(h, q, v, j)

DownStep(n, q, v, s) ==
  LET m == Smallest(s.h, n, q, v, s.at) IN IF m = s.at THEN s ELSE Moved(s, m)
UpStep(q, v, s) == IF Climbs(s.h, q, v, s.at) THEN Moved(s, Parent(s.at)) ELSE s

(* A sift down from i, at a later level k or finished.                     *)
Sinking(n, q, v, i, ix, k, s) ==
  /\ s \in Sifts(n) /\ Indexed(s.h, s.ix, n) /\ SameGroups(ix, s.ix)
  /\ IF s.at = i THEN ButAround(s.h, n, q, v, i) ELSE ButBelow(s.h, n, q, v, s.at)
  /\ s.at >= k \/ Smallest(s.h, n, q, v, s.at) = s.at

(* The children of an index that its sift leaves alone.                    *)
LEMMA SettledBelow ==
  ASSUME NEW n \in Nat, NEW h \in [0 .. n - 1 -> Groups], NEW q \in KeyRange, NEW v \in KeyRange,
         NEW i \in 0 .. n - 1, Smallest(h, n, q, v, i) = i
  PROVE  \A j \in 1 .. n - 1 : Parent(j) = i => InPlace(h, q, v, j)
<1> SUFFICES ASSUME NEW j \in 1 .. n - 1, Parent(j) = i
             PROVE  ~Before(q, v, h[j], h[i])
  BY DEF InPlace
<1>1. j < n /\ (j = Left(i) \/ j = Right(i))
  BY ParentInHeap
<1>2. PICK m : m = Smallest(h, n, q, v, i)
  OBVIOUS
<1>3. Least(h, n, q, v, i, m)
  BY <1>2, SmallestFacts
<1> QED
  BY <1>1, <1>2, <1>3 DEF Least

LEMMA SinkingStep ==
  ASSUME NEW n \in Nat, n <= NumGroups, NEW q \in KeyRange, NEW v \in KeyRange, NEW ix,
         NEW i \in 0 .. n - 1, NEW k \in Nat, NEW s, Sinking(n, q, v, i, ix, k, s),
         NEW t, t = DownStep(n, q, v, s)
  PROVE  Sinking(n, q, v, i, ix, k + 1, t)
<1>1. PICK h, a, m : h = s.h /\ a = s.at /\ m = Smallest(h, n, q, v, a)
  OBVIOUS
<1>2. s \in Sifts(n) /\ h \in [0 .. n - 1 -> Groups] /\ a \in 0 .. n - 1 /\ Indexed(s.h, s.ix, n)
  BY <1>1 DEF Sinking, Sifts
<1>3. CASE m = a
  BY <1>1, <1>3 DEF Sinking, DownStep
<1>4. CASE m # a
  <2>1. /\ m \in 0 .. n - 1 /\ Before(q, v, h[m], h[a]) /\ (m = Left(a) \/ m = Right(a))
        /\ Left(a) < n => ~Before(q, v, h[Left(a)], h[m])
        /\ Right(a) < n => ~Before(q, v, h[Right(a)], h[m])
    <3>1. Least(h, n, q, v, a, m)
      BY <1>1, <1>2, SmallestFacts
    <3> QED
      BY <1>4, <3>1 DEF Least
  <2>2. t = Moved(s, m)
    BY <1>1, <1>4 DEF DownStep
  <2>3. PICK h2 : h2 = t.h
    OBVIOUS
  <2>4. /\ t \in Sifts(n) /\ Indexed(t.h, t.ix, n) /\ t.at = m /\ SameGroups(s.ix, t.ix)
        /\ h2[a] = h[m] /\ h2[m] = h[a]
        /\ \A j \in 0 .. n - 1 : j # m /\ j # a => h2[j] = h[j]
    BY <1>1, <1>2, <1>4, <2>1, <2>2, <2>3, MovedFacts
  <2>5. SameGroups(ix, t.ix)
    BY <2>4 DEF Sinking, SameGroups
  <2>6. m > a /\ Parent(m) = a /\ m >= 2 * a + 1 /\ a \in Nat
    <3>1. a \in Nat
      BY <1>2
    <3>2. /\ Left(a) \in Nat /\ Right(a) \in Nat /\ Left(a) > a /\ Right(a) > Left(a)
          /\ Parent(Left(a)) = a /\ Parent(Right(a)) = a /\ Left(a) = 2 * a + 1
      BY ONLY <3>1, ChildFacts
    <3> QED
      BY <2>1, <3>1, <3>2
  <2>7. /\ Bridged(h, n, q, v, a)
        /\ \A j \in 1 .. n - 1 : j # a /\ Parent(j) # a => InPlace(h, q, v, j)
        /\ a # i => \A j \in 1 .. n - 1 : Parent(j) # a => InPlace(h, q, v, j)
    BY <1>1 DEF Sinking, ButAround, ButBelow
  <2>8. \A j \in 1 .. n - 1 : /\ Parent(j) \in 0 .. n - 1 /\ Parent(j) # j /\ j \in 0 .. n - 1
                              /\ Parent(j) = a => j = Left(a) \/ j = Right(a)
    BY ParentInHeap
  <2>9. \A j \in 0 .. n - 1 : h[j] \in Groups
    BY <1>2
  <2>10. ASSUME NEW j \in 1 .. n - 1, Parent(j) # m
         PROVE  InPlace(h2, q, v, j)
    <3>1. CASE j = m
      BY <2>1, <2>4, <2>6, <2>9, <3>1, <1>2, BeforeOrders DEF InPlace
    <3>2. CASE j # m /\ Parent(j) = a
      BY <2>1, <2>4, <2>8, <3>2 DEF InPlace
    <3>3. CASE j = a
      <4>1. h2[Parent(a)] = h[Parent(a)] /\ h2[a] = h[m] /\ a > 0
        BY <2>4, <2>6, <2>8, <2>10, <3>3
      <4>2. ~Before(q, v, h[m], h[Parent(a)])
        <5>1. m \in 1 .. n - 1
          BY <2>1, <2>6
        <5> QED
          BY <2>6, <2>7, <4>1, <5>1 DEF Bridged
      <4> QED
        BY <3>3, <4>1, <4>2 DEF InPlace
    <3>4. CASE j # m /\ j # a /\ Parent(j) # a
      BY <2>4, <2>7, <2>8, <2>10, <3>4 DEF InPlace
    <3> QED
      BY <3>1, <3>2, <3>3, <3>4
  <2>11. Bridged(h2, n, q, v, m)
    <3> SUFFICES ASSUME NEW j \in 1 .. n - 1, Parent(j) = m
                 PROVE  ~Before(q, v, h2[j], h2[a])
      BY <2>6 DEF Bridged
    <3>1. j # m /\ j # a /\ h2[j] = h[j] /\ h2[a] = h[m]
      BY <2>4, <2>6, <2>8, ParentInHeap
    <3>2. InPlace(h, q, v, j)
      BY <1>4, <2>7, <3>1
    <3> QED
      BY <3>1, <3>2 DEF InPlace
  <2>12. ButBelow(h2, n, q, v, m)
    BY <2>10, <2>11 DEF ButBelow
  <2>13. ButAround(h2, n, q, v, m)
    BY <2>12 DEF ButBelow, ButAround
  <2>14. m >= k + 1
    BY <1>1, <1>2, <1>4, <2>1, <2>6 DEF Sinking
  <2> QED
    BY <2>3, <2>4, <2>5, <2>12, <2>13, <2>14 DEF Sinking
<1> QED
  BY <1>3, <1>4

(* A sift up, at a later level k or finished.                              *)
Rising(n, q, v, ix, k, s) ==
  /\ s \in Sifts(n) /\ Indexed(s.h, s.ix, n) /\ SameGroups(ix, s.ix)
  /\ ButAbove(s.h, n, q, v, s.at)
  /\ (k = 0 \/ s.at + k <= n \div 2) \/ ~Climbs(s.h, q, v, s.at)

LEMMA RisingStep ==
  ASSUME NEW n \in Nat, n <= NumGroups, NEW q \in KeyRange, NEW v \in KeyRange, NEW ix,
         NEW k \in Nat, NEW s, Rising(n, q, v, ix, k, s), NEW t, t = UpStep(q, v, s)
  PROVE  Rising(n, q, v, ix, k + 1, t)
<1>1. PICK h, a, p : h = s.h /\ a = s.at /\ p = Parent(a)
  OBVIOUS
<1>2. s \in Sifts(n) /\ h \in [0 .. n - 1 -> Groups] /\ a \in 0 .. n - 1 /\ Indexed(s.h, s.ix, n)
  BY <1>1 DEF Rising, Sifts
<1>3. CASE ~Climbs(h, q, v, a)
  BY <1>1, <1>3 DEF Rising, UpStep
<1>4. CASE Climbs(h, q, v, a)
  <2>1. a \in 1 .. n - 1 /\ Before(q, v, h[a], h[p])
    BY <1>1, <1>2, <1>4 DEF Climbs
  <2>2. p \in 0 .. n - 1 /\ p < a
    BY <1>1, <2>1, ParentInHeap
  <2>3. t = Moved(s, p)
    BY <1>1, <1>4 DEF UpStep
  <2>4. PICK h2 : h2 = t.h
    OBVIOUS
  <2>5. /\ t \in Sifts(n) /\ Indexed(t.h, t.ix, n) /\ t.at = p /\ SameGroups(s.ix, t.ix)
        /\ h2[a] = h[p] /\ h2[p] = h[a]
        /\ \A j \in 0 .. n - 1 : j # p /\ j # a => h2[j] = h[j]
    BY <1>1, <1>2, <2>2, <2>3, <2>4, MovedFacts
  <2>6. SameGroups(ix, t.ix)
    BY <2>5 DEF Rising, SameGroups
  <2>7. Bridged(h, n, q, v, a) /\ \A j \in 1 .. n - 1 : j # a => InPlace(h, q, v, j)
    BY <1>1 DEF Rising, ButAbove
  <2>8. \A j \in 1 .. n - 1 : /\ Parent(j) \in 0 .. n - 1 /\ Parent(j) # j /\ j \in 0 .. n - 1
    BY ParentInHeap
  <2>9. \A j \in 0 .. n - 1 : h[j] \in Groups
    BY <1>2
  <2>10. h[a] \in Groups /\ h[p] \in Groups /\ ~Before(q, v, h[p], h[a])
    BY <1>2, <2>1, <2>2, <2>9, BeforeOrders
  <2>11. ASSUME NEW j \in 1 .. n - 1, j # p
         PROVE  InPlace(h2, q, v, j)
    <3>1. CASE j = a
      BY <1>1, <2>5, <2>10, <3>1 DEF InPlace
    <3>2. CASE j # a /\ Parent(j) = a
      <4>1. ~Before(q, v, h[j], h[p])
        BY <1>1, <2>1, <2>7, <3>2 DEF Bridged
      <4> QED
        BY <2>5, <2>8, <2>11, <3>2, <4>1 DEF InPlace
    <3>3. CASE j # a /\ Parent(j) = p
      <4>1. ~Before(q, v, h[j], h[p]) /\ h[j] \in Groups
        BY <2>7, <2>8, <2>9, <3>3 DEF InPlace
      <4>2. ~Before(q, v, h[j], h[a])
        BY <2>10, <4>1, BeforeOrders
      <4> QED
        BY <2>5, <2>8, <2>11, <3>3, <4>2 DEF InPlace
    <3>4. CASE j # a /\ Parent(j) # a /\ Parent(j) # p
      BY <2>5, <2>7, <2>8, <2>11, <3>4 DEF InPlace
    <3> QED
      BY <3>1, <3>2, <3>3, <3>4
  <2>12. Bridged(h2, n, q, v, p)
    <3> SUFFICES ASSUME p > 0, NEW j \in 1 .. n - 1, Parent(j) = p
                 PROVE  ~Before(q, v, h2[j], h2[Parent(p)])
      BY DEF Bridged
    <3>1. p \in 1 .. n - 1
      BY <2>2
    <3>2. PICK g : g = h[Parent(p)]
      OBVIOUS
    <3>3. Parent(p) \in 0 .. n - 1 /\ Parent(p) < p
      BY <3>1, ParentInHeap
    <3>4. h2[Parent(p)] = g /\ g \in Groups
      BY <2>2, <2>5, <2>9, <3>2, <3>3
    <3>5. ~Before(q, v, h[p], g)
      BY <2>2, <2>7, <3>1, <3>2 DEF InPlace
    <3>6. CASE j = a
      BY <2>5, <3>4, <3>5, <3>6
    <3>7. CASE j # a
      <4>1. ~Before(q, v, h[j], h[p]) /\ h[j] \in Groups /\ h2[j] = h[j]
        BY <2>5, <2>7, <2>8, <2>9, <3>7 DEF InPlace
      <4>2. ~Before(q, v, h[j], g)
        BY <2>10, <3>4, <3>5, <4>1, BeforeOrders
      <4> QED
        BY <3>4, <4>1, <4>2
    <3> QED
      BY <3>6, <3>7
  <2>13. ButAbove(h2, n, q, v, p)
    BY <2>11, <2>12 DEF ButAbove
  <2>14. p + (k + 1) <= n \div 2
    <3>1. k = 0 \/ a + k <= n \div 2
      BY <1>1, <1>4 DEF Rising
    <3>2. a \in Nat /\ a > 0 /\ a <= n - 1
      BY <2>1
    <3>3. p \in Nat /\ 2 * p + 1 <= a /\ p < a
      BY <1>1, <3>2, ParentFacts
    <3>4. 2 * (p + 1) <= n
      BY <3>2, <3>3
    <3>5. p + 1 <= n \div 2
      BY <3>3, <3>4
    <3>6. n \div 2 \in Nat
      OBVIOUS
    <3>7. CASE k = 0
      BY <3>3, <3>5, <3>7
    <3>8. CASE a + k <= n \div 2
      BY <3>2, <3>3, <3>6, <3>8
    <3> QED
      BY <3>1, <3>7, <3>8
  <2> QED
    BY <2>4, <2>5, <2>6, <2>13, <2>14 DEF Rising
<1> QED
  BY <1>3, <1>4

-----------------------------------------------------------------------------
(* The sifts, run to their ends.                                           *)
HasRounds(N, D, x, G) ==
  \E f \in [0 .. N -> D] : \A k \in 0 .. N : f[k] = IF k = 0 THEN x ELSE G[f[k - 1]]

LEMMA RoundsExist ==
  ASSUME NEW N \in Nat, NEW D, NEW x \in D, NEW G \in [D -> D]
  PROVE  HasRounds(N, D, x, G)
<1>2. PICK H : H = [k \in 1 .. N |-> G]
  OBVIOUS
<1>3. H \in [1 .. N -> [D -> D]]
  BY <1>2
<1>4. PICK f \in [0 .. N -> D] : f[0] = x /\ \A k \in 1 .. N : f[k] = H[k][f[k - 1]]
  BY <1>3, RecursionExists
<1>5. \A k \in 0 .. N : f[k] = IF k = 0 THEN x ELSE G[f[k - 1]]
  <2> SUFFICES ASSUME NEW k \in 0 .. N, k # 0
               PROVE  f[k] = G[f[k - 1]]
    BY <1>4
  <2>1. k \in 1 .. N
    OBVIOUS
  <2> QED
    BY <1>2, <1>4, <2>1
<1> QED
  BY <1>4, <1>5 DEF HasRounds

LEMMA StepTypes ==
  ASSUME NEW n \in Nat, n <= NumGroups, NEW q \in KeyRange, NEW v \in KeyRange,
         NEW s \in Sifts(n), Indexed(s.h, s.ix, n)
  PROVE  /\ DownStep(n, q, v, s) \in Sifts(n)
         /\ Indexed(DownStep(n, q, v, s).h, DownStep(n, q, v, s).ix, n)
         /\ UpStep(q, v, s) \in Sifts(n)
         /\ Indexed(UpStep(q, v, s).h, UpStep(q, v, s).ix, n)
<1>1. PICK h, a : h = s.h /\ a = s.at /\ h \in [0 .. n - 1 -> Groups] /\ a \in 0 .. n - 1
  BY DEF Sifts
<1>2. ASSUME NEW j \in 0 .. n - 1, j # s.at
      PROVE  Moved(s, j) \in Sifts(n) /\ Indexed(Moved(s, j).h, Moved(s, j).ix, n)
  BY <1>2, MovedFacts
<1>3. Smallest(s.h, n, q, v, s.at) \in 0 .. n - 1
  BY <1>1, SmallestFacts DEF Least
<1>4. Climbs(s.h, q, v, s.at) => Parent(s.at) \in 0 .. n - 1 /\ Parent(s.at) # s.at
  <2>1. CASE a > 0
    <3>1. a \in 1 .. n - 1
      BY <1>1, <2>1
    <3> QED
      BY <1>1, <3>1, ParentInHeap
  <2>2. CASE ~(a > 0)
    BY <1>1, <2>2 DEF Climbs
  <2> QED
    BY <2>1, <2>2
<1> QED
  BY <1>2, <1>3, <1>4 DEF DownStep, UpStep

LEMMA SiftDownFixes ==
  ASSUME NEW n \in Nat, n <= NumGroups, NEW q \in KeyRange, NEW v \in KeyRange,
         NEW h \in [0 .. n - 1 -> Groups], NEW ix \in [Groups -> -1 .. NumGroups - 1],
         Indexed(h, ix, n), NEW i \in 0 .. n - 1, ButAround(h, n, q, v, i),
         NEW t, t = SiftDown(h, ix, n, q, v, i)
  PROVE  /\ t \in Sifts(n) /\ Indexed(t.h, t.ix, n) /\ SameGroups(ix, t.ix)
         /\ ButAbove(t.h, n, q, v, i)
<1> DEFINE x == [h |-> h, ix |-> ix, at |-> i]
           step(s) == DownStep(n, q, v, s)
           Rounds(f) == f = [k \in 0 .. (n \div 2) |-> IF k = 0 THEN x ELSE step(f[k - 1])]
<1>1. x \in Sifts(n) /\ x.h = h /\ x.ix = ix /\ x.at = i
  BY DEF Sifts
<1>2. \E f : Rounds(f)
  <2>1. PICK D, G, y : /\ D = {s \in Sifts(n) : Indexed(s.h, s.ix, n)} /\ y = x
                       /\ G = [s \in D |-> step(s)]
    OBVIOUS
  <2>2. \A s \in D : step(s) \in D
    BY <2>1, StepTypes
  <2>3. y \in D
    BY <1>1, <2>1
  <2> HIDE DEF x, step
  <2>4. G \in [D -> D]
    BY <2>1, <2>2
  <2>5. PICK f \in [0 .. (n \div 2) -> D] :
           \A k \in 0 .. (n \div 2) : f[k] = IF k = 0 THEN y ELSE G[f[k - 1]]
    <3>1. n \div 2 \in Nat
      OBVIOUS
    <3>2. HasRounds(n \div 2, D, y, G)
      BY ONLY <2>3, <2>4, <3>1, RoundsExist
    <3> QED
      BY <3>2 DEF HasRounds
  <2>6. \A k \in 0 .. (n \div 2) : k # 0 => k - 1 \in 0 .. (n \div 2)
    OBVIOUS
  <2>7. \A k \in 0 .. (n \div 2) : k # 0 => G[f[k - 1]] = step(f[k - 1])
    BY <2>1, <2>5, <2>6
  <2>8. f = [k \in 0 .. (n \div 2) |-> IF k = 0 THEN x ELSE step(f[k - 1])]
    BY <2>1, <2>5, <2>7
  <2> QED
    BY <2>8
<1>3. PICK f : Rounds(f) /\ t = f[n \div 2]
  <2>1. t = (CHOOSE f : Rounds(f))[n \div 2]
    BY DEF SiftDown, DownStep
  <2> HIDE DEF Rounds
  <2> QED
    BY <1>2, <2>1
<1>4. PICK N \in Nat : N = n \div 2
  OBVIOUS
<1>5. \A k \in 0 .. N : f[k] = IF k = 0 THEN x ELSE DownStep(n, q, v, f[k - 1])
  BY <1>3, <1>4
<1> DEFINE A == {k \in Nat : k <= N => Sinking(n, q, v, i, ix, k, f[k])}
<1>6. \A k \in Nat : k \in A
  <2>1. 0 \in A
    <3>1. f[0] = x
      BY <1>4, <1>5
    <3> HIDE DEF x
    <3>2. SameGroups(ix, x.ix) /\ x.at >= 0
      BY <1>1 DEF SameGroups
    <3> QED
      BY <1>1, <3>1, <3>2 DEF Sinking
  <2> HIDE DEF x
  <2>2. ASSUME NEW k \in Nat, k \in A
        PROVE  k + 1 \in A
    <3> SUFFICES ASSUME k + 1 <= N
                 PROVE  Sinking(n, q, v, i, ix, k + 1, f[k + 1])
      OBVIOUS
    <3>1. k + 1 \in 0 .. N /\ k + 1 # 0 /\ (k + 1) - 1 = k
      BY <1>4
    <3>2. Sinking(n, q, v, i, ix, k, f[k])
      BY <1>4, <2>2
    <3>3. f[k + 1] = DownStep(n, q, v, f[k])
      BY <1>5, <3>1
    <3> QED
      BY <3>2, <3>3, SinkingStep
  <2> HIDE DEF A
  <2> QED
    BY <2>1, <2>2, NumberInduction
<1>7. Sinking(n, q, v, i, ix, N, t)
  <2>1. N \in A
    BY <1>6
  <2>2. Sinking(n, q, v, i, ix, N, f[N])
    BY <2>1
  <2> QED
    BY <1>3, <1>4, <2>2
<1>8. PICK h2, a : h2 = t.h /\ a = t.at
  OBVIOUS
<1>9. /\ t \in Sifts(n) /\ Indexed(t.h, t.ix, n) /\ SameGroups(ix, t.ix)
      /\ h2 \in [0 .. n - 1 -> Groups] /\ a \in 0 .. n - 1
      /\ IF a = i THEN ButAround(h2, n, q, v, i) ELSE ButBelow(h2, n, q, v, a)
      /\ a >= N \/ Smallest(h2, n, q, v, a) = a
  BY <1>7, <1>8 DEF Sinking, Sifts
<1>10. Smallest(h2, n, q, v, a) = a
  <2> SUFFICES ASSUME a >= N
               PROVE  Smallest(h2, n, q, v, a) = a
    BY <1>9
  <2>1. a \in Nat
    BY <1>9
  <2>2. Left(a) >= n /\ Right(a) >= n
    <3>1. 2 * N + 1 >= n
      BY <1>4
    <3>2. Left(a) = 2 * a + 1 /\ Right(a) = 2 * a + 2
      BY <2>1, ChildFacts
    <3> QED
      BY <1>4, <2>1, <3>1, <3>2
  <2>3. PICK m : m = Smallest(h2, n, q, v, a)
    OBVIOUS
  <2>4. Least(h2, n, q, v, a, m)
    BY <1>9, <2>3, SmallestFacts
  <2> QED
    BY <2>2, <2>3, <2>4 DEF Least
<1>11. \A j \in 1 .. n - 1 : Parent(j) = a => InPlace(h2, q, v, j)
  BY <1>9, <1>10, SettledBelow
<1>12. CASE a = i
  BY <1>8, <1>9, <1>11, <1>12 DEF ButAround, ButAbove
<1>13. CASE a # i
  <2>1. \A j \in 1 .. n - 1 : InPlace(h2, q, v, j)
    BY <1>9, <1>11, <1>13 DEF ButBelow
  <2>2. Bridged(h2, n, q, v, i)
    <3> SUFFICES ASSUME i > 0, NEW j \in 1 .. n - 1, Parent(j) = i
                 PROVE  ~Before(q, v, h2[j], h2[Parent(i)])
      BY DEF Bridged
    <3>1. i \in 1 .. n - 1
      OBVIOUS
    <3>2. ~Before(q, v, h2[j], h2[i]) /\ ~Before(q, v, h2[i], h2[Parent(i)])
      BY <2>1, <3>1 DEF InPlace
    <3>3. h2[j] \in Groups /\ h2[i] \in Groups /\ h2[Parent(i)] \in Groups
      BY <1>9, <3>1, ParentInHeap
    <3> QED
      BY <3>2, <3>3, BeforeOrders
  <2> QED
    BY <1>8, <1>9, <2>1, <2>2 DEF ButAbove
<1> QED
  BY <1>8, <1>9, <1>12, <1>13

LEMMA SiftUpFixes ==
  ASSUME NEW n \in Nat, n <= NumGroups, NEW q \in KeyRange, NEW v \in KeyRange,
         NEW h \in [0 .. n - 1 -> Groups], NEW ix \in [Groups -> -1 .. NumGroups - 1],
         Indexed(h, ix, n), NEW i \in 0 .. n - 1, ButAbove(h, n, q, v, i),
         NEW t, t = SiftUp(h, ix, n, q, v, i)
  PROVE  /\ t \in Sifts(n) /\ Indexed(t.h, t.ix, n) /\ SameGroups(ix, t.ix)
         /\ Ordered(t.h, n, q, v)
<1> DEFINE x == [h |-> h, ix |-> ix, at |-> i]
           step(s) == UpStep(q, v, s)
           Rounds(f) == f = [k \in 0 .. (n \div 2) |-> IF k = 0 THEN x ELSE step(f[k - 1])]
<1>1. x \in Sifts(n) /\ x.h = h /\ x.ix = ix /\ x.at = i
  BY DEF Sifts
<1>2. \E f : Rounds(f)
  <2>1. PICK D, G, y : /\ D = {s \in Sifts(n) : Indexed(s.h, s.ix, n)} /\ y = x
                       /\ G = [s \in D |-> step(s)]
    OBVIOUS
  <2>2. \A s \in D : step(s) \in D
    BY <2>1, StepTypes
  <2>3. y \in D
    BY <1>1, <2>1
  <2> HIDE DEF x, step
  <2>4. G \in [D -> D]
    BY <2>1, <2>2
  <2>5. PICK f \in [0 .. (n \div 2) -> D] :
           \A k \in 0 .. (n \div 2) : f[k] = IF k = 0 THEN y ELSE G[f[k - 1]]
    <3>1. n \div 2 \in Nat
      OBVIOUS
    <3>2. HasRounds(n \div 2, D, y, G)
      BY ONLY <2>3, <2>4, <3>1, RoundsExist
    <3> QED
      BY <3>2 DEF HasRounds
  <2>6. \A k \in 0 .. (n \div 2) : k # 0 => k - 1 \in 0 .. (n \div 2)
    OBVIOUS
  <2>7. \A k \in 0 .. (n \div 2) : k # 0 => G[f[k - 1]] = step(f[k - 1])
    BY <2>1, <2>5, <2>6
  <2>8. f = [k \in 0 .. (n \div 2) |-> IF k = 0 THEN x ELSE step(f[k - 1])]
    BY <2>1, <2>5, <2>7
  <2> QED
    BY <2>8
<1>3. PICK f : Rounds(f) /\ t = f[n \div 2]
  <2>1. t = (CHOOSE f : Rounds(f))[n \div 2]
    BY DEF SiftUp, UpStep
  <2> HIDE DEF Rounds
  <2> QED
    BY <1>2, <2>1
<1>4. PICK N \in Nat : N = n \div 2
  OBVIOUS
<1>5. \A k \in 0 .. N : f[k] = IF k = 0 THEN x ELSE UpStep(q, v, f[k - 1])
  BY <1>3, <1>4
<1> DEFINE A == {k \in Nat : k <= N => Rising(n, q, v, ix, k, f[k])}
<1>6. \A k \in Nat : k \in A
  <2>1. 0 \in A
    <3>1. f[0] = x
      BY <1>4, <1>5
    <3> HIDE DEF x
    <3>2. SameGroups(ix, x.ix)
      BY <1>1 DEF SameGroups
    <3> QED
      BY <1>1, <3>1, <3>2 DEF Rising
  <2> HIDE DEF x
  <2>2. ASSUME NEW k \in Nat, k \in A
        PROVE  k + 1 \in A
    <3> SUFFICES ASSUME k + 1 <= N
                 PROVE  Rising(n, q, v, ix, k + 1, f[k + 1])
      OBVIOUS
    <3>1. k + 1 \in 0 .. N /\ k + 1 # 0 /\ (k + 1) - 1 = k
      BY <1>4
    <3>2. Rising(n, q, v, ix, k, f[k])
      BY <1>4, <2>2
    <3>3. f[k + 1] = UpStep(q, v, f[k])
      BY <1>5, <3>1
    <3> QED
      BY <3>2, <3>3, RisingStep
  <2> HIDE DEF A
  <2> QED
    BY <2>1, <2>2, NumberInduction
<1>7. Rising(n, q, v, ix, N, t)
  <2>1. N \in A
    BY <1>6
  <2>2. Rising(n, q, v, ix, N, f[N])
    BY <2>1
  <2> QED
    BY <1>3, <1>4, <2>2
<1>8. PICK h2, a : h2 = t.h /\ a = t.at
  OBVIOUS
<1>9. /\ t \in Sifts(n) /\ Indexed(t.h, t.ix, n) /\ SameGroups(ix, t.ix)
      /\ a \in 0 .. n - 1 /\ ButAbove(h2, n, q, v, a)
      /\ (N = 0 \/ a + N <= n \div 2) \/ ~Climbs(h2, q, v, a)
  BY <1>7, <1>8 DEF Rising, Sifts
<1>10. ~Climbs(h2, q, v, a)
  <2> SUFFICES ASSUME N = 0 \/ a + N <= n \div 2
               PROVE  ~(a > 0)
    BY <1>9 DEF Climbs
  <2>1. CASE N = 0
    <3>1. n <= 1
      BY <1>4, <2>1
    <3> QED
      BY <1>9, <3>1
  <2>2. CASE a + N <= n \div 2
    BY <1>4, <1>9, <2>2
  <2> QED
    BY <2>1, <2>2
<1>11. a \in 1 .. n - 1 => InPlace(h2, q, v, a)
  BY <1>10 DEF Climbs, InPlace
<1>12. Ordered(h2, n, q, v)
  BY <1>9, <1>11 DEF ButAbove, Ordered
<1> QED
  BY <1>8, <1>9, <1>12

(* What gl_heap_fix_index is called on: an array that is wrong around i    *)
(* alone, and nowhere when i is not in it.                                 *)
Refilled(h, n, q, v, i) ==
  IF i < n THEN ButAround(h, n, q, v, i) ELSE Ordered(h, n, q, v)

LEMMA FixIndexFixes ==
  ASSUME NEW n \in Nat, n <= NumGroups, NEW q \in KeyRange, NEW v \in KeyRange,
         NEW h \in [0 .. n - 1 -> Groups], NEW ix \in [Groups -> -1 .. NumGroups - 1],
         Indexed(h, ix, n), NEW i \in Nat, Refilled(h, n, q, v, i),
         NEW t, t = FixIndex(h, ix, n, q, v, i)
  PROVE  /\ t.h \in [0 .. n - 1 -> Groups] /\ t.ix \in [Groups -> -1 .. NumGroups - 1]
         /\ Indexed(t.h, t.ix, n) /\ SameGroups(ix, t.ix) /\ Ordered(t.h, n, q, v)
<1>1. CASE i < n
  <2>1. i \in 0 .. n - 1
    BY <1>1
  <2>2. PICK d : d = SiftDown(h, ix, n, q, v, i)
    OBVIOUS
  <2>3. /\ d \in Sifts(n) /\ Indexed(d.h, d.ix, n) /\ SameGroups(ix, d.ix)
        /\ ButAbove(d.h, n, q, v, i)
    BY <1>1, <2>1, <2>2, SiftDownFixes DEF Refilled
  <2>4. PICK h2, ix2 : h2 = d.h /\ ix2 = d.ix
    OBVIOUS
  <2>5. h2 \in [0 .. n - 1 -> Groups] /\ ix2 \in [Groups -> -1 .. NumGroups - 1]
    BY <2>3, <2>4 DEF Sifts
  <2>6. t = SiftUp(h2, ix2, n, q, v, i)
    BY <1>1, <2>1, <2>2, <2>4 DEF FixIndex
  <2>7. /\ t \in Sifts(n) /\ Indexed(t.h, t.ix, n) /\ SameGroups(ix2, t.ix)
        /\ Ordered(t.h, n, q, v)
    BY <2>1, <2>3, <2>4, <2>5, <2>6, SiftUpFixes
  <2> QED
    BY <2>3, <2>4, <2>7 DEF Sifts, SameGroups
<1>2. CASE ~(i < n)
  <2>1. t.h = h /\ t.ix = ix /\ Ordered(h, n, q, v)
    BY <1>2 DEF FixIndex, Refilled
  <2> QED
    BY <2>1 DEF SameGroups
<1> QED
  BY <1>1, <1>2

-----------------------------------------------------------------------------
(* The arrays gl_add_group and gl_del_group hand to the sifts.             *)

LEMMA HeapFits ==
  ASSUME NEW n \in Nat, NEW h \in [0 .. n - 1 -> Groups], NEW ix, \A i \in 0 .. n - 1 : ix[h[i]] = i
  PROVE  n <= NumGroups
<1>1. h \in Injection(0 .. n - 1, Groups)
  <2>1. \A i, j \in 0 .. n - 1 : h[i] = h[j] => i = j
    OBVIOUS
  <2> QED
    BY <2>1 DEF Injection, IsInjective
<1>2. IsFiniteSet(Groups) /\ Cardinality(Groups) = NumGroups
  BY SizeFacts, FS_Interval DEF Groups
<1>3. Cardinality(0 .. n - 1) <= Cardinality(Groups)
  BY ONLY <1>1, <1>2, FS_Injection
<1>4. Cardinality(0 .. n - 1) = n
  BY FS_Interval
<1> QED
  BY <1>2, <1>3, <1>4

Pushed(h, n, g) == [i \in 0 .. n |-> IF i = n THEN g ELSE h[i]]
PushedIndex(ix, n, g) == [ix EXCEPT ![g] = n]
TakenOut(h, last, i) == [k \in 0 .. last - 1 |-> IF k = i THEN h[last] ELSE h[k]]
TakenOutIndex(ix, e, i, g) == [ix EXCEPT ![e] = i, ![g] = -1]

LEMMA PushFacts ==
  ASSUME NEW n \in Nat, n <= NumGroups, NEW q \in KeyRange, NEW v \in KeyRange,
         NEW h \in [0 .. n - 1 -> Groups], NEW ix \in [Groups -> -1 .. NumGroups - 1],
         Indexed(h, ix, n), Ordered(h, n, q, v), NEW g \in Groups, ix[g] = -1,
         NEW p, p = Pushed(h, n, g), NEW jx, jx = PushedIndex(ix, n, g)
  PROVE  /\ n + 1 <= NumGroups /\ n \in 0 .. (n + 1) - 1
         /\ p \in [0 .. (n + 1) - 1 -> Groups] /\ jx \in [Groups -> -1 .. NumGroups - 1]
         /\ Indexed(p, jx, n + 1) /\ ButAbove(p, n + 1, q, v, n)
<1>1. 0 .. (n + 1) - 1 = 0 .. n /\ \A i \in 0 .. n : i = n \/ i \in 0 .. n - 1
  OBVIOUS
<1>2. p \in [0 .. (n + 1) - 1 -> Groups]
  BY <1>1 DEF Pushed
<1>3. p[n] = g /\ \A i \in 0 .. n - 1 : p[i] = h[i]
  BY DEF Pushed
<1>4. jx[g] = n /\ \A k \in Groups : k # g => jx[k] = ix[k]
  BY DEF PushedIndex
<1>5. \A i \in 0 .. n - 1 : h[i] \in Groups /\ ix[h[i]] = i /\ h[i] # g
  BY DEF Indexed
<1>6. \A i \in 0 .. n : jx[p[i]] = i
  BY <1>1, <1>3, <1>4, <1>5
<1>7. n + 1 <= NumGroups
  <2>1. \A i \in 0 .. (n + 1) - 1 : jx[p[i]] = i
    BY <1>1, <1>6
  <2>2. n + 1 \in Nat
    OBVIOUS
  <2> HIDE DEF Groups
  <2> QED
    BY ONLY <1>2, <2>1, <2>2, HeapFits
<1>8. jx \in [Groups -> -1 .. NumGroups - 1]
  BY <1>7, SizeFacts DEF PushedIndex
<1>9. \A k \in Groups : jx[k] # -1 => jx[k] \in 0 .. n /\ p[jx[k]] = k
  BY <1>1, <1>3, <1>4 DEF Indexed
<1>10. Indexed(p, jx, n + 1)
  BY <1>1, <1>6, <1>9 DEF Indexed
<1>11. ASSUME NEW j \in 1 .. (n + 1) - 1
       PROVE  Parent(j) # n /\ (j # n => InPlace(p, q, v, j))
  <2>1. j \in 0 .. n /\ Parent(j) \in 0 .. n /\ Parent(j) < j
    <3>1. n + 1 \in Nat
      OBVIOUS
    <3>2. j \in 0 .. (n + 1) - 1 /\ Parent(j) \in 0 .. (n + 1) - 1 /\ Parent(j) < j
      BY <3>1, ParentInHeap
    <3> QED
      BY <1>1, <3>2
  <2>2. ASSUME j # n PROVE InPlace(p, q, v, j)
    <3>1. j \in 0 .. n - 1 /\ j \in 1 .. n - 1 /\ Parent(j) \in 0 .. n - 1
      BY <2>1, <2>2
    <3>2. p[j] = h[j] /\ p[Parent(j)] = h[Parent(j)]
      BY <1>3, <3>1
    <3> QED
      BY <3>1, <3>2 DEF Ordered, InPlace
  <2> QED
    BY <2>1, <2>2
<1>12. ButAbove(p, n + 1, q, v, n)
  BY <1>11 DEF ButAbove, Bridged
<1> QED
  BY <1>2, <1>7, <1>8, <1>10, <1>12

LEMMA RekeyFacts ==
  ASSUME NEW n \in Nat, NEW q \in KeyRange, NEW v \in KeyRange, NEW r \in KeyRange, NEW w \in KeyRange,
         NEW h \in [0 .. n - 1 -> Groups], NEW i \in 0 .. n - 1, NEW ix, Indexed(h, ix, n),
         Ordered(h, n, q, v), \A k \in Groups : k # h[i] => r[k] = q[k] /\ w[k] = v[k]
  PROVE  ButAround(h, n, r, w, i)
<1>1. \A j \in 0 .. n - 1 : j # i => h[j] \in Groups /\ h[j] # h[i]
  BY DEF Indexed
<1>2. \A a, b \in Groups : a # h[i] /\ b # h[i] => (Before(r, w, a, b) <=> Before(q, v, a, b))
  BY DEF Before
<1>3. ASSUME NEW j \in 1 .. n - 1, j # i, Parent(j) # i
      PROVE  InPlace(h, r, w, j)
  <2>1. j \in 0 .. n - 1 /\ Parent(j) \in 0 .. n - 1
    BY ParentInHeap
  <2>2. ~Before(q, v, h[j], h[Parent(j)])
    BY DEF Ordered, InPlace
  <2> QED
    BY <1>1, <1>2, <1>3, <2>1, <2>2 DEF InPlace
<1>4. ASSUME i > 0, NEW j \in 1 .. n - 1, Parent(j) = i
      PROVE  ~Before(r, w, h[j], h[Parent(i)])
  <2>1. i \in 1 .. n - 1
    BY <1>4
  <2>2. j \in 0 .. n - 1 /\ Parent(j) < j /\ Parent(i) \in 0 .. n - 1 /\ Parent(i) < i
    BY <2>1, ParentInHeap
  <2>3. ~Before(q, v, h[j], h[i]) /\ ~Before(q, v, h[i], h[Parent(i)])
    BY <1>4, <2>1 DEF Ordered, InPlace
  <2>4. h[j] \in Groups /\ h[i] \in Groups /\ h[Parent(i)] \in Groups
    BY <2>2
  <2>5. ~Before(q, v, h[j], h[Parent(i)])
    BY <2>3, <2>4, BeforeOrders
  <2>6. h[j] # h[i] /\ h[Parent(i)] # h[i]
    BY <1>1, <1>4, <2>2
  <2> QED
    BY <1>2, <2>4, <2>5, <2>6
<1> QED
  BY <1>3, <1>4 DEF ButAround, Bridged

Refillable(p, jx, last, q, v, i) ==
  /\ last \in Nat /\ last <= NumGroups /\ i \in Nat
  /\ p \in [0 .. last - 1 -> Groups] /\ jx \in [Groups -> -1 .. NumGroups - 1]
  /\ Indexed(p, jx, last) /\ Refilled(p, last, q, v, i)

LEMMA TakeOutFacts ==
  ASSUME NEW n \in Nat, n <= NumGroups, NEW q \in KeyRange, NEW v \in KeyRange,
         NEW h \in [0 .. n - 1 -> Groups], NEW ix \in [Groups -> -1 .. NumGroups - 1],
         Indexed(h, ix, n), Ordered(h, n, q, v), NEW g \in Groups, ix[g] # -1
  PROVE  Refillable(TakenOut(h, n - 1, ix[g]), TakenOutIndex(ix, h[n - 1], ix[g], g),
                    n - 1, q, v, ix[g])
<1>0. PICK last, i, e, p, jx : /\ last = n - 1 /\ i = ix[g] /\ e = h[last]
                               /\ p = TakenOut(h, last, i) /\ jx = TakenOutIndex(ix, e, i, g)
  OBVIOUS
<1> SUFFICES Refillable(p, jx, last, q, v, i)
  BY <1>0
<1>1. i \in 0 .. n - 1 /\ h[i] = g
  BY <1>0 DEF Indexed
<1>2. last \in Nat /\ last \in 0 .. n - 1 /\ n - 1 = last
  BY <1>0, <1>1
<1>3. e \in Groups
  BY <1>0, <1>2
<1>4. ix[e] = last /\ (i # last => e # g) /\ (i = last => e = g)
  BY <1>0, <1>1, <1>2, <1>3 DEF Indexed
<1>5. /\ jx \in [Groups -> -1 .. NumGroups - 1] /\ jx[g] = -1 /\ (e # g => jx[e] = i)
      /\ \A k \in Groups : k # e /\ k # g => jx[k] = ix[k]
  <2>1. i \in -1 .. NumGroups - 1 /\ -1 \in -1 .. NumGroups - 1
    BY <1>1, SizeFacts
  <2> QED
    BY <1>0, <1>3, <2>1 DEF TakenOutIndex
<1>6. p \in [0 .. last - 1 -> Groups]
  BY <1>0, <1>2, <1>3 DEF TakenOut
<1>7. ASSUME NEW k \in 0 .. last - 1
      PROVE  /\ k \in 0 .. n - 1 /\ k # last /\ jx[p[k]] = k
             /\ k # i => p[k] = h[k]
  <2>1. k \in 0 .. n - 1 /\ k # last
    BY <1>2
  <2>2. k # i => p[k] = h[k] /\ h[k] \in Groups /\ ix[h[k]] = k /\ h[k] # g /\ h[k] # e
    BY <1>0, <1>1, <1>2, <1>4, <2>1 DEF Indexed, TakenOut
  <2>3. k = i => p[k] = e /\ e # g
    BY <1>0, <1>3, <1>4, <2>1 DEF TakenOut
  <2> QED
    BY <1>5, <2>1, <2>2, <2>3
<1>8. ASSUME NEW k \in Groups, jx[k] # -1
      PROVE  jx[k] \in 0 .. last - 1 /\ p[jx[k]] = k
  <2>1. k # g
    BY <1>5, <1>8
  <2>2. CASE k = e
    <3>1. jx[k] = i /\ i # last
      BY <1>4, <1>5, <2>1, <2>2
    <3>2. i \in 0 .. last - 1
      BY <1>1, <1>2, <3>1
    <3> QED
      BY <1>0, <1>3, <2>2, <3>1, <3>2 DEF TakenOut
  <2>3. CASE k # e
    <3>1. jx[k] = ix[k] /\ ix[k] \in 0 .. n - 1 /\ h[ix[k]] = k
      BY <1>5, <1>8, <2>1, <2>3 DEF Indexed
    <3>2. ix[k] # last /\ ix[k] # i
      BY <1>0, <1>1, <1>3, <2>1, <2>3, <3>1
    <3>3. ix[k] \in 0 .. last - 1
      BY <1>2, <3>1, <3>2
    <3> QED
      BY <1>7, <3>1, <3>2, <3>3
  <2> QED
    BY <2>2, <2>3
<1>9. Indexed(p, jx, last)
  BY <1>7, <1>8 DEF Indexed
<1>10. ASSUME NEW j \in 1 .. last - 1
       PROVE  /\ j \in 1 .. n - 1 /\ j \in 0 .. last - 1 /\ Parent(j) \in 0 .. last - 1
              /\ Parent(j) < j
  <2>1. last \in Nat
    BY <1>2
  <2>2. j \in 0 .. last - 1 /\ Parent(j) \in 0 .. last - 1 /\ Parent(j) < j
    BY ONLY <2>1, ParentInHeap
  <2>3. j \in 1 .. n - 1
    BY <1>2
  <2> QED
    BY <2>2, <2>3
<1>11. ASSUME NEW j \in 1 .. last - 1, j # i, Parent(j) # i
       PROVE  InPlace(p, q, v, j)
  <2>1. p[j] = h[j] /\ p[Parent(j)] = h[Parent(j)]
    BY <1>7, <1>10, <1>11
  <2> QED
    BY <1>10, <2>1 DEF Ordered, InPlace
<1>12. last \in Nat /\ last <= NumGroups /\ i \in Nat
  BY <1>1, <1>2, SizeFacts
<1>13. CASE i < last
  <2>1. ASSUME i > 0, NEW j \in 1 .. last - 1, Parent(j) = i
        PROVE  ~Before(q, v, p[j], p[Parent(i)])
    <3>1. i \in 1 .. n - 1 /\ i \in 1 .. last - 1
      BY <1>1, <1>2, <1>13, <2>1
    <3>2. j \in 1 .. n - 1 /\ j \in 0 .. last - 1 /\ j # i
      <4>1. /\ j \in 1 .. n - 1 /\ j \in 0 .. last - 1
            /\ Parent(j) \in 0 .. last - 1 /\ Parent(j) < j
        BY <1>10
      <4> QED
        BY <2>1, <4>1
    <3>6. Parent(i) \in 0 .. last - 1 /\ Parent(i) # i
      <4>1. Parent(i) \in 0 .. last - 1 /\ Parent(i) < i
        BY <1>10, <3>1
      <4> QED
        BY <4>1
    <3>3. ~Before(q, v, h[j], h[i]) /\ ~Before(q, v, h[i], h[Parent(i)])
      BY <2>1, <3>1, <3>2 DEF Ordered, InPlace
    <3>4. h[j] \in Groups /\ h[i] \in Groups /\ h[Parent(i)] \in Groups
      BY <1>7, <3>1, <3>2, <3>6
    <3>5. ~Before(q, v, h[j], h[Parent(i)])
      BY <3>3, <3>4, BeforeOrders
    <3> QED
      BY <1>7, <3>2, <3>5, <3>6
  <2>2. ButAround(p, last, q, v, i)
    BY <1>11, <2>1 DEF ButAround, Bridged
  <2>3. Refilled(p, last, q, v, i)
    BY <1>13, <2>2 DEF Refilled
  <2> QED
    BY ONLY <1>5, <1>6, <1>9, <1>12, <2>3 DEF Refillable
<1>14. CASE ~(i < last)
  <2>1. \A j \in 1 .. last - 1 : j # i /\ Parent(j) # i
    <3> SUFFICES ASSUME NEW j \in 1 .. last - 1
                 PROVE  j # i /\ Parent(j) # i
      OBVIOUS
    <3>1. j \in 0 .. last - 1 /\ Parent(j) \in 0 .. last - 1
      BY <1>10
    <3> QED
      BY <1>1, <1>2, <1>14, <3>1
  <2>2. Ordered(p, last, q, v)
    BY <1>11, <2>1 DEF Ordered
  <2>3. Refilled(p, last, q, v, i)
    BY <1>14, <2>2 DEF Refilled
  <2> QED
    BY ONLY <1>5, <1>6, <1>9, <1>12, <2>3 DEF Refillable
<1> QED
  BY <1>13, <1>14

-----------------------------------------------------------------------------
(* The inductive invariant is what the runs check, TypeOK and HeapOrdered, *)
(* here in terms of the operators the lemmas are about.                    *)
IsHeap(h, ix, n, q, v) ==
  /\ n \in Nat /\ n <= NumGroups /\ q \in KeyRange /\ v \in KeyRange
  /\ h \in [0 .. n - 1 -> Groups] /\ ix \in [Groups -> -1 .. NumGroups - 1]
  /\ Indexed(h, ix, n) /\ Ordered(h, n, q, v)
Bounded ==
  /\ heap_capacity \in Nat /\ heap_size <= heap_capacity
  /\ threads_queued \in [Groups -> 0 .. MaxQueued]
  /\ \A g \in Groups : spec_virt_time[g] <= MaxSvt[g]
IInv == IsHeap(heap, heap_index, heap_size, threads_queued, spec_virt_time) /\ Bounded

LEMMA InvMeans == IInv => TypeOK /\ HeapOrdered
BY DEF IInv, IsHeap, Bounded, TypeOK, HeapOrdered, HeapIndexed, Registered, Indexed, Ordered,
       InPlace, KeyRange

LEMMA AddKeeps ==
  ASSUME IInv, NEW g \in Groups, AddGroup(g)
  PROVE  IInv'
<1>1. PICK n, h, ix, q, v : /\ n = heap_size /\ h = heap /\ ix = heap_index
                            /\ q = threads_queued /\ v = spec_virt_time
  OBVIOUS
<1>2. /\ n \in Nat /\ n <= NumGroups /\ q \in KeyRange /\ v \in KeyRange
      /\ h \in [0 .. n - 1 -> Groups] /\ ix \in [Groups -> -1 .. NumGroups - 1]
      /\ Indexed(h, ix, n) /\ Ordered(h, n, q, v) /\ ix[g] = -1
  BY <1>1 DEF IInv, IsHeap, AddGroup, Registered
<1>3. PICK p, jx : p = Pushed(h, n, g) /\ jx = PushedIndex(ix, n, g)
  OBVIOUS
<1>4. /\ n + 1 <= NumGroups /\ n \in 0 .. (n + 1) - 1
      /\ p \in [0 .. (n + 1) - 1 -> Groups] /\ jx \in [Groups -> -1 .. NumGroups - 1]
      /\ Indexed(p, jx, n + 1) /\ ButAbove(p, n + 1, q, v, n)
  BY ONLY <1>2, <1>3, PushFacts
<1>5. PICK t : t = SiftUp(p, jx, n + 1, q, v, n)
  OBVIOUS
<1>6. n + 1 \in Nat
  BY <1>2
<1>7. /\ t \in Sifts(n + 1) /\ Indexed(t.h, t.ix, n + 1) /\ SameGroups(jx, t.ix)
      /\ Ordered(t.h, n + 1, q, v)
  BY ONLY <1>2, <1>4, <1>5, <1>6, SiftUpFixes
<1>8. /\ heap' = t.h /\ heap_index' = t.ix /\ heap_size' = n + 1
      /\ heap_capacity' = EnsuredCapacity /\ threads_queued' = q /\ spec_virt_time' = v
  BY <1>1, <1>3, <1>5 DEF AddGroup, HeapPush, keys, Pushed, PushedIndex
<1>9. IsHeap(t.h, t.ix, n + 1, q, v)
  BY <1>2, <1>4, <1>6, <1>7 DEF IsHeap, Sifts
<1>10. Bounded'
  <2>1. heap_capacity \in Nat /\ n <= heap_capacity
    BY <1>1 DEF IInv, Bounded
  <2>2. heap_capacity' \in Nat /\ n + 1 <= heap_capacity'
    BY <1>1, <1>2, <1>8, <2>1, SizeFacts DEF EnsuredCapacity
  <2> QED
    BY <1>1, <1>8, <2>2 DEF IInv, Bounded
<1> QED
  BY <1>8, <1>9, <1>10 DEF IInv

LEMMA DelKeeps ==
  ASSUME IInv, NEW g \in Groups, DelGroup(g)
  PROVE  IInv'
<1>1. PICK n, h, ix, q, v : /\ n = heap_size /\ h = heap /\ ix = heap_index
                            /\ q = threads_queued /\ v = spec_virt_time
  OBVIOUS
<1>2. /\ n \in Nat /\ n <= NumGroups /\ q \in KeyRange /\ v \in KeyRange
      /\ h \in [0 .. n - 1 -> Groups] /\ ix \in [Groups -> -1 .. NumGroups - 1]
      /\ Indexed(h, ix, n) /\ Ordered(h, n, q, v) /\ ix[g] # -1
  BY <1>1 DEF IInv, IsHeap, DelGroup, Registered
<1>3. PICK last, i : last = n - 1 /\ i = ix[g]
  OBVIOUS
<1>4. PICK p, jx : p = TakenOut(h, last, i) /\ jx = TakenOutIndex(ix, h[last], i, g)
  OBVIOUS
<1>5. /\ last \in Nat /\ last <= NumGroups /\ i \in Nat
      /\ p \in [0 .. last - 1 -> Groups] /\ jx \in [Groups -> -1 .. NumGroups - 1]
      /\ Indexed(p, jx, last) /\ Refilled(p, last, q, v, i)
  <2>1. Refillable(TakenOut(h, n - 1, ix[g]), TakenOutIndex(ix, h[n - 1], ix[g], g),
                   n - 1, q, v, ix[g])
    BY ONLY <1>2, TakeOutFacts
  <2>2. Refillable(p, jx, last, q, v, i)
    BY ONLY <1>3, <1>4, <2>1
  <2> QED
    BY ONLY <2>2 DEF Refillable
<1>6. PICK t : t = FixIndex(p, jx, last, q, v, i)
  OBVIOUS
<1>7. /\ t.h \in [0 .. last - 1 -> Groups] /\ t.ix \in [Groups -> -1 .. NumGroups - 1]
      /\ Indexed(t.h, t.ix, last) /\ SameGroups(jx, t.ix) /\ Ordered(t.h, last, q, v)
  BY ONLY <1>2, <1>5, <1>6, FixIndexFixes
<1>8. /\ heap' = t.h /\ heap_index' = t.ix /\ heap_size' = last
      /\ heap_capacity' = heap_capacity /\ threads_queued' = q /\ spec_virt_time' = v
  <2>1. h[i] = g
    BY <1>2, <1>3 DEF Indexed
  <2> QED
    BY <1>1, <1>3, <1>4, <1>6, <2>1 DEF DelGroup, HeapRemoveAt, keys, TakenOut, TakenOutIndex
<1>9. IsHeap(t.h, t.ix, last, q, v)
  BY <1>2, <1>5, <1>7 DEF IsHeap
<1>10. Bounded'
  <2>1. last <= heap_capacity
    BY <1>1, <1>2, <1>3 DEF IInv, Bounded
  <2> QED
    BY <1>1, <1>8, <2>1 DEF IInv, Bounded
<1> QED
  BY <1>8, <1>9, <1>10 DEF IInv

LEMMA RekeyKeeps ==
  ASSUME IInv, NEW g \in Groups, NEW r, NEW w, Rekey(g, r, w),
         r \in [Groups -> 0 .. MaxQueued], w \in KeyRange,
         \A k \in Groups : w[k] <= MaxSvt[k],
         \A k \in Groups : k # g => r[k] = threads_queued[k] /\ w[k] = spec_virt_time[k]
  PROVE  IInv'
<1>1. PICK n, h, ix, q, v : /\ n = heap_size /\ h = heap /\ ix = heap_index
                            /\ q = threads_queued /\ v = spec_virt_time
  OBVIOUS
<1>2. /\ n \in Nat /\ n <= NumGroups /\ q \in KeyRange /\ v \in KeyRange
      /\ h \in [0 .. n - 1 -> Groups] /\ ix \in [Groups -> -1 .. NumGroups - 1]
      /\ Indexed(h, ix, n) /\ Ordered(h, n, q, v) /\ ix[g] # -1
  BY <1>1 DEF IInv, IsHeap, Rekey, Registered
<1>3. PICK i : i = ix[g]
  OBVIOUS
<1>4. i \in 0 .. n - 1 /\ h[i] = g /\ i \in Nat /\ i < n
  BY <1>2, <1>3 DEF Indexed
<1>5. r \in KeyRange /\ w \in KeyRange
  BY DEF KeyRange
<1>6. \A k \in Groups : k # h[i] => r[k] = q[k] /\ w[k] = v[k]
  BY <1>1, <1>4
<1>7. ButAround(h, n, r, w, i)
  BY ONLY <1>2, <1>4, <1>5, <1>6, RekeyFacts
<1>8. PICK t : t = FixIndex(h, ix, n, r, w, i)
  OBVIOUS
<1>9. /\ t.h \in [0 .. n - 1 -> Groups] /\ t.ix \in [Groups -> -1 .. NumGroups - 1]
      /\ Indexed(t.h, t.ix, n) /\ SameGroups(ix, t.ix) /\ Ordered(t.h, n, r, w)
  <2>1. Refilled(h, n, r, w, i)
    BY <1>4, <1>7 DEF Refilled
  <2> QED
    BY ONLY <1>2, <1>4, <1>5, <1>8, <2>1, FixIndexFixes
<1>10. /\ heap' = t.h /\ heap_index' = t.ix /\ heap_size' = n
       /\ heap_capacity' = heap_capacity /\ threads_queued' = r /\ spec_virt_time' = w
  BY <1>1, <1>3, <1>8 DEF Rekey
<1>11. IsHeap(t.h, t.ix, n, r, w)
  BY <1>2, <1>5, <1>9 DEF IsHeap
<1>12. Bounded'
  BY <1>1, <1>10 DEF IInv, Bounded
<1> QED
  BY <1>10, <1>11, <1>12 DEF IInv

LEMMA InitHolds == ASSUME Init PROVE IInv
<1>1. heap_size = 0 /\ heap_capacity = 0 /\ heap_size \in Nat /\ heap_size <= NumGroups
  BY SizeFacts DEF Init
<1>2. heap \in [0 .. heap_size - 1 -> Groups]
  <2>1. <<>> \in Seq(Groups) /\ Len(<<>>) = 0
    BY EmptySeq
  <2>2. <<>> \in [1 .. 0 -> Groups]
    BY <2>1, LenProperties
  <2>3. 1 .. 0 = 0 .. 0 - 1
    OBVIOUS
  <2> QED
    BY <2>2, <2>3 DEF Init
<1>3. heap_index \in [Groups -> -1 .. NumGroups - 1]
  BY SizeFacts DEF Init
<1>4. Indexed(heap, heap_index, heap_size)
  <2>1. \A g \in Groups : heap_index[g] = -1
    BY DEF Init
  <2> QED
    BY <1>1, <2>1 DEF Indexed
<1>5. Ordered(heap, heap_size, threads_queued, spec_virt_time)
  BY <1>1 DEF Ordered
<1>6. /\ threads_queued \in [Groups -> 0 .. MaxQueued] /\ threads_queued \in KeyRange
      /\ spec_virt_time \in KeyRange /\ \A g \in Groups : spec_virt_time[g] <= MaxSvt[g]
  BY GroupHeapAssumption DEF Init, KeyRange
<1> QED
  BY <1>1, <1>2, <1>3, <1>4, <1>5, <1>6 DEF IInv, IsHeap, Bounded

LEMMA StepKeeps == ASSUME IInv, [Next]_vars PROVE IInv'
<1>1. CASE UNCHANGED vars
  BY <1>1 DEF vars, IInv, IsHeap, Bounded
<1>2. ASSUME NEW g \in Groups, NEW diff \in -MaxSvt[g] .. MaxSvt[g], UpdateGroupSvt(g, diff)
      PROVE  IInv'
  <2>1. PICK q, v, w : /\ q = threads_queued /\ v = spec_virt_time
                       /\ w = [v EXCEPT ![g] = v[g] + diff]
    OBVIOUS
  <2>2. Rekey(g, q, w) /\ v[g] + diff \in 0 .. MaxSvt[g]
    BY <1>2, <2>1 DEF UpdateGroupSvt
  <2>3. q \in [Groups -> 0 .. MaxQueued] /\ v \in KeyRange /\ \A k \in Groups : v[k] <= MaxSvt[k]
    BY <2>1 DEF IInv, IsHeap, Bounded
  <2>4. MaxSvt[g] \in Nat
    BY GroupHeapAssumption
  <2>5. w[g] = v[g] + diff /\ \A k \in Groups : k # g => w[k] = v[k]
    BY <2>1, <2>3 DEF KeyRange
  <2>6. w \in KeyRange
    BY <2>1, <2>2, <2>3, <2>4 DEF KeyRange
  <2>7. \A k \in Groups : w[k] <= MaxSvt[k]
    BY <2>2, <2>3, <2>4, <2>5
  <2>8. \A k \in Groups : k # g => q[k] = threads_queued[k] /\ w[k] = spec_virt_time[k]
    BY <2>1, <2>5
  <2> QED
    BY ONLY IInv, <2>2, <2>3, <2>6, <2>7, <2>8, RekeyKeeps
<1>3. ASSUME NEW g \in Groups, NEW n \in 0 .. MaxQueued, SetQueued(g, n)
      PROVE  IInv'
  <2>1. PICK q, v, r : q = threads_queued /\ v = spec_virt_time /\ r = [q EXCEPT ![g] = n]
    OBVIOUS
  <2>2. Rekey(g, r, v)
    BY <1>3, <2>1 DEF SetQueued
  <2>3. q \in [Groups -> 0 .. MaxQueued] /\ v \in KeyRange /\ \A k \in Groups : v[k] <= MaxSvt[k]
    BY <2>1 DEF IInv, IsHeap, Bounded
  <2>4. r \in [Groups -> 0 .. MaxQueued]
    BY <2>1, <2>3
  <2>5. \A k \in Groups : k # g => r[k] = threads_queued[k] /\ v[k] = spec_virt_time[k]
    BY <2>1, <2>3
  <2> QED
    BY ONLY IInv, <2>2, <2>3, <2>4, <2>5, RekeyKeeps
<1> QED
  BY <1>1, <1>2, <1>3, AddKeeps, DelKeeps DEF Next

(* No group of an ordered heap comes before the one at its root.           *)
LEMMA RootFirst ==
  ASSUME NEW n \in Nat, NEW q \in KeyRange, NEW v \in KeyRange, NEW h \in [0 .. n - 1 -> Groups],
         Ordered(h, n, q, v)
  PROVE  \A i \in 0 .. n - 1 : ~Before(q, v, h[i], h[0])
<1> DEFINE A == {m \in Nat : \A i \in 0 .. n - 1 : i <= m => ~Before(q, v, h[i], h[0])}
<1>1. 0 \in A
  <2>1. \A i \in 0 .. n - 1 : i <= 0 => i = 0 /\ h[0] \in Groups
    OBVIOUS
  <2> QED
    BY <2>1, BeforeOrders
<1>2. ASSUME NEW m \in Nat, m \in A
      PROVE  m + 1 \in A
  <2> SUFFICES ASSUME NEW i \in 0 .. n - 1, i = m + 1
               PROVE  ~Before(q, v, h[i], h[0])
    BY <1>2
  <2>1. i \in 1 .. n - 1
    OBVIOUS
  <2>2. Parent(i) \in 0 .. n - 1 /\ Parent(i) < i
    BY <2>1, ParentInHeap
  <2>3. ~Before(q, v, h[i], h[Parent(i)])
    BY <2>1 DEF Ordered, InPlace
  <2>4. ~Before(q, v, h[Parent(i)], h[0])
    BY <1>2, <2>2
  <2>5. h[i] \in Groups /\ h[Parent(i)] \in Groups /\ h[0] \in Groups
    BY <2>2
  <2> QED
    BY <2>3, <2>4, <2>5, BeforeOrders
<1> HIDE DEF A
<1>3. \A m \in Nat : m \in A
  BY <1>1, <1>2, NumberInduction
<1>4. \A i \in 0 .. n - 1 : i \in A
  BY <1>3
<1> QED
  BY <1>4 DEF A

LEMMA PeekRight == ASSUME IInv PROVE PeekIsMinimum
<1>1. PICK n, h, ix, q, v : /\ n = heap_size /\ h = heap /\ ix = heap_index
                            /\ q = threads_queued /\ v = spec_virt_time
  OBVIOUS
<1>2. /\ n \in Nat /\ q \in KeyRange /\ v \in KeyRange /\ h \in [0 .. n - 1 -> Groups]
      /\ Indexed(h, ix, n) /\ Ordered(h, n, q, v)
  BY <1>1 DEF IInv, IsHeap
<1> DEFINE ready == {g \in Groups : Registered(g) /\ threads_queued[g] > 0}
           first == {g \in ready : \A o \in ready \ {g} :
                       \/ spec_virt_time[g] < spec_virt_time[o]
                       \/ spec_virt_time[g] = spec_virt_time[o] /\ g < o}
<1>3. \A g \in Groups : q[g] \in Nat /\ v[g] \in Nat /\ g \in Int
  BY <1>2, SizeFacts DEF KeyRange, Groups
<1>4. \A g \in Groups : g \in ready <=> ix[g] # -1 /\ q[g] > 0
  BY <1>1 DEF Registered
<1>5. CASE n = 0
  <2>1. ready = {}
    BY <1>2, <1>4, <1>5 DEF Indexed
  <2>2. PeekMinGroup = None
    BY <1>1, <1>5 DEF PeekMinGroup
  <2> QED
    BY <2>1, <2>2 DEF PeekIsMinimum
<1>6. CASE n # 0
  <2>1. PICK r : r = h[0]
    OBVIOUS
  <2>2. 0 \in 0 .. n - 1
    BY <1>2, <1>6
  <2>3. r \in Groups /\ ix[r] = 0
    BY <1>2, <2>1, <2>2 DEF Indexed
  <2>4. ASSUME NEW g \in Groups, ix[g] # -1
        PROVE  ~Before(q, v, g, r)
    <3>1. ix[g] \in 0 .. n - 1 /\ h[ix[g]] = g
      BY <1>2, <2>4 DEF Indexed
    <3>2. \A i \in 0 .. n - 1 : ~Before(q, v, h[i], h[0])
      BY ONLY <1>2, RootFirst
    <3> QED
      BY <2>1, <3>1, <3>2
  <2>5. PeekMinGroup = IF q[r] = 0 THEN None ELSE r
    BY <1>1, <1>6, <2>1 DEF PeekMinGroup
  <2>6. CASE q[r] = 0
    <3>1. \A g \in Groups : ix[g] # -1 => q[g] = 0
      BY <2>4, <2>6 DEF Before
    <3>2. ready = {}
      BY <1>4, <3>1
    <3> QED
      BY <2>5, <2>6, <3>2 DEF PeekIsMinimum
  <2>7. CASE q[r] # 0
    <3>1. r \in ready
      BY <1>3, <1>4, <2>3, <2>7
    <3>2. \A g \in ready : g \in Groups /\ q[g] # 0 /\ (v[r] < v[g] \/ (v[r] = v[g] /\ r <= g))
      BY <1>3, <1>4, <2>3, <2>4, <2>7 DEF Before
    <3>3. \A g \in ready : g # r => v[r] < v[g] \/ (v[r] = v[g] /\ r < g)
      BY <1>3, <2>3, <3>2
    <3>4. r \in first
      BY <1>1, <3>1, <3>3
    <3>5. ASSUME NEW g \in first PROVE g = r
      <4> SUFFICES ASSUME g # r PROVE FALSE
        OBVIOUS
      <4>1. v[g] < v[r] \/ (v[g] = v[r] /\ g < r)
        BY <1>1, <3>1
      <4>2. v[r] < v[g] \/ (v[r] = v[g] /\ r < g)
        BY <3>3
      <4>3. g \in Groups
        OBVIOUS
      <4> QED
        BY <1>3, <2>3, <4>1, <4>2, <4>3
    <3>6. first = {r}
      BY <3>4, <3>5
    <3> HIDE DEF first, ready
    <3>7. first = {PeekMinGroup} /\ ready # {}
      BY <2>5, <2>7, <3>1, <3>6
    <3> QED
      BY <3>7 DEF PeekIsMinimum, first, ready
  <2> QED
    BY <2>6, <2>7
<1> QED
  BY <1>5, <1>6

-----------------------------------------------------------------------------
LEMMA InvHolds == Spec => []IInv
<1>1. IInv /\ [Next]_vars => IInv'
  BY StepKeeps
<1> QED
  BY InitHolds, <1>1, PTL DEF Spec

(* Every variable keeps its type, and gl_heap_ensure_capacity has always   *)
(* extended the allocation before gl_add_group pushes.                     *)
THEOREM TypeCorrect == Spec => []TypeOK
BY InvHolds, InvMeans, PTL

(* gl_add_group, gl_del_group and gl_heap_fix_index leave the indices in   *)
(* the groups right and no group before its parent.                        *)
THEOREM StaysOrdered == Spec => []HeapOrdered
BY InvHolds, InvMeans, PTL

(* What test-heap.c asserts after every change: gl_peek_min_group returns  *)
(* the non-empty registered group of least virtual time and then id, and   *)
(* NULL only when there is none.                                           *)
THEOREM PeeksLeast == Spec => []PeekIsMinimum
<1>1. IInv => PeekIsMinimum
  BY PeekRight
<1> QED
  BY InvHolds, <1>1, PTL
=============================================================================
