------------------------- MODULE DistrWeightProofs -------------------------
(***************************************************************************)
(* What holds of DistrWeight for any number of cores, any groups, weights  *)
(* and processes: every process is in one place and counted there, and the *)
(* division of the cores is max-min fair by weight.                        *)
(***************************************************************************)
EXTENDS DistrWeight, DataFacts

LEMMA Sizes ==
  /\ NumCores \in Nat /\ NumCores > 0 /\ Unit \in Nat /\ Unit > 0
  /\ IsFiniteSet(Groups) /\ \A g \in Groups : Weight[g] \in Nat /\ Weight[g] > 0
BY CoresAssumption, GroupsAssumption, UnitAssumption

LEMMA CoreFacts ==
  /\ IsFiniteSet(Cores) /\ Cores = 0 .. NumCores - 1
  /\ \A c \in Cores : c \in Nat /\ c + 1 \in 0 .. NumCores /\ c \in 0 .. NumCores
  /\ \A k \in 1 .. NumCores : k - 1 \in Cores
BY Sizes, FS_Interval DEF Cores

-----------------------------------------------------------------------------
(* The loop over the cores.                                                *)
Lefts == [Cores -> Int]
Shares == [Cores -> [Groups -> Int]]

(* Its state after the first k cores when a[c] is what core c gave.        *)
HasGiven(r, k, a, d, g, points) ==
  /\ r.points = points - SumOver(a, 0 .. k - 1)
  /\ r.left \in Lefts /\ r.share \in Shares
  /\ \A c \in Cores : r.left[c] = IF c < k THEN d.left[c] - a[c] ELSE d.left[c]
  /\ \A c \in Cores, h \in Groups :
       r.share[c][h] = IF c < k /\ h = g THEN d.share[c][h] + a[c] ELSE d.share[c][h]

Offer(points, d, c, first, wholeOnly) ==
  Amount([points |-> points, left |-> d.left, share |-> d.share], c, first, wholeOnly)

(* What each core gave: what it had to, given what those before it gave.   *)
Gives(a, d, points, first, wholeOnly) ==
  /\ a \in Lefts
  /\ \A c \in Cores : a[c] = Offer(points - SumOver(a, 0 .. c - 1), d, c, first, wholeOnly)

LEMMA PrefixSum ==
  ASSUME NEW a \in Lefts, NEW k \in 0 .. NumCores
  PROVE  /\ SumOver(a, 0 .. k - 1) \in Int
         /\ k \in Cores => SumOver(a, 0 .. (k + 1) - 1) = SumOver(a, 0 .. k - 1) + a[k]
<1>1. IsFiniteSet(0 .. k - 1) /\ \A c \in 0 .. k - 1 : c \in Cores /\ a[c] \in Int
  BY Sizes, FS_Interval DEF Cores, Lefts
<1>2. SumOver(a, 0 .. k - 1) \in Int
  BY <1>1, SumType
<1>3. ASSUME k \in Cores
      PROVE  SumOver(a, 0 .. (k + 1) - 1) = SumOver(a, 0 .. k - 1) + a[k]
  <2>1. 0 .. (k + 1) - 1 = (0 .. k - 1) \cup {k} /\ k \notin 0 .. k - 1 /\ a[k] \in Int
    BY <1>3 DEF Lefts
  <2>2. \A c \in (0 .. k - 1) \cup {k} : a[c] \in Int
    BY <1>1, <2>1
  <2>3. SumOver(a, (0 .. k - 1) \cup {k}) = a[k] + SumOver(a, 0 .. k - 1)
    BY <1>1, <2>1, <2>2, SumAdd
  <2>4. SumOver(a, 0 .. (k + 1) - 1) = a[k] + SumOver(a, 0 .. k - 1)
    BY <2>1, <2>3
  <2> QED
    BY <1>2, <2>1, <2>4
<1> QED
  BY <1>2, <1>3

Takings == [points : Int, left : Lefts, share : Shares]
NextTaken(r, c, g, first, wholeOnly) == Take(r, c, g, Amount(r, c, first, wholeOnly))

LEMMA AmountType ==
  ASSUME NEW r \in Takings, NEW c \in Cores, NEW first, NEW wholeOnly
  PROVE  Amount(r, c, first, wholeOnly) \in Int
BY DEF Amount, Takings, Lefts

Transfers(t, r, c, g, m) ==
  /\ t \in Takings /\ t.points = r.points - m
  /\ t.left[c] = r.left[c] - m /\ t.share[c][g] = r.share[c][g] + m
  /\ \A e \in Cores : e # c => t.left[e] = r.left[e]
  /\ \A e \in Cores, h \in Groups : e # c \/ h # g => t.share[e][h] = r.share[e][h]

LEMMA TakeFacts ==
  ASSUME NEW r \in Takings, NEW c \in Cores, NEW g \in Groups, NEW m \in Int
  PROVE  Transfers(Take(r, c, g, m), r, c, g, m)
<1>1. PICK l, s, t : l = r.left /\ s = r.share /\ t = Take(r, c, g, m)
  OBVIOUS
<1>2. r.points \in Int /\ l \in Lefts /\ s \in Shares
  BY <1>1 DEF Takings
<1>3. PICK l2, s2 : l2 = [l EXCEPT ![c] = l[c] - m] /\ s2 = [s EXCEPT ![c][g] = s[c][g] + m]
  OBVIOUS
<1>4. t = [points |-> r.points - m, left |-> l2, share |-> s2]
  BY <1>1, <1>3 DEF Take
<1>5. /\ l2 \in Lefts /\ l2[c] = l[c] - m /\ \A e \in Cores : e # c => l2[e] = l[e]
  BY <1>2, <1>3 DEF Lefts
<1>6. PICK row : row = [s[c] EXCEPT ![g] = s[c][g] + m]
  OBVIOUS
<1>7. /\ s[c] \in [Groups -> Int] /\ row \in [Groups -> Int] /\ row[g] = s[c][g] + m
      /\ \A h \in Groups : h # g => row[h] = s[c][h]
  BY <1>2, <1>6 DEF Shares
<1>8. s2 = [s EXCEPT ![c] = row]
  BY <1>3, <1>6
<1>9. s2 \in Shares /\ s2[c] = row /\ \A e \in Cores : e # c => s2[e] = s[e]
  BY <1>2, <1>7, <1>8 DEF Shares
<1>10. t \in Takings
  BY <1>2, <1>4, <1>5, <1>9 DEF Takings
<1>11. Transfers(t, r, c, g, m)
  BY <1>1, <1>4, <1>5, <1>7, <1>9, <1>10 DEF Transfers
<1> QED
  BY <1>1, <1>11

IsAssignRun(f, d, g, points, first, wholeOnly) ==
  f = [c \in 0 .. NumCores |->
         IF c = 0 THEN [points |-> points, left |-> d.left, share |-> d.share]
         ELSE NextTaken(f[c - 1], c - 1, g, first, wholeOnly)]

LEMMA AssignRuns ==
  ASSUME NEW d, d.left \in Lefts, d.share \in Shares, NEW g \in Groups, NEW points \in Int,
         NEW first, NEW wholeOnly
  PROVE  /\ \E f : /\ IsAssignRun(f, d, g, points, first, wholeOnly)
                   /\ Assign(d, g, points, first, wholeOnly) = f[NumCores]
         /\ \A f : IsAssignRun(f, d, g, points, first, wholeOnly) =>
                     \A k \in 0 .. NumCores : f[k] \in Takings
<1> DEFINE x == [points |-> points, left |-> d.left, share |-> d.share]
<1>1. x \in Takings
  BY DEF Takings
<1>2. PICK y \in Takings : y = x
  BY <1>1
<1>3. ASSUME NEW r \in Takings, NEW c \in Cores
      PROVE  NextTaken(r, c, g, first, wholeOnly) \in Takings
  <2>1. PICK m \in Int : m = Amount(r, c, first, wholeOnly)
    BY AmountType
  <2> QED
    BY <2>1, TakeFacts DEF NextTaken, Transfers
<1>4. PICK G : G = [k \in 1 .. NumCores |-> [r \in Takings |-> NextTaken(r, k - 1, g, first, wholeOnly)]]
  OBVIOUS
<1>5. G \in [1 .. NumCores -> [Takings -> Takings]]
  <2>1. \A k \in 1 .. NumCores :
          [r \in Takings |-> NextTaken(r, k - 1, g, first, wholeOnly)] \in [Takings -> Takings]
    BY <1>3, CoreFacts
  <2> QED
    BY <1>4, <2>1
<1>6. PICK f \in [0 .. NumCores -> Takings] :
        f[0] = y /\ \A k \in 1 .. NumCores : f[k] = G[k][f[k - 1]]
  BY <1>5, Sizes, RecursionExists
<1>7. IsAssignRun(f, d, g, points, first, wholeOnly)
  <2>1. \A k \in 0 .. NumCores : k # 0 => k \in 1 .. NumCores /\ k - 1 \in 0 .. NumCores
    BY Sizes
  <2>2. \A k \in 1 .. NumCores : G[k][f[k - 1]] = NextTaken(f[k - 1], k - 1, g, first, wholeOnly)
    BY <1>4, <1>6, <2>1
  <2>3. \A k \in 0 .. NumCores :
          f[k] = IF k = 0 THEN y ELSE NextTaken(f[k - 1], k - 1, g, first, wholeOnly)
    BY <1>6, <2>1, <2>2
  <2>4. f = [k \in 0 .. NumCores |->
               IF k = 0 THEN y ELSE NextTaken(f[k - 1], k - 1, g, first, wholeOnly)]
    BY <1>6, <2>3
  <2> QED
    BY <1>2, <2>4 DEF IsAssignRun
<1>8. PICK e : /\ IsAssignRun(e, d, g, points, first, wholeOnly)
               /\ Assign(d, g, points, first, wholeOnly) = e[NumCores]
  <2> DEFINE e == CHOOSE e : IsAssignRun(e, d, g, points, first, wholeOnly)
  <2>1. IsAssignRun(e, d, g, points, first, wholeOnly)
    BY <1>7
  <2>2. Assign(d, g, points, first, wholeOnly) = e[NumCores]
    BY DEF Assign, IsAssignRun, NextTaken
  <2> QED
    BY <2>1, <2>2
<1>9. ASSUME NEW h, IsAssignRun(h, d, g, points, first, wholeOnly), NEW k \in 0 .. NumCores
      PROVE  h[k] \in Takings
  <2> DEFINE A == {m \in Nat : m <= NumCores => h[m] \in Takings}
  <2>1. 0 \in A
    BY <1>1, <1>9, Sizes DEF IsAssignRun
  <2>2. ASSUME NEW m \in Nat, m \in A
        PROVE  m + 1 \in A
    <3> SUFFICES ASSUME m + 1 <= NumCores PROVE h[m + 1] \in Takings
      OBVIOUS
    <3>1. m \in Cores /\ m + 1 \in 0 .. NumCores /\ m + 1 # 0 /\ (m + 1) - 1 = m
      BY Sizes DEF Cores
    <3>2. h[m + 1] = NextTaken(h[m], m, g, first, wholeOnly)
      BY <1>9, <3>1 DEF IsAssignRun
    <3>3. h[m] \in Takings
      BY <2>2, Sizes
    <3> QED
      BY <1>3, <3>1, <3>2, <3>3
  <2> HIDE DEF A
  <2>3. \A m \in Nat : m \in A
    BY <2>1, <2>2, NumberInduction
  <2>4. k \in A
    BY <2>3
  <2> QED
    BY <2>4 DEF A
<1> QED
  BY <1>8, <1>9

Assigned(t, d, g, points, first, wholeOnly) ==
  \E a : Gives(a, d, points, first, wholeOnly) /\ HasGiven(t, NumCores, a, d, g, points)

LEMMA AssignGives ==
  ASSUME NEW d, d.left \in Lefts, d.share \in Shares, NEW g \in Groups, NEW points \in Int,
         NEW first, NEW wholeOnly, NEW t, t = Assign(d, g, points, first, wholeOnly)
  PROVE  Assigned(t, d, g, points, first, wholeOnly)
<1>1. PICK f : IsAssignRun(f, d, g, points, first, wholeOnly) /\ t = f[NumCores]
  BY AssignRuns
<1>2. \A k \in 0 .. NumCores : f[k] \in Takings
  BY <1>1, AssignRuns
<1>3. PICK a : a = [c \in Cores |-> Amount(f[c], c, first, wholeOnly)]
  OBVIOUS
<1>4. a \in Lefts
  <2>1. \A c \in Cores : Amount(f[c], c, first, wholeOnly) \in Int
    BY <1>2, CoreFacts, AmountType
  <2> QED
    BY <1>3, <2>1 DEF Lefts
<1>5. ASSUME NEW k \in Cores, HasGiven(f[k], k, a, d, g, points)
      PROVE  a[k] = Offer(points - SumOver(a, 0 .. k - 1), d, k, first, wholeOnly)
  <2>1. f[k].points = points - SumOver(a, 0 .. k - 1) /\ f[k].left[k] = d.left[k]
    BY <1>5, CoreFacts DEF HasGiven
  <2> QED
    BY <1>3, <2>1 DEF Offer, Amount, Passed
<1> DEFINE A == {k \in Nat : k <= NumCores => HasGiven(f[k], k, a, d, g, points)}
<1>6. 0 \in A
  <2>1. f[0] = [points |-> points, left |-> d.left, share |-> d.share]
    BY <1>1, Sizes DEF IsAssignRun
  <2>2. 0 .. 0 - 1 = {}
    OBVIOUS
  <2>3. SumOver(a, 0 .. 0 - 1) = 0
    BY <2>2, SumEmpty
  <2>4. \A c \in Cores : ~(c < 0)
    BY CoreFacts
  <2> QED
    BY <2>1, <2>3, <2>4 DEF HasGiven
<1>7. ASSUME NEW k \in Nat, k \in A
      PROVE  k + 1 \in A
  <2> SUFFICES ASSUME k + 1 <= NumCores PROVE HasGiven(f[k + 1], k + 1, a, d, g, points)
    OBVIOUS
  <2>1. k \in Cores /\ k \in 0 .. NumCores /\ k + 1 \in 0 .. NumCores /\ k + 1 # 0 /\ (k + 1) - 1 = k
    BY Sizes DEF Cores
  <2>2. HasGiven(f[k], k, a, d, g, points)
    BY <1>7, <2>1
  <2>3. PICK r, m, s : r = f[k] /\ m = a[k] /\ s = f[k + 1]
    OBVIOUS
  <2>4. r \in Takings /\ m \in Int
    BY <1>2, <1>4, <2>1, <2>3 DEF Lefts
  <2>5. s = Take(r, k, g, m)
    <3>1. f[k + 1] = NextTaken(f[k], k, g, first, wholeOnly)
      BY <1>1, <2>1 DEF IsAssignRun
    <3> QED
      BY <1>3, <2>1, <2>3, <3>1 DEF NextTaken
  <2>6. /\ s \in Takings /\ s.points = r.points - m
        /\ s.left[k] = r.left[k] - m /\ s.share[k][g] = r.share[k][g] + m
        /\ \A e \in Cores : e # k => s.left[e] = r.left[e]
        /\ \A e \in Cores, h \in Groups : e # k \/ h # g => s.share[e][h] = r.share[e][h]
    <3>1. Transfers(s, r, k, g, m)
      BY <2>1, <2>4, <2>5, TakeFacts
    <3> QED
      BY <3>1 DEF Transfers
  <2>7. s.points = points - SumOver(a, 0 .. (k + 1) - 1)
    <3>1. SumOver(a, 0 .. (k + 1) - 1) = SumOver(a, 0 .. k - 1) + m /\ SumOver(a, 0 .. k - 1) \in Int
      BY <1>4, <2>1, <2>3, PrefixSum
    <3>2. r.points = points - SumOver(a, 0 .. k - 1)
      BY <2>2, <2>3 DEF HasGiven
    <3> QED
      BY <2>4, <2>6, <3>1, <3>2
  <2>8. \A c \in Cores : c < k + 1 <=> c < k \/ c = k
    BY CoreFacts
  <2>9. ASSUME NEW c \in Cores
        PROVE  /\ s.left[c] = IF c < k + 1 THEN d.left[c] - a[c] ELSE d.left[c]
               /\ \A h \in Groups : s.share[c][h] =
                    IF c < k + 1 /\ h = g THEN d.share[c][h] + a[c] ELSE d.share[c][h]
    <3>1. /\ r.left[c] = IF c < k THEN d.left[c] - a[c] ELSE d.left[c]
          /\ \A h \in Groups : r.share[c][h] =
               IF c < k /\ h = g THEN d.share[c][h] + a[c] ELSE d.share[c][h]
      BY <2>2, <2>3 DEF HasGiven
    <3>2. CASE c = k
      <4>1. ~(c < k) /\ c < k + 1
        BY <3>2
      <4> QED
        BY <2>3, <2>6, <3>1, <3>2, <4>1
    <3>3. CASE c # k
      BY <2>6, <2>8, <3>1, <3>3
    <3> QED
      BY <3>2, <3>3
  <2> QED
    BY <2>3, <2>6, <2>7, <2>9 DEF HasGiven, Takings
<1>8. \A k \in 0 .. NumCores : HasGiven(f[k], k, a, d, g, points)
  <2> HIDE DEF A
  <2>1. \A k \in Nat : k \in A
    BY <1>6, <1>7, NumberInduction
  <2>2. \A k \in 0 .. NumCores : k \in A
    BY <2>1
  <2> QED
    BY <2>2 DEF A
<1>9. Gives(a, d, points, first, wholeOnly)
  <2>1. \A c \in Cores : a[c] = Offer(points - SumOver(a, 0 .. c - 1), d, c, first, wholeOnly)
    BY <1>5, <1>8, CoreFacts
  <2> QED
    BY <1>4, <2>1 DEF Gives
<1> QED
  BY <1>1, <1>8, <1>9, Sizes DEF Assigned

-----------------------------------------------------------------------------
(* What the loop at 358 gives: whole cores, one after another.             *)
LEMMA GivesWhole ==
  ASSUME NEW d, NEW first \in Nat, NEW m \in Nat, first + m <= NumCores,
         \A c \in Cores : c >= first => d.left[c] = Unit,
         NEW a, Gives(a, d, m * Unit, first, TRUE)
  PROVE  /\ \A c \in Cores : a[c] = IF first <= c /\ c < first + m THEN Unit ELSE 0
         /\ SumOver(a, 0 .. NumCores - 1) = m * Unit
<1> DEFINE Given(k) == IF k <= first THEN 0 ELSE IF k <= first + m THEN k - first ELSE m
           A == {k \in Nat : k <= NumCores => SumOver(a, 0 .. k - 1) = Given(k) * Unit}
<1>1. a \in Lefts /\ \A c \in Cores : a[c] = Offer(m * Unit - SumOver(a, 0 .. c - 1), d, c, first, TRUE)
  BY DEF Gives
<1>2. ASSUME NEW k \in Cores, SumOver(a, 0 .. k - 1) = Given(k) * Unit
      PROVE  a[k] = IF first <= k /\ k < first + m THEN Unit ELSE 0
  <2>1. PICK rest : rest = m * Unit - Given(k) * Unit
    OBVIOUS
  <2>2. a[k] = Offer(rest, d, k, first, TRUE)
    BY <1>1, <1>2, <2>1
  <2>3. a[k] = IF k < first \/ d.left[k] # Unit THEN 0
               ELSE IF rest < d.left[k] THEN rest ELSE d.left[k]
    BY <2>2 DEF Offer, Amount, Passed
  <2>4. k \in Nat
    BY CoreFacts
  <2>5. CASE k < first
    BY <2>3, <2>4, <2>5
  <2>6. CASE first <= k /\ k < first + m
    <3>1. PICK j \in Nat : j = m - Given(k) /\ j >= 1
      BY <2>4, <2>6
    <3>2. Given(k) \in Nat
      BY <2>4
    <3> HIDE DEF Given
    <3>3. rest = j * Unit /\ j * Unit >= Unit
      <4>1. PICK v \in Nat, i \in Nat, u \in Nat : v = Given(k) /\ i = j - 1 /\ u = Unit
        BY <3>1, <3>2, Sizes
      <4>2. m = j + v /\ (j + v) * u = j * u + v * u
        BY <3>1, <4>1
      <4>3. j * u = i * u + u /\ i * u \in Nat
        BY <4>1
      <4>4. rest = m * u - v * u
        BY <2>1, <4>1
      <4>5. rest = j * u /\ j * u >= u
        BY <4>2, <4>3, <4>4
      <4> QED
        BY <4>1, <4>5
    <3>4. d.left[k] = Unit /\ ~(k < first)
      BY <2>4, <2>6
    <3> QED
      BY <2>3, <2>6, <3>3, <3>4, Sizes
  <2>7. CASE first + m <= k
    <3>1. Given(k) = m
      BY <2>4, <2>7
    <3>2. rest = 0
      BY <2>1, <3>1, Sizes
    <3>3. d.left[k] = Unit /\ ~(k < first + m)
      BY <2>4, <2>7
    <3> QED
      BY <2>3, <2>4, <3>2, <3>3, Sizes
  <2> QED
    BY <2>4, <2>5, <2>6, <2>7
<1>3. 0 \in A
  <2>1. 0 .. 0 - 1 = {}
    OBVIOUS
  <2>2. SumOver(a, 0 .. 0 - 1) = 0
    BY <2>1, SumEmpty
  <2>3. Given(0) = 0
    OBVIOUS
  <2> HIDE DEF Given
  <2> QED
    BY <2>2, <2>3, Sizes
<1>4. ASSUME NEW k \in Nat, k \in A
      PROVE  k + 1 \in A
  <2> SUFFICES ASSUME k + 1 <= NumCores PROVE SumOver(a, 0 .. (k + 1) - 1) = Given(k + 1) * Unit
    OBVIOUS
  <2>1. k \in Cores /\ k \in 0 .. NumCores
    BY Sizes DEF Cores
  <2>2. SumOver(a, 0 .. k - 1) = Given(k) * Unit
    BY <1>4, <2>1
  <2>3. a[k] = IF first <= k /\ k < first + m THEN Unit ELSE 0
    BY <1>2, <2>1, <2>2
  <2>4. SumOver(a, 0 .. (k + 1) - 1) = SumOver(a, 0 .. k - 1) + a[k]
    BY <1>1, <2>1, PrefixSum
  <2>5. CASE first <= k /\ k < first + m
    <3>1. Given(k + 1) = Given(k) + 1 /\ Given(k) \in Nat
      BY <2>5
    <3> HIDE DEF Given
    <3>2. (Given(k) + 1) * Unit = Given(k) * Unit + Unit
      BY <3>1, Sizes
    <3> QED
      BY <2>2, <2>3, <2>4, <2>5, <3>1, <3>2
  <2>6. CASE ~(first <= k /\ k < first + m)
    <3>1. Given(k + 1) = Given(k) /\ Given(k) \in Nat
      BY <2>6
    <3> HIDE DEF Given
    <3>2. Given(k) * Unit \in Int
      BY <3>1, Sizes
    <3> QED
      BY <2>2, <2>3, <2>4, <2>6, <3>1, <3>2
  <2> QED
    BY <2>5, <2>6
<1>5. \A k \in Nat : k \in A
  <2> HIDE DEF A
  <2> QED
    BY <1>3, <1>4, NumberInduction
<1>6. \A k \in 0 .. NumCores : SumOver(a, 0 .. k - 1) = Given(k) * Unit
  BY <1>5
<1>7. Given(NumCores) = m
  BY Sizes
<1> HIDE DEF Given, A
<1>8. \A c \in Cores : a[c] = IF first <= c /\ c < first + m THEN Unit ELSE 0
  BY <1>2, <1>6, CoreFacts
<1>9. NumCores \in 0 .. NumCores
  BY Sizes
<1> QED
  BY <1>6, <1>7, <1>8, <1>9

(* What the loop at 387 gives: all that there is, until it is enough.      *)
LEMMA GivesShares ==
  ASSUME NEW d, NEW first \in Nat, NEW points \in Nat, d.left \in Lefts,
         \A c \in Cores : d.left[c] >= 0 /\ (c < first => d.left[c] = 0),
         points <= SumOver(d.left, Cores),
         NEW a, Gives(a, d, points, first, FALSE)
  PROVE  /\ \A c \in Cores : a[c] \in Nat /\ a[c] <= d.left[c] /\ (c < first => a[c] = 0)
         /\ SumOver(a, 0 .. NumCores - 1) = points
<1> DEFINE Rest(k) == points - SumOver(a, 0 .. k - 1)
           Good(k) == /\ Rest(k) \in Nat
                      /\ Rest(k) = 0 \/ \A c \in Cores : first <= c /\ c < k => a[c] = d.left[c]
           A == {k \in Nat : k <= NumCores => Good(k)}
<1>1. a \in Lefts /\ \A c \in Cores : a[c] = Offer(points - SumOver(a, 0 .. c - 1), d, c, first, FALSE)
  BY DEF Gives
<1>2. ASSUME NEW k \in Cores, Good(k)
      PROVE  /\ a[k] \in Nat /\ a[k] <= d.left[k] /\ (k < first => a[k] = 0)
             /\ Rest(k) - a[k] \in Nat
             /\ k >= first => Rest(k) - a[k] = 0 \/ a[k] = d.left[k]
  <2>1. PICK rest \in Nat : rest = Rest(k)
    BY <1>2
  <2>2. a[k] = Offer(rest, d, k, first, FALSE)
    BY <1>1, <2>1
  <2>3. a[k] = IF k < first THEN 0 ELSE IF rest < d.left[k] THEN rest ELSE d.left[k]
    BY <2>2 DEF Offer, Amount, Passed
  <2>4. k \in Nat /\ d.left[k] \in Int /\ d.left[k] >= 0
    BY CoreFacts DEF Lefts
  <2>5. PICK l, x : l = d.left[k] /\ x = a[k] /\ l \in Nat
    BY <2>4
  <2>6. x = IF k < first THEN 0 ELSE IF rest < l THEN rest ELSE l
    BY <2>3, <2>5
  <2>7. /\ x \in Nat /\ x <= l /\ (k < first => x = 0) /\ rest - x \in Nat
        /\ k >= first => rest - x = 0 \/ x = l
    BY ONLY <2>4, <2>5, <2>6
  <2> HIDE DEF Rest
  <2> QED
    BY <2>1, <2>5, <2>7
<1>3. 0 \in A
  <2>1. 0 .. 0 - 1 = {}
    OBVIOUS
  <2>2. SumOver(a, 0 .. 0 - 1) = 0
    BY <2>1, SumEmpty
  <2> QED
    BY <2>2, CoreFacts
<1>4. ASSUME NEW k \in Nat, k \in A
      PROVE  k + 1 \in A
  <2> SUFFICES ASSUME k + 1 <= NumCores PROVE Good(k + 1)
    OBVIOUS
  <2>1. k \in Cores /\ k \in 0 .. NumCores
    BY Sizes DEF Cores
  <2>2. Good(k)
    BY <1>4, <2>1
  <2>3. /\ a[k] \in Nat /\ Rest(k) - a[k] \in Nat
        /\ k >= first => Rest(k) - a[k] = 0 \/ a[k] = d.left[k]
        /\ k < first => a[k] = 0
    BY <1>2, <2>1, <2>2
  <2>4. Rest(k + 1) = Rest(k) - a[k]
    <3>1. SumOver(a, 0 .. (k + 1) - 1) = SumOver(a, 0 .. k - 1) + a[k] /\ SumOver(a, 0 .. k - 1) \in Int
      BY <1>1, <2>1, PrefixSum
    <3>2. PICK s1 \in Int : s1 = SumOver(a, 0 .. k - 1)
      BY <3>1
    <3>3. PICK x \in Nat : x = a[k]
      BY <2>3
    <3>4. SumOver(a, 0 .. (k + 1) - 1) = s1 + x
      BY <3>1, <3>2, <3>3
    <3>5. points - (s1 + x) = points - s1 - x
      OBVIOUS
    <3> QED
      BY <3>2, <3>3, <3>4, <3>5
  <2>5. \A c \in Cores : c < k + 1 <=> c < k \/ c = k
    BY CoreFacts
  <2>6. Rest(k) \in Nat /\ (Rest(k) = 0 \/ \A c \in Cores : first <= c /\ c < k => a[c] = d.left[c])
    BY <2>2
  <2> HIDE DEF Rest
  <2>7. Rest(k + 1) = 0 \/ \A c \in Cores : first <= c /\ c < k + 1 => a[c] = d.left[c]
    <3>1. CASE k < first
      <4>1. \A c \in Cores : ~(first <= c /\ c < k + 1)
        BY <3>1, CoreFacts
      <4> QED
        BY <4>1
    <3>2. CASE k >= first /\ Rest(k) = 0
      BY <2>3, <2>4, <2>6, <3>2
    <3>3. CASE k >= first /\ Rest(k) # 0
      BY <2>3, <2>4, <2>5, <2>6, <3>3
    <3> QED
      BY <3>1, <3>2, <3>3
  <2> QED
    BY <2>3, <2>4, <2>7
<1>5. \A k \in 0 .. NumCores : Good(k)
  <2>1. \A k \in Nat : k \in A
    <3> HIDE DEF A
    <3> QED
      BY <1>3, <1>4, NumberInduction
  <2> QED
    BY <2>1
<1>6. \A c \in Cores : a[c] \in Nat /\ a[c] <= d.left[c] /\ (c < first => a[c] = 0)
  <2> HIDE DEF Good, A, Rest
  <2> QED
    BY <1>2, <1>5, CoreFacts
<1>7. NumCores \in 0 .. NumCores /\ Cores = 0 .. NumCores - 1 /\ IsFiniteSet(Cores)
  BY Sizes, CoreFacts
<1>8. Rest(NumCores) = 0
  <2> SUFFICES ASSUME Rest(NumCores) # 0 PROVE FALSE
    OBVIOUS
  <2>1. \A c \in Cores : a[c] = d.left[c]
    <3>1. \A c \in Cores : c < first \/ (first <= c /\ c < NumCores)
      BY Sizes DEF Cores
    <3>2. Good(NumCores)
      BY <1>5, <1>7
    <3> QED
      BY <1>6, <3>1, <3>2
  <2>2. SumOver(a, Cores) = SumOver(d.left, Cores)
    BY <1>7, <2>1, SumSame
  <2>3. SumOver(a, Cores) \in Nat
    BY <1>6, <1>7, SumNat
  <2>4. points <= SumOver(a, 0 .. NumCores - 1) /\ SumOver(a, 0 .. NumCores - 1) \in Nat
    BY <1>7, <2>2, <2>3
  <2>5. Rest(NumCores) \in Nat
    BY <1>5, <1>7
  <2> QED
    BY <2>4, <2>5
<1>9. SumOver(a, 0 .. NumCores - 1) \in Int
  BY <1>1, <1>7, PrefixSum
<1> QED
  BY <1>6, <1>8, <1>9

-----------------------------------------------------------------------------
(* What a group has of all cores, what has been given of a core and what   *)
(* has been given in all.                                                  *)
Column(s, g) == [c \in Cores |-> s[c][g]]
GroupHas(s, g) == SumOver(Column(s, g), Cores)
HasOf(s) == [g \in Groups |-> GroupHas(s, g)]
AllGiven(s) == SumOver(HasOf(s), Groups)
CoreGave(s, c) == SumOver(s[c], Groups)

LEMMA SumsAreInts ==
  ASSUME NEW s \in Shares
  PROVE  /\ \A g \in Groups : GroupHas(s, g) \in Int
         /\ AllGiven(s) \in Int
         /\ \A c \in Cores : CoreGave(s, c) \in Int
<1>1. ASSUME NEW g \in Groups PROVE GroupHas(s, g) \in Int
  <2>1. \A c \in Cores : Column(s, g)[c] \in Int
    BY DEF Column, Shares
  <2> QED
    BY <2>1, CoreFacts, SumType DEF GroupHas
<1>2. ASSUME NEW c \in Cores PROVE CoreGave(s, c) \in Int
  <2>1. \A g \in Groups : s[c][g] \in Int
    BY DEF Shares
  <2> QED
    BY <2>1, Sizes, SumType DEF CoreGave
<1>3. AllGiven(s) \in Int
  <2>1. \A g \in Groups : HasOf(s)[g] \in Int
    BY <1>1 DEF HasOf
  <2> QED
    BY <2>1, Sizes, SumType DEF AllGiven
<1> QED
  BY <1>1, <1>2, <1>3

SumsGrow(s, t, a, g, m) ==
  /\ GroupHas(t, g) = GroupHas(s, g) + m
  /\ \A h \in Groups : h # g => GroupHas(t, h) = GroupHas(s, h)
  /\ AllGiven(t) = AllGiven(s) + m
  /\ \A c \in Cores : CoreGave(t, c) = CoreGave(s, c) + a[c]

LEMMA GivenSums ==
  ASSUME NEW s \in Shares, NEW t \in Shares, NEW a \in Lefts, NEW g \in Groups,
         \A c \in Cores, h \in Groups : t[c][h] = IF h = g THEN s[c][h] + a[c] ELSE s[c][h],
         NEW m, m = SumOver(a, Cores)
  PROVE  SumsGrow(s, t, a, g, m)
<1>1. GroupHas(t, g) = GroupHas(s, g) + m
  <2>1. PICK x, y : x = Column(s, g) /\ y = Column(t, g)
    OBVIOUS
  <2>2. \A c \in Cores : x[c] \in Int /\ a[c] \in Int /\ y[c] = x[c] + a[c]
    BY <2>1 DEF Column, Shares, Lefts
  <2>3. SumOver(y, Cores) = SumOver(x, Cores) + SumOver(a, Cores)
    <3>1. IsFiniteSet(Cores)
      BY CoreFacts
    <3> QED
      BY ONLY <2>2, <3>1, SumPlus
  <2> QED
    BY <2>1, <2>3 DEF GroupHas
<1>2. ASSUME NEW h \in Groups, h # g PROVE GroupHas(t, h) = GroupHas(s, h)
  <2>1. PICK x, y : x = Column(s, h) /\ y = Column(t, h)
    OBVIOUS
  <2>2. \A c \in Cores : y[c] = x[c]
    BY <1>2, <2>1 DEF Column
  <2>3. SumOver(y, Cores) = SumOver(x, Cores)
    BY ONLY <2>2, CoreFacts, SumSame
  <2> QED
    BY <2>1, <2>3 DEF GroupHas
<1>3. AllGiven(t) = AllGiven(s) + m
  <2>1. PICK x, y : x = HasOf(s) /\ y = HasOf(t)
    OBVIOUS
  <2>2. /\ \A h \in Groups : x[h] \in Int /\ y[h] \in Int
        /\ x[g] = GroupHas(s, g) /\ y[g] = GroupHas(t, g)
    BY <2>1, SumsAreInts DEF HasOf
  <2>3. \A h \in Groups \ {g} : y[h] = x[h]
    BY <1>2, <2>1 DEF HasOf
  <2>4. SumOver(y, Groups) = SumOver(x, Groups) - x[g] + y[g]
    BY ONLY <2>2, <2>3, Sizes, SumChange
  <2>5. SumOver(x, Groups) \in Int /\ m \in Int
    <3>1. \A c \in Cores : a[c] \in Int
      BY DEF Lefts
    <3> QED
      BY <2>2, <3>1, Sizes, CoreFacts, SumType
  <2>6. SumOver(y, Groups) = SumOver(x, Groups) + m
    BY <1>1, <2>2, <2>4, <2>5
  <2> QED
    BY <2>1, <2>6 DEF AllGiven
<1>4. ASSUME NEW c \in Cores PROVE CoreGave(t, c) = CoreGave(s, c) + a[c]
  <2>1. PICK x, y : x = s[c] /\ y = t[c]
    OBVIOUS
  <2>2. /\ \A h \in Groups : x[h] \in Int /\ y[h] \in Int
        /\ \A h \in Groups \ {g} : y[h] = x[h]
        /\ y[g] = x[g] + a[c] /\ a[c] \in Int
    BY <2>1 DEF Shares, Lefts
  <2>3. SumOver(y, Groups) = SumOver(x, Groups) - x[g] + y[g]
    BY ONLY <2>2, Sizes, SumChange
  <2>4. SumOver(x, Groups) \in Int
    BY <2>2, Sizes, SumType
  <2>5. SumOver(y, Groups) = SumOver(x, Groups) + a[c]
    BY <2>2, <2>3, <2>4
  <2> QED
    BY <2>1, <2>5 DEF CoreGave
<1> QED
  BY <1>1, <1>2, <1>3, <1>4 DEF SumsGrow

-----------------------------------------------------------------------------
(* What each of the groups U gets when they share the cores by weight.     *)
DueOf(cores, weight) == [g \in Groups |-> (Weight[g] * cores * Unit) \div weight]

LEMMA ExactDivision ==
  ASSUME NEW x \in Nat, NEW w \in Nat, w > 0
  PROVE  (x * w) \div w = x
<1>1. PICK y, r : y = (x * w) \div w /\ r = (x * w) % w
  OBVIOUS
<1>2. x * w \in Int
  OBVIOUS
<1>3. y \in Int /\ r \in Int /\ x * w = w * y + r /\ 0 <= r /\ r < w
  BY <1>1, <1>2
<1>4. PICK z \in Int : z = x - y
  BY <1>3
<1>5. w * z = r
  BY <1>3, <1>4
<1>6. ~(z >= 1)
  <2> SUFFICES ASSUME z >= 1 PROVE FALSE
    OBVIOUS
  <2>1. PICK v \in Nat : z = v + 1
    OBVIOUS
  <2>2. w * z = w * v + w /\ w * v \in Nat
    BY <2>1
  <2> QED
    BY <1>3, <1>5, <2>2
<1>7. ~(z <= -1)
  <2> SUFFICES ASSUME z <= -1 PROVE FALSE
    OBVIOUS
  <2>1. PICK v \in Nat : z = -1 - v
    OBVIOUS
  <2>2. w * z = - w - w * v /\ w * v \in Nat
    BY <2>1
  <2> QED
    BY <1>3, <1>5, <2>2
<1> QED
  BY <1>1, <1>3, <1>4, <1>6, <1>7

SharesExactly(cores, weight, U) ==
  /\ weight \in Nat /\ weight > 0
  /\ \A g \in Groups : /\ DueOf(cores, weight)[g] \in Nat
                       /\ weight * DueOf(cores, weight)[g] = Weight[g] * cores * Unit
  /\ SumOver(DueOf(cores, weight), U) = cores * Unit

LEMMA DueFacts ==
  ASSUME NEW U \in SUBSET Groups, U # {}, NEW cores \in Nat,
         NEW weight, weight = SumOver(Weight, U)
  PROVE  SharesExactly(cores, weight, U)
<1>1. IsFiniteSet(U) /\ \A g \in U : Weight[g] \in Nat /\ Weight[g] > 0
  BY Sizes, FS_Subset
<1>2. weight \in Nat /\ weight > 0
  <2>1. weight \in Nat
    BY <1>1, SumNat
  <2>2. PICK g \in U : TRUE
    OBVIOUS
  <2>3. Weight[g] <= weight
    BY <1>1, SumAtLeast
  <2> QED
    BY <1>1, <2>1, <2>3
<1>3. Unit % weight = 0
  <2>1. \A G \in (SUBSET Groups) \ {{}} : Unit % SumOver(Weight, G) = 0
    BY UnitAssumption DEF SumOver, MapThenSumSet, MapThenFoldSet
  <2>2. U \in (SUBSET Groups) \ {{}}
    OBVIOUS
  <2>3. Unit % SumOver(Weight, U) = 0
    BY ONLY <2>1, <2>2
  <2> QED
    BY ONLY <2>3, weight = SumOver(Weight, U)
<1>4. PICK q \in Nat : Unit = weight * q
  <2>1. PICK q \in Int : q = Unit \div weight
    BY <1>2, Sizes
  <2>2. Unit = weight * q
    BY <1>2, <1>3, <2>1, Sizes
  <2>3. q >= 0
    <3> SUFFICES ASSUME q <= -1 PROVE FALSE
      OBVIOUS
    <3>1. PICK v \in Nat : q = -1 - v
      OBVIOUS
    <3>2. weight * q = - weight - weight * v /\ weight * v \in Nat
      BY <1>2, <3>1
    <3> QED
      BY <1>2, <2>2, <3>2, Sizes
  <2> QED
    BY <2>2, <2>3
<1>5. ASSUME NEW g \in Groups
      PROVE  /\ DueOf(cores, weight)[g] \in Nat
             /\ weight * DueOf(cores, weight)[g] = Weight[g] * cores * Unit
  <2>1. PICK u \in Nat : u = Weight[g]
    BY Sizes
  <2>2. PICK x \in Nat : x = u * cores * q
    OBVIOUS
  <2>3. u * cores * Unit = x * weight
    <3>1. PICK k \in Nat : k = u * cores
      OBVIOUS
    <3>2. k * (weight * q) = (k * q) * weight
      BY <1>2
    <3> QED
      BY <1>4, <2>2, <3>1, <3>2
  <2>4. (u * cores * Unit) \div weight = x
    BY <1>2, <2>3, ExactDivision
  <2>5. DueOf(cores, weight)[g] = x
    BY <2>1, <2>4 DEF DueOf
  <2> QED
    BY <1>2, <2>1, <2>3, <2>5
<1>6. SumOver(DueOf(cores, weight), U) = cores * Unit
  <2>1. PICK f, m : f = DueOf(cores, weight) /\ m = cores * Unit
    OBVIOUS
  <2>2. m \in Nat
    BY <2>1, Sizes
  <2>3. \A g \in U : f[g] \in Nat /\ Weight[g] \in Nat /\ weight * f[g] = m * Weight[g]
    <3> SUFFICES ASSUME NEW g \in U
                 PROVE  f[g] \in Nat /\ Weight[g] \in Nat /\ weight * f[g] = m * Weight[g]
      OBVIOUS
    <3>1. f[g] \in Nat /\ weight * f[g] = Weight[g] * cores * Unit /\ Weight[g] \in Nat
      BY <1>1, <1>5, <2>1
    <3>2. Weight[g] * cores * Unit = (cores * Unit) * Weight[g]
      BY <3>1, Sizes
    <3> QED
      BY <2>1, <3>1, <3>2
  <2>4. weight * SumOver(f, U) = m * SumOver(Weight, U)
    BY ONLY <1>1, <1>2, <2>2, <2>3, SumEvenly
  <2>5. PICK x \in Nat : x = SumOver(f, U)
    BY <1>1, <2>3, SumNat
  <2>6. weight * x = weight * m
    BY <1>2, <2>2, <2>4, <2>5
  <2>7. x = m
    <3>1. (x * weight) \div weight = x /\ (m * weight) \div weight = m
      BY <1>2, <2>2, <2>5, ExactDivision
    <3>2. x * weight = m * weight
      BY <1>2, <2>2, <2>5, <2>6
    <3> QED
      BY <3>1, <3>2
  <2> QED
    BY <2>1, <2>5, <2>7
<1> QED
  BY <1>2, <1>5, <1>6 DEF SharesExactly

-----------------------------------------------------------------------------
(* Products of numbers of threads, cores and weights.                      *)
LEMMA ProductGrows ==
  ASSUME NEW k \in Nat, NEW a \in Int, NEW b \in Int, a <= b
  PROVE  k * a <= k * b
<1>1. PICK e \in Nat : b = a + e
  <2>1. b - a \in Nat /\ b = a + (b - a)
    OBVIOUS
  <2> QED
    BY <2>1
<1>2. k * b = k * a + k * e /\ k * e \in Nat /\ k * a \in Int
  BY <1>1
<1> QED
  BY <1>2

LEMMA ProductCancels ==
  ASSUME NEW k \in Nat, k > 0, NEW a \in Int, NEW b \in Int, k * a <= k * b
  PROVE  a <= b
<1> SUFFICES ASSUME b + 1 <= a PROVE FALSE
  OBVIOUS
<1>1. k * (b + 1) <= k * a
  BY ProductGrows
<1>2. k * (b + 1) = k * b + k /\ k * b \in Int /\ k * a \in Int
  OBVIOUS
<1> QED
  BY <1>1, <1>2

LEMMA RatioKept ==
  ASSUME NEW w \in Nat, NEW x \in Nat, w > 0, NEW u \in Nat, NEW y \in Nat,
         NEW c \in Nat, NEW s \in Nat, w * c >= s * x, u * x >= w * y
  PROVE  u * c >= s * y
<1>1. u * (s * x) <= u * (w * c)
  BY ProductGrows
<1>2. s * (w * y) <= s * (u * x)
  BY ProductGrows
<1>3. u * (s * x) = s * (u * x) /\ u * (w * c) = w * (u * c) /\ s * (w * y) = w * (s * y)
  OBVIOUS
<1>4. w * (s * y) <= w * (u * c)
  <2>1. u * (s * x) \in Int /\ u * (w * c) \in Int /\ s * (w * y) \in Int /\ s * (u * x) \in Int
    OBVIOUS
  <2> QED
    BY <1>1, <1>2, <1>3, <2>1
<1> QED
  BY <1>4, ProductCancels

-----------------------------------------------------------------------------
(* The state of the division when the groups P have got their shares, and  *)
(* those of F among them a core for every thread; all of S have threads.   *)
Divisions ==
  [left : Lefts, share : Shares, firstCore : Nat, coresLeft : Nat, weightLeft : Int,
   whole : BOOLEAN]
DueIn(d) == DueOf(d.coresLeft, d.weightLeft)

DivCounts(d, S, P, F) ==
  /\ d \in Divisions /\ d.firstCore + d.coresLeft = NumCores /\ d.coresLeft > 0
  /\ d.weightLeft = SumOver(Weight, S \ F) /\ F \subseteq P /\ P \subseteq S
DivPhase(d, n, S, P, F) ==
  /\ d.whole => F = P /\ \A c \in Cores : c >= d.firstCore => d.left[c] = Unit
  /\ ~d.whole => /\ P # F
                 /\ \A u \in S \ F : Weight[u] * d.coresLeft <= d.weightLeft * n[u]
DivCores(d) ==
  \A c \in Cores :
    /\ d.left[c] >= 0 /\ d.left[c] + CoreGave(d.share, c) = Unit
    /\ c < d.firstCore => d.left[c] = 0
    /\ \A g \in Groups : d.share[c][g] >= 0
DivTotals(d, P, F) ==
  /\ SumOver(d.left, Cores) + SumOver(DueIn(d), P \ F) = d.coresLeft * Unit
  /\ AllGiven(d.share) = d.firstCore * Unit + SumOver(DueIn(d), P \ F)
DivGroups(d, n, P, F) ==
  /\ \A h \in F : /\ GroupHas(d.share, h) = n[h] * Unit
                  /\ Weight[h] * d.coresLeft >= d.weightLeft * n[h]
  /\ \A g \in P \ F : GroupHas(d.share, g) = DueIn(d)[g]
  /\ \A g \in Groups \ P : GroupHas(d.share, g) = 0

Dividing(d, n, S, P, F) ==
  /\ DivCounts(d, S, P, F) /\ DivPhase(d, n, S, P, F) /\ DivCores(d)
  /\ DivTotals(d, P, F) /\ DivGroups(d, n, P, F)

LEMMA Assigns ==
  ASSUME NEW d \in Divisions, NEW g \in Groups, NEW points, NEW t, NEW a \in Lefts,
         HasGiven(t, NumCores, a, d, g, points), NEW m, m = SumOver(a, Cores)
  PROVE  /\ t.left \in Lefts /\ t.share \in Shares /\ m \in Int
         /\ \A c \in Cores : t.left[c] = d.left[c] - a[c]
         /\ \A c \in Cores, h \in Groups :
              t.share[c][h] = IF h = g THEN d.share[c][h] + a[c] ELSE d.share[c][h]
         /\ SumsGrow(d.share, t.share, a, g, m)
         /\ SumOver(d.left, Cores) = SumOver(t.left, Cores) + m
         /\ SumOver(t.left, Cores) \in Int
<1>1. \A c \in Cores : c < NumCores
  BY CoreFacts, Sizes
<1>2. t.left \in Lefts /\ t.share \in Shares /\ d.left \in Lefts /\ d.share \in Shares
  BY DEF HasGiven, Divisions
<1>3. \A c \in Cores : t.left[c] = d.left[c] - a[c]
  BY <1>1 DEF HasGiven
<1>4. \A c \in Cores, h \in Groups :
        t.share[c][h] = IF h = g THEN d.share[c][h] + a[c] ELSE d.share[c][h]
  BY <1>1 DEF HasGiven
<1>5. SumsGrow(d.share, t.share, a, g, m)
  BY ONLY <1>2, <1>4, m = SumOver(a, Cores), GivenSums
<1>6. PICK l, r : l = t.left /\ r = d.left
  OBVIOUS
<1>7. \A c \in Cores : l[c] \in Int /\ a[c] \in Int /\ r[c] = l[c] + a[c]
  BY <1>2, <1>3, <1>6 DEF Lefts
<1>8. IsFiniteSet(Cores)
  BY CoreFacts
<1>9. SumOver(r, Cores) = SumOver(l, Cores) + SumOver(a, Cores)
  BY ONLY <1>7, <1>8, SumPlus
<1>10. SumOver(l, Cores) \in Int /\ SumOver(a, Cores) \in Int
  BY <1>7, <1>8, SumType
<1> QED
  BY <1>2, <1>3, <1>4, <1>5, <1>6, <1>9, <1>10

LEMMA DivideCores ==
  ASSUME NEW n \in [Groups -> Nat], NEW S \in SUBSET Groups, NEW P, NEW F, NEW d,
         Dividing(d, n, S, P, F), d.whole, NEW g \in S \ P, n[g] > 0, Underserved(d, n, g),
         \A h \in P : Weight[h] * n[g] >= Weight[g] * n[h]
  PROVE  Dividing(GiveCores(d, n, g), n, S, P \cup {g}, F \cup {g})
<1>1. /\ d \in Divisions /\ g \in Groups /\ n[g] \in Nat /\ Unit \in Nat /\ Unit > 0
      /\ NumCores \in Nat
  BY Sizes DEF Dividing, DivCounts
<1>2. PICK fc, cl, wl, m, wg : /\ fc = d.firstCore /\ cl = d.coresLeft /\ wl = d.weightLeft
                               /\ m = n[g] /\ wg = Weight[g]
  OBVIOUS
<1>3. F = P /\ \A c \in Cores : c >= fc => d.left[c] = Unit
  BY <1>2 DEF Dividing, DivPhase
<1>4. /\ fc \in Nat /\ cl \in Nat /\ wl \in Int /\ m \in Nat /\ m > 0 /\ wg \in Nat /\ wg > 0
      /\ fc + cl = NumCores /\ wl = SumOver(Weight, S \ F) /\ F \subseteq S
  BY <1>1, <1>2, Sizes DEF Dividing, DivCounts, Divisions
<1>5. wl - wg = SumOver(Weight, S \ (F \cup {g})) /\ wl - wg \in Nat /\ wl \in Nat
  <2>1. PICK U, V : U = S \ F /\ V = S \ (F \cup {g})
    OBVIOUS
  <2>2. g \in U /\ V = U \ {g} /\ U \subseteq Groups /\ V \subseteq Groups
    BY <1>3, <2>1
  <2>3. IsFiniteSet(U) /\ IsFiniteSet(V)
    BY <2>2, Sizes, FS_Subset
  <2>4. (\A x \in U : Weight[x] \in Nat) /\ (\A x \in V : Weight[x] \in Nat)
    BY <2>2, Sizes
  <2>5. \A x \in U : Weight[x] \in Int
    BY <2>4
  <2>6. SumOver(Weight, U) = Weight[g] + SumOver(Weight, V)
    BY ONLY <2>2, <2>3, <2>5, SumRemove
  <2>7. SumOver(Weight, V) \in Nat
    BY <2>3, <2>4, SumNat
  <2> QED
    BY <1>2, <1>4, <2>1, <2>6, <2>7
<1>6. wg * cl > wl * m
  BY <1>2 DEF Underserved
<1>7. m < cl
  <2> SUFFICES ASSUME cl <= m PROVE FALSE
    BY <1>4
  <2>1. wg * cl <= wg * m
    BY <1>4, ProductGrows
  <2>2. m * wg <= m * wl
    BY <1>4, <1>5, ProductGrows
  <2>3. m * wg = wg * m /\ m * wl = wl * m /\ wg * m \in Int /\ wl * m \in Int /\ wg * cl \in Int
    BY <1>4
  <2> QED
    BY <1>6, <2>1, <2>2, <2>3
<1>8. wg * (cl - m) >= (wl - wg) * m
  <2>1. wg * (cl - m) = wg * cl - wg * m /\ (wl - wg) * m = wl * m - wg * m
    BY <1>4
  <2>2. wg * cl \in Int /\ wg * m \in Int /\ wl * m \in Int
    BY <1>4
  <2> QED
    BY <1>6, <2>1, <2>2
<1>9. PICK t : t = Assign(d, g, m * Unit, fc, TRUE)
  OBVIOUS
<1>10. PICK a : Gives(a, d, m * Unit, fc, TRUE) /\ HasGiven(t, NumCores, a, d, g, m * Unit)
  <2>1. d.left \in Lefts /\ d.share \in Shares /\ m * Unit \in Int
    BY <1>1, <1>4 DEF Divisions
  <2>2. Assigned(t, d, g, m * Unit, fc, TRUE)
    BY ONLY <1>1, <1>9, <2>1, AssignGives
  <2> QED
    BY <2>2 DEF Assigned
<1>11. /\ \A c \in Cores : a[c] = IF fc <= c /\ c < fc + m THEN Unit ELSE 0
       /\ SumOver(a, Cores) = m * Unit /\ a \in Lefts
  <2>1. fc + m <= NumCores /\ fc \in Nat /\ m \in Nat
    BY <1>1, <1>4, <1>7
  <2>3. \A c \in Cores : c >= fc => d.left[c] = Unit
    BY <1>3
  <2>4. Gives(a, d, m * Unit, fc, TRUE)
    BY <1>10
  <2>2. /\ \A c \in Cores : a[c] = IF fc <= c /\ c < fc + m THEN Unit ELSE 0
        /\ SumOver(a, 0 .. NumCores - 1) = m * Unit
    BY ONLY <2>1, <2>3, <2>4, GivesWhole
  <2> QED
    BY <1>10, <2>2, CoreFacts DEF Gives
<1>12. /\ t.left \in Lefts /\ t.share \in Shares
       /\ \A c \in Cores : t.left[c] = d.left[c] - a[c]
       /\ \A c \in Cores, h \in Groups :
            t.share[c][h] = IF h = g THEN d.share[c][h] + a[c] ELSE d.share[c][h]
       /\ SumsGrow(d.share, t.share, a, g, m * Unit)
       /\ SumOver(d.left, Cores) = SumOver(t.left, Cores) + m * Unit
       /\ SumOver(t.left, Cores) \in Int
  <2>1. PICK s : s = SumOver(a, Cores)
    OBVIOUS
  <2>2. /\ t.left \in Lefts /\ t.share \in Shares
        /\ \A c \in Cores : t.left[c] = d.left[c] - a[c]
        /\ \A c \in Cores, h \in Groups :
             t.share[c][h] = IF h = g THEN d.share[c][h] + a[c] ELSE d.share[c][h]
        /\ SumsGrow(d.share, t.share, a, g, s)
        /\ SumOver(d.left, Cores) = SumOver(t.left, Cores) + s
        /\ SumOver(t.left, Cores) \in Int
    BY ONLY <1>1, <1>10, <1>11, <2>1, Assigns
  <2> QED
    BY <1>11, <2>1, <2>2
<1>13. PICK e : e = GiveCores(d, n, g)
  OBVIOUS
<1>14. /\ e.left = t.left /\ e.share = t.share /\ e.whole = TRUE
       /\ e.firstCore = fc + m /\ e.coresLeft = cl - m /\ e.weightLeft = wl - wg
       /\ e \in Divisions
  <2>1. e = [d EXCEPT !.left = t.left, !.share = t.share,
                      !.firstCore = fc + m, !.coresLeft = cl - m, !.weightLeft = wl - wg]
    BY <1>2, <1>9, <1>13 DEF GiveCores
  <2>2. fc + m \in Nat /\ cl - m \in Nat /\ wl - wg \in Int
    BY <1>4, <1>7
  <2>3. d.whole = TRUE
    BY <1>1 DEF Divisions
  <2> QED
    BY <1>1, <1>12, <2>1, <2>2, <2>3 DEF Divisions
<1>15. DivCounts(e, S, P \cup {g}, F \cup {g})
  BY <1>3, <1>4, <1>5, <1>7, <1>14 DEF DivCounts
<1>16. DivPhase(e, n, S, P \cup {g}, F \cup {g})
  <2>1. \A c \in Cores : c >= fc + m => e.left[c] = Unit
    <3> SUFFICES ASSUME NEW c \in Cores, c >= fc + m PROVE e.left[c] = Unit
      OBVIOUS
    <3>1. c >= fc /\ ~(c < fc + m)
      BY <1>4, CoreFacts
    <3>2. d.left[c] = Unit /\ a[c] = 0
      BY <1>3, <1>11, <3>1
    <3> QED
      BY <1>1, <1>12, <1>14, <3>2
  <2> QED
    BY <1>3, <1>14, <2>1 DEF DivPhase
<1>17. DivCores(e)
  <2> SUFFICES ASSUME NEW c \in Cores
               PROVE  /\ e.left[c] >= 0 /\ e.left[c] + CoreGave(e.share, c) = Unit
                      /\ c < e.firstCore => e.left[c] = 0
                      /\ \A h \in Groups : e.share[c][h] >= 0
    BY DEF DivCores
  <2>1. /\ d.left[c] >= 0 /\ d.left[c] + CoreGave(d.share, c) = Unit
        /\ c < fc => d.left[c] = 0
        /\ \A h \in Groups : d.share[c][h] >= 0
    BY <1>2 DEF Dividing, DivCores
  <2>2. e.left[c] = d.left[c] - a[c] /\ CoreGave(e.share, c) = CoreGave(d.share, c) + a[c]
    BY <1>12, <1>14 DEF SumsGrow
  <2>3. d.left[c] \in Int /\ a[c] \in Int /\ CoreGave(d.share, c) \in Int /\ c \in Nat
    BY <1>1, <1>11, CoreFacts, SumsAreInts DEF Divisions, Lefts
  <2>4. a[c] = (IF fc <= c /\ c < fc + m THEN Unit ELSE 0) /\ (c >= fc => d.left[c] = Unit)
    BY <1>3, <1>11
  <2>5. e.left[c] >= 0 /\ (c < fc + m => e.left[c] = 0)
    BY <1>1, <1>4, <2>1, <2>2, <2>3, <2>4
  <2>6. e.left[c] + CoreGave(e.share, c) = Unit
    BY <1>1, <2>1, <2>2, <2>3
  <2>7. \A h \in Groups : e.share[c][h] >= 0
    <3> SUFFICES ASSUME NEW h \in Groups PROVE e.share[c][h] >= 0
      OBVIOUS
    <3>1. d.share[c][h] \in Int /\ d.share[c][h] >= 0 /\ a[c] >= 0
      BY <1>1, <2>1, <2>3, <2>4 DEF Divisions, Shares
    <3> QED
      BY <1>12, <1>14, <2>3, <3>1
  <2> QED
    BY <1>14, <2>5, <2>6, <2>7
<1>18. DivTotals(e, P \cup {g}, F \cup {g})
  <2>1. P \ F = {} /\ (P \cup {g}) \ (F \cup {g}) = {}
    BY <1>3
  <2>2. SumOver(d.left, Cores) + 0 = cl * Unit /\ AllGiven(d.share) = fc * Unit + 0
    BY <1>2, <2>1, SumEmpty DEF Dividing, DivTotals
  <2>3. AllGiven(e.share) = AllGiven(d.share) + m * Unit
    BY <1>12, <1>14 DEF SumsGrow
  <2>4. /\ (cl - m) * Unit = cl * Unit - m * Unit /\ (fc + m) * Unit = fc * Unit + m * Unit
        /\ cl * Unit \in Int /\ m * Unit \in Int /\ fc * Unit \in Int
    BY <1>1, <1>4
  <2>5. SumOver(e.left, Cores) + 0 = e.coresLeft * Unit
    BY <1>12, <1>14, <2>2, <2>4
  <2>6. AllGiven(e.share) = e.firstCore * Unit + 0
    BY <1>14, <2>2, <2>3, <2>4
  <2> QED
    BY <2>1, <2>5, <2>6, SumEmpty DEF DivTotals
<1>19. DivGroups(e, n, P \cup {g}, F \cup {g})
  <2>1. \A h \in Groups \ (P \cup {g}) : GroupHas(e.share, h) = 0
    BY <1>12, <1>14 DEF Dividing, DivGroups, SumsGrow
  <2>2. GroupHas(e.share, g) = n[g] * Unit
    <3>1. GroupHas(d.share, g) = 0
      BY <1>1 DEF Dividing, DivGroups
    <3>2. m * Unit \in Int
      BY <1>1, <1>4
    <3> QED
      BY <1>2, <1>12, <1>14, <3>1, <3>2 DEF SumsGrow
  <2>3. Weight[g] * e.coresLeft >= e.weightLeft * n[g]
    BY <1>2, <1>8, <1>14
  <2>4. ASSUME NEW h \in F
        PROVE  GroupHas(e.share, h) = n[h] * Unit /\ Weight[h] * e.coresLeft >= e.weightLeft * n[h]
    <3>1. h \in Groups /\ h # g /\ h \in P
      BY <1>3, <1>4
    <3>2. GroupHas(d.share, h) = n[h] * Unit
      BY DEF Dividing, DivGroups
    <3>3. GroupHas(e.share, h) = n[h] * Unit
      BY <1>12, <1>14, <3>1, <3>2 DEF SumsGrow
    <3>4. PICK wh, nh : wh = Weight[h] /\ nh = n[h]
      OBVIOUS
    <3>5. wh \in Nat /\ nh \in Nat /\ wh * m >= wg * nh
      BY <1>2, <3>1, <3>4, Sizes
    <3>6. cl - m \in Nat
      BY <1>4, <1>7
    <3>7. wh * (cl - m) >= (wl - wg) * nh
      BY ONLY <1>4, <1>5, <1>8, <3>5, <3>6, RatioKept
    <3> QED
      BY <1>14, <3>3, <3>4, <3>7
  <2>5. (P \cup {g}) \ (F \cup {g}) = {}
    BY <1>3
  <2> QED
    BY <2>1, <2>2, <2>3, <2>4, <2>5 DEF DivGroups
<1> QED
  BY <1>13, <1>15, <1>16, <1>17, <1>18, <1>19 DEF Dividing

(* Whoever shares the cores that are left gets no more than it can use.    *)
LEMMA AllServed ==
  ASSUME NEW n \in [Groups -> Nat], NEW S \in SUBSET Groups, NEW P, NEW F, NEW d,
         Dividing(d, n, S, P, F), NEW g \in S \ P, n[g] > 0, ~(d.whole /\ Underserved(d, n, g)),
         \A u \in S \ P : Weight[g] * n[u] >= Weight[u] * n[g]
  PROVE  \A u \in S \ F : Weight[u] * d.coresLeft <= d.weightLeft * n[u]
<1>1. CASE ~d.whole
  BY <1>1 DEF Dividing, DivPhase
<1>2. CASE d.whole
  <2> SUFFICES ASSUME NEW u \in S \ F PROVE Weight[u] * d.coresLeft <= d.weightLeft * n[u]
    OBVIOUS
  <2>1. F = P
    BY <1>2 DEF Dividing, DivPhase
  <2>2. PICK cl, wl, wg, wu, m, k :
          /\ cl = d.coresLeft /\ wl = d.weightLeft /\ wg = Weight[g] /\ wu = Weight[u]
          /\ m = n[g] /\ k = n[u]
    OBVIOUS
  <2>3. cl \in Nat /\ wl \in Int /\ wg \in Nat /\ wu \in Nat /\ m \in Nat /\ m > 0 /\ k \in Nat
    BY <2>2, Sizes DEF Dividing, DivCounts, Divisions
  <2>4. wl \in Nat
    <3>1. IsFiniteSet(S \ F) /\ \A x \in S \ F : Weight[x] \in Nat
      BY Sizes, FS_Subset
    <3>2. SumOver(Weight, S \ F) \in Nat
      BY <3>1, SumNat
    <3> QED
      BY <2>2, <3>2 DEF Dividing, DivCounts
  <2>5. wg * cl <= wl * m
    <3>1. ~(wg * cl > wl * m)
      BY <1>2, <2>2 DEF Underserved
    <3>2. wg * cl \in Int /\ wl * m \in Int
      BY <2>3
    <3> QED
      BY <3>1, <3>2
  <2>6. wg * k >= wu * m
    BY <2>1, <2>2
  <2>7. m * wl >= cl * wg /\ k * wg >= m * wu
    <3>1. m * wl = wl * m /\ cl * wg = wg * cl /\ k * wg = wg * k /\ m * wu = wu * m
      BY <2>3
    <3> QED
      BY <2>5, <2>6, <3>1
  <2>8. k * wl >= cl * wu
    BY ONLY <2>3, <2>4, <2>7, RatioKept
  <2>9. k * wl = wl * k /\ cl * wu = wu * cl /\ wl * k \in Int /\ wu * cl \in Int
    BY <2>3
  <2>10. wu * cl <= wl * k
    BY <2>8, <2>9
  <2> QED
    BY <2>2, <2>10
<1> QED
  BY <1>1, <1>2

LEMMA DivideShare ==
  ASSUME NEW n \in [Groups -> Nat], NEW S \in SUBSET Groups, NEW P, NEW F, NEW d,
         Dividing(d, n, S, P, F), NEW g \in S \ P, n[g] > 0, ~(d.whole /\ Underserved(d, n, g)),
         \A u \in S \ P : Weight[g] * n[u] >= Weight[u] * n[g]
  PROVE  Dividing(GiveShare(d, g), n, S, P \cup {g}, F)
<1>1. /\ d \in Divisions /\ g \in Groups /\ Unit \in Nat /\ Unit > 0
      /\ F \subseteq P /\ P \subseteq S /\ g \notin P /\ g \notin F /\ IsFiniteSet(S)
  BY Sizes, FS_Subset DEF Dividing, DivCounts
<1>2. PICK fc, cl, wl, due : /\ fc = d.firstCore /\ cl = d.coresLeft /\ wl = d.weightLeft
                             /\ due = DueIn(d)
  OBVIOUS
<1>3. /\ fc \in Nat /\ cl \in Nat /\ wl \in Int /\ d.left \in Lefts /\ d.share \in Shares
      /\ wl = SumOver(Weight, S \ F)
  BY <1>1, <1>2 DEF Dividing, DivCounts, Divisions
<1>4. (\A h \in Groups : due[h] \in Nat) /\ SumOver(due, S \ F) = cl * Unit
  <2>1. PICK U : U = S \ F /\ U \in SUBSET Groups /\ U # {}
    BY <1>1
  <2>2. SharesExactly(cl, wl, U)
    BY ONLY <1>3, <2>1, DueFacts
  <2>3. due = DueOf(cl, wl)
    BY <1>2 DEF DueIn
  <2> QED
    BY <2>1, <2>2, <2>3 DEF SharesExactly
<1>5. PICK m \in Nat : m = due[g]
  BY <1>1, <1>4
<1>6. PICK had \in Nat : had = SumOver(due, P \ F)
  <2>1. IsFiniteSet(P \ F) /\ \A h \in P \ F : due[h] \in Nat
    BY <1>1, <1>4, FS_Subset
  <2> QED
    BY <2>1, SumNat
<1>7. SumOver(due, (P \cup {g}) \ F) = m + had /\ m + had <= cl * Unit
  <2>1. PICK U, V : U = P \ F /\ V = (P \cup {g}) \ F
    OBVIOUS
  <2>2. V = U \cup {g} /\ g \notin U /\ V \in SUBSET (S \ F) /\ IsFiniteSet(U) /\ IsFiniteSet(S \ F)
    BY <1>1, <2>1, FS_Subset
  <2>3. (\A x \in S \ F : due[x] \in Nat) /\ (\A x \in U \cup {g} : due[x] \in Int)
    BY <1>1, <1>4, <2>1
  <2>4. SumOver(due, U \cup {g}) = due[g] + SumOver(due, U)
    BY ONLY <2>2, <2>3, SumAdd
  <2>5. SumOver(due, V) <= SumOver(due, S \ F)
    BY ONLY <2>2, <2>3, SumSubset
  <2> QED
    BY <1>4, <1>5, <1>6, <2>1, <2>2, <2>4, <2>5
<1>8. PICK l \in Int : l = SumOver(d.left, Cores)
  <2>1. \A c \in Cores : d.left[c] \in Int
    BY <1>3 DEF Lefts
  <2> QED
    BY <2>1, CoreFacts, SumType
<1>9. l + had = cl * Unit /\ AllGiven(d.share) = fc * Unit + had /\ cl * Unit \in Int
  BY <1>1, <1>2, <1>3, <1>6, <1>8 DEF Dividing, DivTotals
<1>10. \A c \in Cores : d.left[c] >= 0 /\ (c < fc => d.left[c] = 0)
  BY <1>2 DEF Dividing, DivCores
<1>11. PICK t : t = Assign(d, g, m, fc, FALSE)
  OBVIOUS
<1>12. PICK a : Gives(a, d, m, fc, FALSE) /\ HasGiven(t, NumCores, a, d, g, m)
  <2>1. m \in Int
    OBVIOUS
  <2>2. Assigned(t, d, g, m, fc, FALSE)
    BY ONLY <1>1, <1>3, <1>11, <2>1, AssignGives
  <2> QED
    BY <2>2 DEF Assigned
<1>13. /\ \A c \in Cores : a[c] \in Nat /\ a[c] <= d.left[c] /\ (c < fc => a[c] = 0)
       /\ SumOver(a, Cores) = m /\ a \in Lefts
  <2>1. m <= SumOver(d.left, Cores)
    BY <1>7, <1>8, <1>9
  <2>2. Gives(a, d, m, fc, FALSE)
    BY <1>12
  <2>3. /\ \A c \in Cores : a[c] \in Nat /\ a[c] <= d.left[c] /\ (c < fc => a[c] = 0)
        /\ SumOver(a, 0 .. NumCores - 1) = m
    BY ONLY <1>3, m \in Nat, <1>10, <2>1, <2>2, GivesShares
  <2> QED
    BY <1>12, <2>3, CoreFacts DEF Gives
<1>14. /\ t.left \in Lefts /\ t.share \in Shares
       /\ \A c \in Cores : t.left[c] = d.left[c] - a[c]
       /\ \A c \in Cores, h \in Groups :
            t.share[c][h] = IF h = g THEN d.share[c][h] + a[c] ELSE d.share[c][h]
       /\ SumsGrow(d.share, t.share, a, g, m)
       /\ SumOver(d.left, Cores) = SumOver(t.left, Cores) + m
       /\ SumOver(t.left, Cores) \in Int
  <2>1. m = SumOver(a, Cores) /\ HasGiven(t, NumCores, a, d, g, m) /\ a \in Lefts
    BY <1>12, <1>13
  <2> QED
    BY ONLY <1>1, <2>1, Assigns
<1>15. PICK e : e = GiveShare(d, g)
  OBVIOUS
<1>16. /\ e.left = t.left /\ e.share = t.share /\ e.whole = FALSE
       /\ e.firstCore = fc /\ e.coresLeft = cl /\ e.weightLeft = wl
       /\ e \in Divisions
  <2>1. m = (Weight[g] * d.coresLeft * Unit) \div d.weightLeft
    BY <1>1, <1>2, <1>5 DEF DueIn, DueOf
  <2>2. e = [d EXCEPT !.left = t.left, !.share = t.share, !.whole = FALSE]
    BY <1>2, <1>11, <1>15, <2>1 DEF GiveShare
  <2> QED
    BY <1>1, <1>2, <1>14, <2>2 DEF Divisions
<1>17. DueIn(e) = due
  BY <1>2, <1>16 DEF DueIn
<1>18. DivCounts(e, S, P \cup {g}, F)
  BY <1>1, <1>2, <1>16 DEF Dividing, DivCounts
<1>19. DivPhase(e, n, S, P \cup {g}, F)
  BY <1>1, <1>2, <1>16, AllServed DEF DivPhase
<1>20. DivCores(e)
  <2> SUFFICES ASSUME NEW c \in Cores
               PROVE  /\ e.left[c] >= 0 /\ e.left[c] + CoreGave(e.share, c) = Unit
                      /\ c < e.firstCore => e.left[c] = 0
                      /\ \A h \in Groups : e.share[c][h] >= 0
    BY DEF DivCores
  <2>1. /\ d.left[c] >= 0 /\ d.left[c] + CoreGave(d.share, c) = Unit
        /\ c < fc => d.left[c] = 0
        /\ \A h \in Groups : d.share[c][h] >= 0
    BY <1>2 DEF Dividing, DivCores
  <2>2. e.left[c] = d.left[c] - a[c] /\ CoreGave(e.share, c) = CoreGave(d.share, c) + a[c]
    BY <1>14, <1>16 DEF SumsGrow
  <2>3. d.left[c] \in Int /\ a[c] \in Int /\ CoreGave(d.share, c) \in Int /\ c \in Nat
    BY <1>3, <1>13, CoreFacts, SumsAreInts DEF Lefts
  <2>4. a[c] \in Nat /\ a[c] <= d.left[c] /\ (c < fc => a[c] = 0)
    BY <1>13
  <2>5. e.left[c] >= 0 /\ (c < fc => e.left[c] = 0)
    BY <2>1, <2>2, <2>3, <2>4
  <2>6. e.left[c] + CoreGave(e.share, c) = Unit
    BY <1>1, <2>1, <2>2, <2>3
  <2>7. \A h \in Groups : e.share[c][h] >= 0
    <3> SUFFICES ASSUME NEW h \in Groups PROVE e.share[c][h] >= 0
      OBVIOUS
    <3>1. d.share[c][h] \in Int /\ d.share[c][h] >= 0
      BY <1>3, <2>1 DEF Shares
    <3> QED
      BY <1>14, <1>16, <2>4, <3>1
  <2> QED
    BY <1>16, <2>5, <2>6, <2>7
<1>21. DivTotals(e, P \cup {g}, F)
  <2>1. AllGiven(e.share) = AllGiven(d.share) + m
    BY <1>14, <1>16 DEF SumsGrow
  <2>2. l = SumOver(e.left, Cores) + m /\ SumOver(e.left, Cores) \in Int
    BY <1>8, <1>14, <1>16
  <2>3. SumOver(e.left, Cores) + (m + had) = cl * Unit
    BY <1>9, <2>2
  <2>4. fc * Unit \in Int
    BY <1>1, <1>3
  <2>5. AllGiven(e.share) = fc * Unit + (m + had)
    BY <1>9, <2>1, <2>4
  <2> QED
    BY <1>7, <1>16, <1>17, <2>3, <2>5 DEF DivTotals
<1>22. DivGroups(e, n, P \cup {g}, F)
  <2>1. ASSUME NEW h \in Groups, h # g PROVE GroupHas(e.share, h) = GroupHas(d.share, h)
    BY <1>14, <1>16, <2>1 DEF SumsGrow
  <2>2. GroupHas(e.share, g) = m
    <3>1. GroupHas(d.share, g) = 0
      BY <1>1 DEF Dividing, DivGroups
    <3> QED
      BY <1>14, <1>16, <3>1 DEF SumsGrow
  <2>3. F \subseteq Groups /\ P \subseteq Groups
    BY <1>1
  <2>4. \A h \in F : /\ GroupHas(e.share, h) = n[h] * Unit
                     /\ Weight[h] * e.coresLeft >= e.weightLeft * n[h]
    BY <1>1, <1>2, <1>16, <2>1, <2>3 DEF Dividing, DivGroups
  <2>5. \A h \in (P \cup {g}) \ F : GroupHas(e.share, h) = DueIn(e)[h]
    BY <1>2, <1>5, <1>17, <2>1, <2>2, <2>3 DEF Dividing, DivGroups
  <2>6. \A h \in Groups \ (P \cup {g}) : GroupHas(e.share, h) = 0
    BY <2>1 DEF Dividing, DivGroups
  <2> QED
    BY <2>4, <2>5, <2>6 DEF DivGroups
<1> QED
  BY <1>15, <1>18, <1>19, <1>20, <1>21, <1>22 DEF Dividing

-----------------------------------------------------------------------------
(* The division as a whole, group after group.                             *)
LEMMA WholeCores ==
  ASSUME NEW f \in Lefts, \A c \in Cores : f[c] = Unit
  PROVE  SumOver(f, Cores) = NumCores * Unit
<1> DEFINE A == {k \in Nat : k <= NumCores => SumOver(f, 0 .. k - 1) = k * Unit}
<1>1. 0 \in A
  <2>1. 0 .. 0 - 1 = {} /\ 0 * Unit = 0
    BY Sizes
  <2>2. SumOver(f, 0 .. 0 - 1) = 0 * Unit
    BY <2>1, SumEmpty
  <2> QED
    BY <2>2
<1>2. ASSUME NEW k \in Nat, k \in A
      PROVE  k + 1 \in A
  <2> SUFFICES ASSUME k + 1 <= NumCores PROVE SumOver(f, 0 .. (k + 1) - 1) = (k + 1) * Unit
    OBVIOUS
  <2>1. k \in Cores /\ k \in 0 .. NumCores
    BY Sizes DEF Cores
  <2>2. SumOver(f, 0 .. (k + 1) - 1) = SumOver(f, 0 .. k - 1) + f[k]
    BY <2>1, PrefixSum
  <2>3. SumOver(f, 0 .. k - 1) = k * Unit
    BY <1>2, Sizes
  <2>4. (k + 1) * Unit = k * Unit + Unit
    BY Sizes
  <2> QED
    BY <2>1, <2>2, <2>3, <2>4
<1>3. NumCores \in A
  <2> HIDE DEF A
  <2> QED
    BY <1>1, <1>2, Sizes, NumberInduction
<1> QED
  BY <1>3, CoreFacts, Sizes

LEMMA DivideStarts ==
  ASSUME NEW n \in [Groups -> Nat], NEW S \in SUBSET Groups, NEW total, total = SumOver(Weight, S)
  PROVE  Dividing(Undivided(total), n, S, {}, {})
<1>1. PICK d : d = Undivided(total)
  OBVIOUS
<1>2. PICK l, s : l = [c \in Cores |-> Unit] /\ s = NoShares
  OBVIOUS
<1>3. /\ d.left = l /\ d.share = s /\ d.firstCore = 0 /\ d.coresLeft = NumCores
      /\ d.weightLeft = total /\ d.whole = TRUE
      /\ d = [left |-> l, share |-> s, firstCore |-> 0, coresLeft |-> NumCores,
              weightLeft |-> total, whole |-> TRUE]
  BY <1>1, <1>2 DEF Undivided
<1>4. l \in Lefts /\ s \in Shares /\ \A c \in Cores : l[c] = Unit
  BY <1>2, Sizes DEF Lefts, Shares, NoShares
<1>5. \A c \in Cores, g \in Groups : s[c][g] = 0
  BY <1>2 DEF NoShares
<1>6. total \in Int
  <2>1. IsFiniteSet(S) /\ \A x \in S : Weight[x] \in Int
    BY Sizes, FS_Subset
  <2> QED
    BY <2>1, SumType
<1>7. \A g \in Groups : GroupHas(s, g) = 0
  <2> SUFFICES ASSUME NEW g \in Groups PROVE GroupHas(s, g) = 0
    OBVIOUS
  <2>1. PICK x : x = Column(s, g)
    OBVIOUS
  <2>2. (\A c \in Cores : x[c] = 0) /\ IsFiniteSet(Cores)
    BY <1>5, <2>1, CoreFacts DEF Column
  <2>3. SumOver(x, Cores) = 0
    BY ONLY <2>2, SumOfNone
  <2> QED
    BY <2>1, <2>3 DEF GroupHas
<1>8. AllGiven(s) = 0
  <2>1. PICK x : x = HasOf(s)
    OBVIOUS
  <2>2. (\A g \in Groups : x[g] = 0) /\ IsFiniteSet(Groups)
    BY <1>7, <2>1, Sizes DEF HasOf
  <2>3. SumOver(x, Groups) = 0
    BY ONLY <2>2, SumOfNone
  <2> QED
    BY <2>1, <2>3 DEF AllGiven
<1>9. \A c \in Cores : CoreGave(s, c) = 0
  <2> SUFFICES ASSUME NEW c \in Cores PROVE CoreGave(s, c) = 0
    OBVIOUS
  <2>1. PICK x : x = s[c]
    OBVIOUS
  <2>2. (\A g \in Groups : x[g] = 0) /\ IsFiniteSet(Groups)
    BY <1>5, <2>1, Sizes
  <2>3. SumOver(x, Groups) = 0
    BY ONLY <2>2, SumOfNone
  <2> QED
    BY <2>1, <2>3 DEF CoreGave
<1>10. DivCounts(d, S, {}, {})
  <2>1. S \ {} = S
    OBVIOUS
  <2>2. d \in Divisions
    BY <1>3, <1>4, <1>6, Sizes DEF Divisions
  <2> QED
    BY <1>3, <2>1, <2>2, Sizes DEF DivCounts
<1>11. DivPhase(d, n, S, {}, {})
  BY <1>3, <1>4 DEF DivPhase
<1>12. DivCores(d)
  BY <1>3, <1>4, <1>5, <1>9, Sizes, CoreFacts DEF DivCores
<1>13. DivTotals(d, {}, {})
  <2>1. SumOver(DueIn(d), {} \ {}) = 0
    <3>1. {} \ {} = {}
      OBVIOUS
    <3> QED
      BY <3>1, SumEmpty
  <2>2. SumOver(l, Cores) = NumCores * Unit /\ NumCores * Unit \in Int /\ 0 * Unit = 0
    BY <1>4, WholeCores, Sizes
  <2> QED
    BY <1>3, <1>8, <2>1, <2>2 DEF DivTotals
<1>14. DivGroups(d, n, {}, {})
  BY <1>3, <1>7 DEF DivGroups
<1> QED
  BY <1>1, <1>10, <1>11, <1>12, <1>13, <1>14 DEF Dividing

(* An order that distribute_weight sorts the groups of S into.             *)
InOrder(order, n, S) ==
  /\ order \in Seq(S) /\ Distinct(order) /\ SetOf(order) = S
  /\ \A i, j \in 1 .. Len(order) :
       i < j => Weight[order[i]] * n[order[j]] >= Weight[order[j]] * n[order[i]]

LEMMA OrderFacts ==
  ASSUME NEW n \in [Groups -> Nat], NEW S \in SUBSET Groups, NEW order \in SortedBy(n, S)
  PROVE  InOrder(order, n, S)
<1>1. IsFiniteSet(S) /\ Cardinality(S) \in Nat
  BY Sizes, FS_Subset, FS_CardinalityType
<1>2. /\ order \in [1 .. Cardinality(S) -> S]
      /\ \A i, j \in 1 .. Cardinality(S) : order[i] = order[j] => i = j
  BY <1>1 DEF SortedBy, SetToSeqs, IsInjective
<1>3. order \in Seq(S) /\ Len(order) = Cardinality(S)
  BY <1>1, <1>2
<1>4. Distinct(order)
  BY <1>2, <1>3 DEF Distinct
<1>5. SetOf(order) \subseteq S
  BY <1>3 DEF SetOf
<1>6. SetOf(order) = S
  <2>1. Cardinality(SetOf(order)) = Cardinality(S)
    BY <1>3, <1>4, CountList
  <2> QED
    BY <1>1, <1>5, <2>1, FS_Subset
<1>7. ASSUME NEW i \in 1 .. Len(order), NEW j \in 1 .. Len(order), i < j
      PROVE  Weight[order[i]] * n[order[j]] >= Weight[order[j]] * n[order[i]]
  <2>1. PICK x, y, p, q : x = Weight[order[i]] /\ y = Weight[order[j]] /\ p = n[order[i]] /\ q = n[order[j]]
    OBVIOUS
  <2>2. x \in Nat /\ y \in Nat /\ p \in Nat /\ q \in Nat
    BY <1>3, <2>1, Sizes
  <2>3. ~(y * p > x * q)
    BY <1>7, <2>1 DEF SortedBy, Before
  <2>4. y * p \in Int /\ x * q \in Int
    BY <2>2
  <2> QED
    BY <2>1, <2>3, <2>4
<1> QED
  BY <1>3, <1>4, <1>6, <1>7 DEF InOrder

Firsts(order, k) == {order[i] : i \in 1 .. k}
DividingSome(d, n, S, P) == \E F : Dividing(d, n, S, P, F)

LEMMA GiveDivides ==
  ASSUME NEW n \in [Groups -> Nat], NEW S \in SUBSET Groups, \A g \in S : n[g] > 0,
         NEW order, InOrder(order, n, S), NEW k \in Nat, k + 1 <= Len(order),
         NEW d, DividingSome(d, n, S, Firsts(order, k))
  PROVE  DividingSome(Give(d, n, order[k + 1]), n, S, Firsts(order, k + 1))
<1>1. PICK P, g : P = Firsts(order, k) /\ g = order[k + 1]
  OBVIOUS
<1>2. PICK F : Dividing(d, n, S, P, F)
  BY <1>1 DEF DividingSome
<1>3. Len(order) \in Nat /\ order \in [1 .. Len(order) -> S] /\ k + 1 \in 1 .. Len(order)
  BY DEF InOrder
<1>4. Firsts(order, k + 1) = P \cup {g}
  <2>1. \A i : i \in 1 .. k + 1 <=> i \in 1 .. k \/ i = k + 1
    OBVIOUS
  <2> QED
    BY <1>1, <2>1 DEF Firsts
<1>5. g \in S \ P
  <2>1. \A i \in 1 .. k : i \in 1 .. Len(order) /\ i # k + 1
    BY <1>3
  <2>2. \A i \in 1 .. k : order[i] # order[k + 1]
    BY <1>3, <2>1 DEF InOrder, Distinct
  <2> QED
    BY <1>1, <1>3, <2>2 DEF Firsts
<1>6. \A h \in P : Weight[h] * n[g] >= Weight[g] * n[h]
  <2> SUFFICES ASSUME NEW h \in P PROVE Weight[h] * n[g] >= Weight[g] * n[h]
    OBVIOUS
  <2>1. PICK i \in 1 .. k : h = order[i]
    BY <1>1 DEF Firsts
  <2>2. i \in 1 .. Len(order) /\ i < k + 1
    BY <1>3
  <2>3. Weight[order[i]] * n[order[k + 1]] >= Weight[order[k + 1]] * n[order[i]]
    BY <1>3, <2>2 DEF InOrder
  <2> QED
    BY <1>1, <2>1, <2>3
<1>7. \A u \in S \ P : Weight[g] * n[u] >= Weight[u] * n[g]
  <2> SUFFICES ASSUME NEW u \in S \ P PROVE Weight[g] * n[u] >= Weight[u] * n[g]
    OBVIOUS
  <2>1. PICK j \in 1 .. Len(order) : u = order[j]
    BY DEF InOrder, SetOf
  <2>2. ~(j \in 1 .. k)
    BY <1>1, <2>1 DEF Firsts
  <2>3. CASE j = k + 1
    <3>1. u = g /\ Weight[g] * n[g] \in Int
      BY <1>1, <1>5, <2>1, <2>3, Sizes
    <3> QED
      BY <3>1
  <2>4. CASE j # k + 1
    <3>1. k + 1 < j
      BY <1>3, <2>2, <2>4
    <3>2. Weight[order[k + 1]] * n[order[j]] >= Weight[order[j]] * n[order[k + 1]]
      BY <1>3, <3>1 DEF InOrder
    <3> QED
      BY <1>1, <2>1, <3>2
  <2> QED
    BY <2>3, <2>4
<1>8. n[g] > 0
  BY <1>5
<1>9. CASE d.whole /\ Underserved(d, n, g)
  <2>1. Dividing(GiveCores(d, n, g), n, S, P \cup {g}, F \cup {g})
    BY ONLY <1>2, <1>5, <1>6, <1>8, <1>9, DivideCores, n \in [Groups -> Nat], S \in SUBSET Groups
  <2> QED
    BY <1>1, <1>4, <1>9, <2>1 DEF Give, DividingSome
<1>10. CASE ~(d.whole /\ Underserved(d, n, g))
  <2>1. Dividing(GiveShare(d, g), n, S, P \cup {g}, F)
    BY ONLY <1>2, <1>5, <1>7, <1>8, <1>10, DivideShare, n \in [Groups -> Nat], S \in SUBSET Groups
  <2>2. Give(d, n, g) = GiveShare(d, g)
    BY <1>10 DEF Give
  <2> QED
    BY <1>1, <1>4, <2>1, <2>2 DEF DividingSome
<1> QED
  BY <1>9, <1>10

(* The run of the loop over the groups, or a function that follows it as   *)
(* long as what it gives is a state of the division.                       *)
Follows(f, n, total, order) ==
  /\ f[0] = Undivided(total)
  /\ \A k \in 1 .. Len(order) :
       Give(f[k - 1], n, order[k]) \in Divisions => f[k] = Give(f[k - 1], n, order[k])

LEMMA DivideSteps ==
  ASSUME NEW n \in [Groups -> Nat], NEW S \in SUBSET Groups, \A g \in S : n[g] > 0,
         NEW total, total = SumOver(Weight, S), NEW order, InOrder(order, n, S),
         NEW f, Follows(f, n, total, order)
  PROVE  /\ \A k \in 0 .. Len(order) : DividingSome(f[k], n, S, Firsts(order, k))
         /\ \A k \in 1 .. Len(order) : f[k] = Give(f[k - 1], n, order[k])
<1> DEFINE Good(k) == DividingSome(f[k], n, S, Firsts(order, k))
           A == {k \in Nat : k <= Len(order) => Good(k)}
<1>1. Len(order) \in Nat
  BY DEF InOrder
<1>2. Good(0)
  <2>1. Firsts(order, 0) = {}
    BY DEF Firsts
  <2>2. Dividing(f[0], n, S, {}, {})
    BY DivideStarts DEF Follows
  <2> QED
    BY <2>1, <2>2 DEF DividingSome
<1>3. ASSUME NEW k \in Nat, k + 1 <= Len(order), Good(k)
      PROVE  f[k + 1] = Give(f[k], n, order[k + 1]) /\ Good(k + 1)
  <2>1. DividingSome(Give(f[k], n, order[k + 1]), n, S, Firsts(order, k + 1))
    BY <1>3, GiveDivides
  <2>2. Give(f[k], n, order[k + 1]) \in Divisions
    BY <2>1 DEF DividingSome, Dividing, DivCounts
  <2>3. k + 1 \in 1 .. Len(order) /\ (k + 1) - 1 = k
    BY <1>1, <1>3
  <2>4. f[k + 1] = Give(f[k], n, order[k + 1])
    BY <2>2, <2>3 DEF Follows
  <2> QED
    BY <2>1, <2>4
<1> HIDE DEF Good
<1>4. \A k \in Nat : k \in A
  <2>1. 0 \in A
    BY <1>2
  <2>2. ASSUME NEW k \in Nat, k \in A PROVE k + 1 \in A
    BY <1>1, <1>3, <2>2
  <2> HIDE DEF A
  <2> QED
    BY <2>1, <2>2, NumberInduction
<1>5. \A k \in 0 .. Len(order) : Good(k)
  BY <1>1, <1>4
<1>6. ASSUME NEW k \in 1 .. Len(order) PROVE f[k] = Give(f[k - 1], n, order[k])
  <2>1. PICK j \in Nat : j = k - 1 /\ j + 1 = k /\ j \in 0 .. Len(order) /\ j + 1 <= Len(order)
    BY <1>1
  <2>2. f[j + 1] = Give(f[j], n, order[j + 1])
    BY <1>3, <1>5, <2>1
  <2> QED
    BY <2>1, <2>2
<1> QED
  BY <1>5, <1>6 DEF Good

IsDivision(f, n, total, order) ==
  f = [k \in 0 .. Len(order) |->
         IF k = 0 THEN Undivided(total) ELSE Give(f[k - 1], n, order[k])]

LEMMA StepsExist ==
  ASSUME NEW N \in Nat, NEW start \in Divisions, NEW step \in [1 .. N -> [Divisions -> Divisions]]
  PROVE  \E f \in [0 .. N -> Divisions] :
            f[0] = start /\ \A n \in 1 .. N : f[n] = step[n][f[n - 1]]
BY RecursionExists

LEMMA DivisionExists ==
  ASSUME NEW n \in [Groups -> Nat], NEW S \in SUBSET Groups, \A g \in S : n[g] > 0,
         NEW total, total = SumOver(Weight, S), NEW order, InOrder(order, n, S)
  PROVE  \E f : IsDivision(f, n, total, order)
<1>1. PICK N \in Nat : N = Len(order)
  BY DEF InOrder
<1>2. PICK start \in Divisions : start = Undivided(total)
  BY DivideStarts DEF Dividing, DivCounts
<1>3. PICK step : step = [k \in 1 .. N |-> [d \in Divisions |->
                     IF Give(d, n, order[k]) \in Divisions THEN Give(d, n, order[k]) ELSE d]]
  OBVIOUS
<1>4. step \in [1 .. N -> [Divisions -> Divisions]]
  BY <1>3
<1>5. PICK f \in [0 .. N -> Divisions] : f[0] = start /\ \A k \in 1 .. N : f[k] = step[k][f[k - 1]]
  BY <1>4, StepsExist
<1>6. Follows(f, n, total, order)
  <2>1. ASSUME NEW k \in 1 .. N, Give(f[k - 1], n, order[k]) \in Divisions
        PROVE  f[k] = Give(f[k - 1], n, order[k])
    <3>1. k - 1 \in 0 .. N
      BY <1>1
    <3>2. f[k - 1] \in Divisions
      BY <1>5, <3>1
    <3> QED
      BY <1>3, <1>5, <2>1, <3>2
  <2> QED
    BY <1>1, <1>2, <1>5, <2>1 DEF Follows
<1>7. \A k \in 1 .. N : f[k] = Give(f[k - 1], n, order[k])
  <2>1. \A k \in 1 .. Len(order) : f[k] = Give(f[k - 1], n, order[k])
    BY <1>6, DivideSteps
  <2> QED
    BY <1>1, <2>1
<1>8. \A k \in 0 .. N : f[k] = IF k = 0 THEN Undivided(total) ELSE Give(f[k - 1], n, order[k])
  <2>1. \A k \in 0 .. N : k # 0 => k \in 1 .. N
    BY <1>1
  <2> QED
    BY <1>2, <1>5, <1>7, <2>1
<1>9. f = [k \in 0 .. N |-> IF k = 0 THEN Undivided(total) ELSE Give(f[k - 1], n, order[k])]
  BY <1>5, <1>8
<1> QED
  BY <1>1, <1>9 DEF IsDivision

Divided(L, n, S) == \E d : L = d.share /\ DividingSome(d, n, S, S)

LEMMA Divides ==
  ASSUME NEW n \in [Groups -> Nat], NEW S \in SUBSET Groups, \A g \in S : n[g] > 0,
         NEW total, total = SumOver(Weight, S), NEW order, InOrder(order, n, S)
  PROVE  Divided(DistributeWeight(n, total, order), n, S)
<1> DEFINE f == CHOOSE f : IsDivision(f, n, total, order)
<1>1. IsDivision(f, n, total, order)
  BY DivisionExists
<1>2. DistributeWeight(n, total, order) = f[Len(order)].share
  BY DEF DistributeWeight, IsDivision
<1> HIDE DEF f
<1>3. Len(order) \in Nat
  BY DEF InOrder
<1>4. Follows(f, n, total, order)
  <2>1. f[0] = Undivided(total)
    BY <1>1, <1>3 DEF IsDivision
  <2>2. \A k \in 1 .. Len(order) : f[k] = Give(f[k - 1], n, order[k])
    <3>1. \A k \in 1 .. Len(order) : k \in 0 .. Len(order) /\ k # 0
      BY <1>3
    <3> QED
      BY <1>1, <3>1 DEF IsDivision
  <2> QED
    BY <2>1, <2>2 DEF Follows
<1>5. DividingSome(f[Len(order)], n, S, Firsts(order, Len(order)))
  <2>1. Len(order) \in 0 .. Len(order)
    BY <1>3
  <2> QED
    BY <1>4, <2>1, DivideSteps
<1>6. Firsts(order, Len(order)) = S
  BY DEF Firsts, InOrder, SetOf
<1> QED
  BY <1>2, <1>5, <1>6 DEF Divided

-----------------------------------------------------------------------------
(* A division that has come to its end is max-min fair.                    *)
LEMMA DividedCores ==
  ASSUME NEW d, DivCores(d), d \in Divisions
  PROVE  /\ d.share \in [Cores -> [Groups -> 0 .. Unit]]
         /\ \A c \in Cores : CoreGave(d.share, c) <= Unit
<1>1. PICK s : s = d.share /\ s \in Shares
  BY DEF Divisions
<1>2. ASSUME NEW c \in Cores PROVE CoreGave(s, c) \in Nat /\ CoreGave(s, c) <= Unit
  <2>1. d.left[c] \in Int /\ d.left[c] >= 0 /\ d.left[c] + CoreGave(s, c) = Unit
    BY <1>1 DEF DivCores, Divisions, Lefts
  <2>2. \A g \in Groups : s[c][g] \in Nat
    BY <1>1 DEF DivCores, Shares
  <2>3. CoreGave(s, c) \in Nat
    BY <2>2, Sizes, SumNat DEF CoreGave
  <2> QED
    BY <2>1, <2>3, Sizes
<1>3. ASSUME NEW c \in Cores, NEW g \in Groups PROVE s[c][g] \in 0 .. Unit
  <2>1. PICK x : x = s[c]
    OBVIOUS
  <2>2. \A h \in Groups : x[h] \in Nat
    BY <1>1, <2>1 DEF DivCores, Shares
  <2>3. x[g] <= SumOver(x, Groups)
    BY ONLY <2>2, g \in Groups, Sizes, SumAtLeast
  <2>4. SumOver(x, Groups) \in Nat /\ SumOver(x, Groups) <= Unit
    BY <1>2, <2>1 DEF CoreGave
  <2> QED
    BY <2>1, <2>2, <2>3, <2>4, Sizes
<1>4. s \in [Cores -> [Groups -> 0 .. Unit]]
  BY <1>1, <1>3 DEF Shares
<1> QED
  BY <1>1, <1>2, <1>4

(* What a group has when the division is over: all that it can use, or its *)
(* share of the cores that were left when shares were given.               *)
Served(s, n, g, cores, weight) ==
  GroupHas(s, g) = n[g] * Unit /\ Weight[g] * cores >= weight * n[g]
Sharing(s, n, g, cores, weight) ==
  /\ weight * GroupHas(s, g) = Weight[g] * cores * Unit
  /\ Weight[g] * cores <= weight * n[g]

LEMMA DividedGroups ==
  ASSUME NEW n \in [Groups -> Nat], NEW d,
         DividingSome(d, n, {g \in Groups : n[g] > 0}, {g \in Groups : n[g] > 0})
  PROVE  /\ d \in Divisions /\ d.coresLeft \in Nat
         /\ d.weightLeft \in Nat
         /\ \A g \in Groups : GroupHas(d.share, g) \in Nat
         /\ \A g \in Groups : \/ Served(d.share, n, g, d.coresLeft, d.weightLeft)
                              \/ /\ Sharing(d.share, n, g, d.coresLeft, d.weightLeft)
                                 /\ d.weightLeft > 0 /\ ~d.whole
         /\ IF d.whole THEN AllGiven(d.share) = d.firstCore * Unit
                       ELSE AllGiven(d.share) = NumCores * Unit
<1>1. PICK S : S = {g \in Groups : n[g] > 0}
  OBVIOUS
<1>2. PICK F : Dividing(d, n, S, S, F)
  BY <1>1 DEF DividingSome
<1>3. PICK fc, cl, wl, s, due : /\ fc = d.firstCore /\ cl = d.coresLeft /\ wl = d.weightLeft
                                /\ s = d.share /\ due = DueIn(d)
  OBVIOUS
<1>4. /\ d \in Divisions /\ fc \in Nat /\ cl \in Nat /\ s \in Shares /\ F \subseteq S
      /\ S \subseteq Groups /\ fc + cl = NumCores /\ wl = SumOver(Weight, S \ F)
  BY <1>1, <1>2, <1>3 DEF Dividing, DivCounts, Divisions
<1>5. wl \in Nat
  <2>1. IsFiniteSet(S \ F) /\ \A g \in S \ F : Weight[g] \in Nat
    BY <1>4, Sizes, FS_Subset
  <2> QED
    BY <1>4, <2>1, SumNat
<1>6. ASSUME S \ F # {}
      PROVE  /\ wl > 0 /\ (\A g \in Groups : due[g] \in Nat /\ wl * due[g] = Weight[g] * cl * Unit)
             /\ SumOver(due, S \ F) = cl * Unit
  <2>1. PICK U : U = S \ F /\ U \in SUBSET Groups /\ U # {}
    BY <1>4, <1>6
  <2>2. SharesExactly(cl, wl, U)
    BY ONLY <1>4, <2>1, DueFacts
  <2>3. due = DueOf(cl, wl)
    BY <1>3 DEF DueIn
  <2> QED
    BY <2>1, <2>2, <2>3 DEF SharesExactly
<1>7. S \ F # {} <=> ~d.whole
  BY <1>2, <1>4 DEF Dividing, DivPhase
<1>8. ASSUME NEW g \in Groups
      PROVE  /\ GroupHas(s, g) \in Nat
             /\ \/ Served(s, n, g, cl, wl)
                \/ Sharing(s, n, g, cl, wl) /\ wl > 0 /\ ~d.whole
  <2>1. CASE g \in F
    <3>1. GroupHas(s, g) = n[g] * Unit /\ Weight[g] * cl >= wl * n[g]
      BY <1>2, <1>3, <2>1 DEF Dividing, DivGroups
    <3>2. n[g] * Unit \in Nat
      BY Sizes
    <3> QED
      BY <3>1, <3>2 DEF Served
  <2>2. CASE g \in S \ F
    <3>1. GroupHas(s, g) = due[g]
      BY <1>2, <1>3, <2>2 DEF Dividing, DivGroups
    <3>2. ~d.whole
      BY <1>7, <2>2
    <3>3. Weight[g] * cl <= wl * n[g]
      BY <1>2, <1>3, <2>2, <3>2 DEF Dividing, DivPhase
    <3> QED
      BY <1>6, <2>2, <3>1, <3>2, <3>3 DEF Sharing
  <2>3. CASE g \in Groups \ S
    <3>1. GroupHas(s, g) = 0
      BY <1>2, <1>3, <2>3 DEF Dividing, DivGroups
    <3>2. n[g] = 0
      BY <1>1, <2>3
    <3>3. n[g] * Unit = 0 /\ wl * n[g] = 0 /\ Weight[g] * cl \in Nat
      BY <1>4, <1>5, <3>2, Sizes
    <3> QED
      BY <3>1, <3>3 DEF Served
  <2> QED
    BY <2>1, <2>2, <2>3
<1>9. AllGiven(s) = fc * Unit + SumOver(due, S \ F)
  BY <1>2, <1>3 DEF Dividing, DivTotals
<1>10. fc * Unit \in Int /\ cl * Unit \in Int /\ (fc + cl) * Unit = fc * Unit + cl * Unit
  BY <1>4, Sizes
<1>11. CASE d.whole
  <2>1. SumOver(due, S \ F) = 0
    BY <1>7, <1>11, SumEmpty
  <2>2. AllGiven(s) = fc * Unit
    BY <1>9, <1>10, <2>1
  <2> QED
    BY <1>3, <1>4, <1>5, <1>8, <1>11, <2>2
<1>12. CASE ~d.whole
  <2>1. AllGiven(s) = NumCores * Unit
    BY <1>4, <1>6, <1>7, <1>9, <1>10, <1>12
  <2> QED
    BY <1>3, <1>4, <1>5, <1>8, <1>12, <2>1
<1> QED
  BY <1>11, <1>12

(* No group has more than it can use.                                      *)
LEMMA NoneHasTooMuch ==
  ASSUME NEW n \in [Groups -> Nat], NEW s, NEW g \in Groups, GroupHas(s, g) \in Nat,
         NEW cores \in Nat, NEW weight \in Nat,
         Served(s, n, g, cores, weight) \/ (Sharing(s, n, g, cores, weight) /\ weight > 0)
  PROVE  GroupHas(s, g) <= n[g] * Unit
<1>1. PICK x, w, m : x = GroupHas(s, g) /\ w = Weight[g] /\ m = n[g]
  OBVIOUS
<1>2. x \in Nat /\ w \in Nat /\ m \in Nat /\ Unit \in Nat
  BY <1>1, Sizes
<1>3. CASE Served(s, n, g, cores, weight)
  <2>1. x = m * Unit /\ m * Unit \in Int
    BY <1>1, <1>2, <1>3 DEF Served
  <2> QED
    BY <1>1, <2>1
<1>4. CASE Sharing(s, n, g, cores, weight) /\ weight > 0
  <2>1. weight * x = w * cores * Unit /\ w * cores <= weight * m /\ weight > 0
    BY <1>1, <1>4 DEF Sharing
  <2>2. w * cores \in Int /\ weight * m \in Int /\ m * Unit \in Int
    BY <1>2
  <2>3. Unit * (w * cores) <= Unit * (weight * m)
    BY <1>2, <2>1, <2>2, ProductGrows
  <2>4. Unit * (w * cores) = w * cores * Unit /\ Unit * (weight * m) = weight * (m * Unit)
    BY <1>2
  <2>5. weight * x <= weight * (m * Unit)
    BY <2>1, <2>3, <2>4
  <2>6. x <= m * Unit
    BY ONLY <1>2, <2>1, <2>2, <2>5, weight \in Nat, ProductCancels
  <2> QED
    BY <1>1, <2>6
<1> QED
  BY <1>3, <1>4

(* One that has less has no less, by weight, than any other.               *)
LEMMA NoneIsPoorer ==
  ASSUME NEW n \in [Groups -> Nat], NEW s, NEW g \in Groups, NEW h \in Groups,
         GroupHas(s, g) \in Nat, GroupHas(s, h) \in Nat,
         NEW cores \in Nat, NEW weight \in Nat, weight > 0,
         Sharing(s, n, g, cores, weight),
         Served(s, n, h, cores, weight) \/ Sharing(s, n, h, cores, weight)
  PROVE  GroupHas(s, g) * Weight[h] >= GroupHas(s, h) * Weight[g]
<1>1. PICK x, y, u, v, k : /\ x = GroupHas(s, g) /\ y = GroupHas(s, h) /\ k = n[h]
                           /\ u = Weight[g] /\ v = Weight[h]
  OBVIOUS
<1>2. x \in Nat /\ y \in Nat /\ u \in Nat /\ v \in Nat /\ k \in Nat /\ Unit \in Nat
  BY <1>1, Sizes
<1>3. weight * x = u * cores * Unit
  BY <1>1 DEF Sharing
<1>4. PICK e \in Nat : e = u * Unit
  BY <1>2
<1>5. weight * (x * v) = e * (v * cores)
  <2>1. weight * (x * v) = (weight * x) * v
    BY <1>2
  <2>2. (u * cores * Unit) * v = (u * Unit) * (v * cores)
    BY <1>2
  <2> QED
    BY <1>3, <1>4, <2>1, <2>2
<1>6. weight * (y * u) <= e * (v * cores)
  <2>1. CASE Served(s, n, h, cores, weight)
    <3>1. y = k * Unit /\ weight * k <= v * cores
      <4>1. y = k * Unit /\ v * cores >= weight * k
        BY <1>1, <2>1 DEF Served
      <4>2. v * cores \in Int /\ weight * k \in Int
        BY <1>2
      <4> QED
        BY <4>1, <4>2
    <3>2. e * (weight * k) <= e * (v * cores)
      <4>1. v * cores \in Int /\ weight * k \in Int
        BY <1>2
      <4> QED
        BY <1>4, <3>1, <4>1, ProductGrows
    <3>3. weight * ((k * Unit) * u) = (u * Unit) * (weight * k)
      BY <1>2
    <3> QED
      BY <1>4, <3>1, <3>2, <3>3
  <2>2. CASE Sharing(s, n, h, cores, weight)
    <3>1. weight * y = v * cores * Unit
      BY <1>1, <2>2 DEF Sharing
    <3>2. weight * (y * u) = (weight * y) * u /\ (v * cores * Unit) * u = (u * Unit) * (v * cores)
      BY <1>2
    <3>3. weight * (y * u) = e * (v * cores) /\ e * (v * cores) \in Int
      BY <1>2, <1>4, <3>1, <3>2
    <3> QED
      BY <3>3
  <2> QED
    BY <2>1, <2>2
<1>7. x * v \in Int /\ y * u \in Int
  BY <1>2
<1>8. y * u <= x * v
  <2>1. weight * (y * u) <= weight * (x * v) /\ weight \in Nat /\ weight > 0
    BY <1>5, <1>6
  <2> QED
    BY ONLY <1>7, <2>1, ProductCancels
<1> QED
  BY <1>1, <1>7, <1>8

CapacityOf(n) == [g \in Groups |-> n[g] * Unit]
Least(x, y) == IF x < y THEN x ELSE y

FairDivision(s, n) ==
  /\ s \in [Cores -> [Groups -> 0 .. Unit]]
  /\ \A c \in Cores : CoreGave(s, c) <= Unit
  /\ \A g \in Groups : GroupHas(s, g) <= n[g] * Unit
  /\ \A g, h \in Groups :
       GroupHas(s, g) < n[g] * Unit => GroupHas(s, g) * Weight[h] >= GroupHas(s, h) * Weight[g]
  /\ AllGiven(s) = Least(SumOver(CapacityOf(n), Groups), NumCores * Unit)

LEMMA DivisionIsFair ==
  ASSUME NEW n \in [Groups -> Nat], NEW s, Divided(s, n, {g \in Groups : n[g] > 0})
  PROVE  FairDivision(s, n)
<1>1. PICK S : S = {g \in Groups : n[g] > 0}
  OBVIOUS
<1>2. PICK d : s = d.share /\ DividingSome(d, n, S, S)
  BY <1>1 DEF Divided
<1>3. PICK cl, wl : cl = d.coresLeft /\ wl = d.weightLeft
  OBVIOUS
<1>4. /\ d \in Divisions /\ cl \in Nat /\ wl \in Nat
      /\ \A g \in Groups : GroupHas(s, g) \in Nat
      /\ \A g \in Groups : \/ Served(s, n, g, cl, wl)
                           \/ Sharing(s, n, g, cl, wl) /\ wl > 0 /\ ~d.whole
      /\ IF d.whole THEN AllGiven(s) = d.firstCore * Unit ELSE AllGiven(s) = NumCores * Unit
  BY <1>1, <1>2, <1>3, DividedGroups
<1>5. DivCores(d) /\ d.firstCore \in Nat /\ d.firstCore + cl = NumCores /\ cl > 0
  BY <1>2, <1>3 DEF DividingSome, Dividing, DivCounts, Divisions
<1>6. s \in [Cores -> [Groups -> 0 .. Unit]] /\ \A c \in Cores : CoreGave(s, c) <= Unit
  BY <1>2, <1>4, <1>5, DividedCores
<1>7. ASSUME NEW g \in Groups PROVE GroupHas(s, g) <= n[g] * Unit
  <2>1. Served(s, n, g, cl, wl) \/ (Sharing(s, n, g, cl, wl) /\ wl > 0)
    BY <1>4
  <2>2. GroupHas(s, g) \in Nat /\ cl \in Nat /\ wl \in Nat
    BY <1>4
  <2> QED
    BY <2>1, <2>2, NoneHasTooMuch
<1>8. ASSUME NEW g \in Groups, NEW h \in Groups, GroupHas(s, g) < n[g] * Unit
      PROVE  GroupHas(s, g) * Weight[h] >= GroupHas(s, h) * Weight[g]
  <2>1. ~Served(s, n, g, cl, wl)
    <3>1. n[g] * Unit \in Int /\ GroupHas(s, g) \in Int
      BY <1>4, Sizes
    <3> QED
      BY <1>8, <3>1 DEF Served
  <2>2. Sharing(s, n, g, cl, wl) /\ wl > 0
    BY <1>4, <2>1
  <2>3. Served(s, n, h, cl, wl) \/ Sharing(s, n, h, cl, wl)
    BY <1>4
  <2>4. GroupHas(s, g) \in Nat /\ GroupHas(s, h) \in Nat /\ cl \in Nat /\ wl \in Nat
    BY <1>4
  <2> QED
    BY <2>2, <2>3, <2>4, NoneIsPoorer
<1>9. AllGiven(s) = Least(SumOver(CapacityOf(n), Groups), NumCores * Unit)
  <2>1. PICK x, y, whole : x = HasOf(s) /\ y = CapacityOf(n) /\ whole = NumCores * Unit
    OBVIOUS
  <2>2. \A g \in Groups : x[g] = GroupHas(s, g) /\ y[g] = n[g] * Unit
    BY <2>1 DEF HasOf, CapacityOf
  <2>3. \A g \in Groups : x[g] \in Nat /\ y[g] \in Nat /\ x[g] <= y[g]
    <3>1. \A g \in Groups : n[g] * Unit \in Nat
      BY Sizes
    <3> QED
      BY <1>4, <1>7, <2>2, <3>1
  <2>4. IsFiniteSet(Groups) /\ SumOver(y, Groups) \in Nat /\ SumOver(x, Groups) \in Nat
    BY <2>3, Sizes, SumNat
  <2>5. AllGiven(s) = SumOver(x, Groups) /\ whole \in Int
    BY <2>1, Sizes DEF AllGiven
  <2>6. CASE d.whole
    <3>1. \A g \in Groups : x[g] = y[g]
      BY <1>4, <2>2, <2>6 DEF Served
    <3>2. SumOver(x, Groups) = SumOver(y, Groups)
      BY ONLY <2>4, <3>1, SumSame
    <3>3. SumOver(x, Groups) = d.firstCore * Unit
      BY <1>4, <2>5, <2>6
    <3>4. whole = d.firstCore * Unit + cl * Unit
      BY <1>4, <1>5, <2>1, Sizes
    <3>5. cl * Unit > 0
      <4>1. PICK j \in Nat : cl = j + 1
        <5>1. cl - 1 \in Nat /\ cl = (cl - 1) + 1
          BY <1>4, <1>5
        <5> QED
          BY <5>1
      <4>2. (j + 1) * Unit = j * Unit + Unit /\ j * Unit \in Nat
        BY Sizes
      <4> QED
        BY <4>1, <4>2, Sizes
    <3>6. d.firstCore * Unit \in Int /\ cl * Unit \in Int
      BY <1>4, <1>5, Sizes
    <3>7. SumOver(y, Groups) < whole
      BY <3>2, <3>3, <3>4, <3>5, <3>6
    <3> QED
      BY <2>1, <2>5, <3>2, <3>7 DEF Least
  <2>7. CASE ~d.whole
    <3>1. SumOver(x, Groups) = whole
      BY <1>4, <2>1, <2>5, <2>7
    <3>2. \A g \in Groups : x[g] \in Nat /\ y[g] \in Nat /\ 1 * x[g] <= 1 * y[g]
      BY <2>3
    <3>3. 1 * SumOver(x, Groups) <= 1 * SumOver(y, Groups)
      <4>1. 1 \in Nat
        OBVIOUS
      <4> QED
        BY ONLY <2>4, <3>2, <4>1, SumProportion
    <3>4. ~(SumOver(y, Groups) < whole)
      BY <2>4, <3>1, <3>3
    <3> QED
      BY <2>1, <2>5, <3>1, <3>4 DEF Least
  <2> QED
    BY <2>6, <2>7
<1> QED
  BY <1>6, <1>7, <1>8, <1>9 DEF FairDivision

-----------------------------------------------------------------------------
(* The sums as the properties write them.                                  *)
LEMMA ShareIsColumn ==
  ASSUME NEW s, NEW g \in Groups
  PROVE  MapThenSumSet(LAMBDA c : s[c][g], Cores) = GroupHas(s, g)
<1> DEFINE Fold(h) == h = [t \in SUBSET Cores |->
                             IF t = {} THEN 0 ELSE s[Taken(t)][g] + h[t \ {Taken(t)}]]
           k == CHOOSE k : Fold(k)
<1>1. PICK x : x = Column(s, g)
  OBVIOUS
<1>2. \A c \in Cores : x[c] = s[c][g]
  BY <1>1 DEF Column
<1>3. IsFiniteSet(Cores)
  BY CoreFacts
<1>4. PICK h : IsSum(h, x, Cores) /\ SumOver(x, Cores) = h[Cores]
  BY <1>3, SumIsSum
<1>5. \A t \in SUBSET Cores : t # {} => x[Taken(t)] = s[Taken(t)][g]
  BY <1>2, TakenIn
<1>6. \A f : IsSum(f, x, Cores) <=> Fold(f)
  <2> SUFFICES ASSUME NEW f PROVE IsSum(f, x, Cores) <=> Fold(f)
    OBVIOUS
  <2>1. [t \in SUBSET Cores |-> IF t = {} THEN 0 ELSE x[Taken(t)] + f[t \ {Taken(t)}]]
          = [t \in SUBSET Cores |-> IF t = {} THEN 0 ELSE s[Taken(t)][g] + f[t \ {Taken(t)}]]
    BY <1>5
  <2> QED
    BY <2>1 DEF IsSum
<1>7. Fold(k)
  <2> HIDE DEF Fold
  <2>1. Fold(h)
    BY <1>4, <1>6
  <2> QED
    BY <2>1
<1>8. MapThenSumSet(LAMBDA c : s[c][g], Cores) = k[Cores]
  BY DEF MapThenSumSet, MapThenFoldSet, Taken
<1> HIDE DEF k
<1>9. k[Cores] = h[Cores]
  <2>1. IsSum(k, x, Cores)
    BY <1>6, <1>7
  <2> QED
    BY <1>3, <1>4, <2>1, SumUnique
<1> QED
  BY <1>1, <1>4, <1>8, <1>9 DEF GroupHas

-----------------------------------------------------------------------------
(* Where the processes are: q are the queues, cur the running processes    *)
(* and pl the pools.                                                       *)
Queued(q, p) == p \in SetOf(q[GroupOf[p]])

Typed(q, cur, pl) ==
  /\ q \in [Groups -> Seq(Procs)] /\ cur \in [Cores -> Procs \cup {None}]
  /\ pl \in [Cores -> Seq(Procs)]
Orderly(q, pl) ==
  /\ \A g \in Groups : Distinct(q[g]) /\ \A p \in SetOf(q[g]) : GroupOf[p] = g
  /\ \A c \in Cores : Distinct(pl[c])
Somewhere(q, cur, pl) ==
  \A p \in Procs : \/ Queued(q, p)
                   \/ \E c \in Cores : cur[c] = p
                   \/ \E c \in Cores : p \in SetOf(pl[c])
Apart(q, cur, pl) ==
  \A p \in Procs, c \in Cores :
    /\ cur[c] = p => ~Queued(q, p) /\ \A e \in Cores : p \notin SetOf(pl[e]) /\ (cur[e] = p => e = c)
    /\ p \in SetOf(pl[c]) => ~Queued(q, p) /\ \A e \in Cores : p \in SetOf(pl[e]) => e = c

Placed(q, cur, pl) ==
  Typed(q, cur, pl) /\ Orderly(q, pl) /\ Somewhere(q, cur, pl) /\ Apart(q, cur, pl)

OnCores(cur, g) == {c \in Cores : cur[c] # None /\ GroupOf[cur[c]] = g}
Counted(n, q, cur) ==
  /\ n \in [Groups -> Nat]
  /\ \A g \in Groups : n[g] = Len(q[g]) + Cardinality(OnCores(cur, g))

LEMMA ProcFacts == \A p \in Procs : GroupOf[p] \in Groups /\ p # None
BY GroupsAssumption, NoneAssumption

LEMMA OnCoresFinite ==
  ASSUME NEW cur, NEW g
  PROVE  IsFiniteSet(OnCores(cur, g)) /\ Cardinality(OnCores(cur, g)) \in Nat
<1>1. OnCores(cur, g) \subseteq Cores
  BY DEF OnCores
<1> QED
  BY <1>1, CoreFacts, FS_Subset, FS_CardinalityType

(* Core c of cur has no process and that of cur2 has one of group g.       *)
Runs(cur, cur2, c, g) ==
  /\ \A e \in Cores : e # c => cur2[e] = cur[e]
  /\ Cardinality(OnCores(cur2, g)) = Cardinality(OnCores(cur, g)) + 1
  /\ \A h \in Groups : h # g => OnCores(cur2, h) = OnCores(cur, h)

(* A core's process leaves it.                                             *)
LEMMA LeavesCore ==
  ASSUME NEW cur \in [Cores -> Procs \cup {None}], NEW c \in Cores, NEW p \in Procs, cur[c] = p,
         NEW cur2, cur2 = [cur EXCEPT ![c] = None]
  PROVE  Runs(cur2, cur, c, GroupOf[p])
<1>1. /\ cur2 \in [Cores -> Procs \cup {None}] /\ cur2[c] = None
      /\ \A e \in Cores : e # c => cur2[e] = cur[e]
  OBVIOUS
<1>2. c \in OnCores(cur, GroupOf[p])
  BY ProcFacts DEF OnCores
<1>3. OnCores(cur2, GroupOf[p]) = OnCores(cur, GroupOf[p]) \ {c}
  BY <1>1 DEF OnCores
<1>4. \A g \in Groups : g # GroupOf[p] => OnCores(cur2, g) = OnCores(cur, g)
  BY <1>1 DEF OnCores
<1>5. Cardinality(OnCores(cur, GroupOf[p])) = Cardinality(OnCores(cur2, GroupOf[p])) + 1
  <2>1. PICK S, T : S = OnCores(cur, GroupOf[p]) /\ T = OnCores(cur2, GroupOf[p])
    OBVIOUS
  <2>2. IsFiniteSet(S) /\ c \in S /\ T = S \ {c} /\ Cardinality(S) \in Nat
    BY <1>2, <1>3, <2>1, OnCoresFinite
  <2>3. Cardinality(T) = Cardinality(S) - 1
    BY <2>2, FS_RemoveElement
  <2> QED
    BY <2>1, <2>2, <2>3
<1> QED
  BY <1>1, <1>4, <1>5 DEF Runs

LEMMA EntersCore ==
  ASSUME NEW cur \in [Cores -> Procs \cup {None}], NEW c \in Cores, NEW p \in Procs, cur[c] = None,
         NEW cur2, cur2 = [cur EXCEPT ![c] = p]
  PROVE  Runs(cur, cur2, c, GroupOf[p])
<1>1. cur2 \in [Cores -> Procs \cup {None}] /\ cur2[c] = p
  OBVIOUS
<1>2. cur = [cur2 EXCEPT ![c] = None]
  OBVIOUS
<1> QED
  BY <1>1, <1>2, LeavesCore

LEMMA Requeues ==
  ASSUME NEW q, NEW cur, NEW pl, Placed(q, cur, pl), NEW n, Counted(n, q, cur),
         NEW c \in Cores, NEW p \in Procs, cur[c] = p,
         NEW q2, q2 = [q EXCEPT ![GroupOf[p]] = Append(@, p)],
         NEW cur2, cur2 = [cur EXCEPT ![c] = None]
  PROVE  Placed(q2, cur2, pl) /\ Counted(n, q2, cur2)
<1>1. PICK g : g = GroupOf[p] /\ g \in Groups
  BY ProcFacts
<1>2. q \in [Groups -> Seq(Procs)] /\ cur \in [Cores -> Procs \cup {None}]
  BY DEF Placed, Typed
<1>3. PICK s : s = q[g] /\ s \in Seq(Procs) /\ Distinct(s) /\ p \notin SetOf(s)
  BY <1>1, <1>2 DEF Placed, Orderly, Apart, Queued
<1>4. /\ Append(s, p) \in Seq(Procs) /\ SetOf(Append(s, p)) = SetOf(s) \cup {p}
      /\ Len(Append(s, p)) = Len(s) + 1 /\ Distinct(Append(s, p)) /\ Len(s) \in Nat
  BY <1>3, AppendList
<1>5. /\ q2 \in [Groups -> Seq(Procs)] /\ q2[g] = Append(s, p)
      /\ \A h \in Groups : h # g => q2[h] = q[h]
  BY <1>1, <1>2, <1>3, <1>4
<1>6. /\ cur2 \in [Cores -> Procs \cup {None}] /\ cur2[c] = None
      /\ \A e \in Cores : e # c => cur2[e] = cur[e]
      /\ Cardinality(OnCores(cur, g)) = Cardinality(OnCores(cur2, g)) + 1
      /\ \A h \in Groups : h # g => OnCores(cur2, h) = OnCores(cur, h)
  <2>1. cur2 \in [Cores -> Procs \cup {None}] /\ cur2[c] = None
    BY <1>2
  <2>2. Runs(cur2, cur, c, g)
    BY <1>1, <1>2, LeavesCore
  <2> QED
    BY <2>1, <2>2 DEF Runs
<1>7. \A r \in Procs : Queued(q2, r) <=> Queued(q, r) \/ r = p
  <2> SUFFICES ASSUME NEW r \in Procs PROVE Queued(q2, r) <=> Queued(q, r) \/ r = p
    OBVIOUS
  <2>1. GroupOf[r] \in Groups
    BY ProcFacts
  <2> QED
    BY <1>1, <1>3, <1>4, <1>5, <2>1 DEF Queued
<1>8. \A r \in Procs, e \in Cores : cur2[e] = r <=> cur[e] = r /\ r # p
  BY <1>6, ProcFacts DEF Placed, Apart
<1>9. Typed(q2, cur2, pl)
  BY <1>5, <1>6 DEF Placed, Typed
<1>10. Orderly(q2, pl)
  BY <1>1, <1>3, <1>4, <1>5 DEF Placed, Orderly
<1>11. Somewhere(q2, cur2, pl)
  BY <1>7, <1>8 DEF Placed, Somewhere
<1>12. Apart(q2, cur2, pl)
  <2>1. \A e \in Cores : p \notin SetOf(pl[e])
    BY DEF Placed, Apart
  <2> SUFFICES ASSUME NEW r \in Procs, NEW e \in Cores
               PROVE  /\ cur2[e] = r => /\ ~Queued(q2, r)
                                        /\ \A f \in Cores : r \notin SetOf(pl[f]) /\ (cur2[f] = r => f = e)
                      /\ r \in SetOf(pl[e]) => ~Queued(q2, r) /\ \A f \in Cores : r \in SetOf(pl[f]) => f = e
    BY DEF Apart
  <2>2. /\ cur[e] = r => ~Queued(q, r) /\ \A f \in Cores : r \notin SetOf(pl[f]) /\ (cur[f] = r => f = e)
        /\ r \in SetOf(pl[e]) => ~Queued(q, r) /\ \A f \in Cores : r \in SetOf(pl[f]) => f = e
    BY DEF Placed, Apart
  <2>3. \A f \in Cores : cur2[f] = r <=> cur[f] = r /\ r # p
    BY <1>8
  <2>4. Queued(q2, r) <=> Queued(q, r) \/ r = p
    BY <1>7
  <2> QED
    BY <2>1, <2>2, <2>3, <2>4
<1>13. Counted(n, q2, cur2)
  <2> SUFFICES ASSUME NEW h \in Groups PROVE n[h] = Len(q2[h]) + Cardinality(OnCores(cur2, h))
    BY DEF Counted
  <2>1. n[h] = Len(q[h]) + Cardinality(OnCores(cur, h))
    BY DEF Counted
  <2>2. CASE h = g
    <3>1. PICK k \in Nat, l \in Nat : k = Cardinality(OnCores(cur2, g)) /\ l = Len(s)
      BY <1>4, OnCoresFinite
    <3>2. Len(q2[g]) = l + 1 /\ Len(q[g]) = l
      BY <1>3, <1>4, <1>5, <3>1
    <3>3. Cardinality(OnCores(cur, g)) = k + 1
      BY <1>6, <3>1
    <3>4. n[h] = l + (k + 1) /\ l + (k + 1) = (l + 1) + k
      BY <2>1, <2>2, <3>2, <3>3
    <3> QED
      BY <2>2, <3>1, <3>2, <3>4
  <2>3. CASE h # g
    BY <1>5, <1>6, <2>1, <2>3
  <2> QED
    BY <2>2, <2>3
<1> QED
  BY <1>9, <1>10, <1>11, <1>12, <1>13 DEF Placed

LEMMA TakesNext ==
  ASSUME NEW q, NEW cur, NEW pl, Placed(q, cur, pl), NEW n, Counted(n, q, cur),
         NEW c \in Cores, cur[c] = None, NEW g \in Groups, q[g] # <<>>,
         NEW q2, q2 = [q EXCEPT ![g] = Tail(@)],
         NEW cur2, cur2 = [cur EXCEPT ![c] = Head(q[g])]
  PROVE  Placed(q2, cur2, pl) /\ Counted(n, q2, cur2)
<1>2. q \in [Groups -> Seq(Procs)] /\ cur \in [Cores -> Procs \cup {None}]
  BY DEF Placed, Typed
<1>3. PICK s : s = q[g] /\ s \in Seq(Procs) /\ Distinct(s) /\ s # <<>>
  BY <1>2 DEF Placed, Orderly
<1>4. PICK p : p = Head(s) /\ p \in SetOf(s) /\ p \in Procs /\ p # None /\ GroupOf[p] = g
  BY <1>3, UnconsList, ProcFacts DEF Placed, Orderly
<1>5. /\ Tail(s) \in Seq(Procs) /\ SetOf(Tail(s)) = SetOf(s) \ {p}
      /\ Distinct(Tail(s)) /\ Len(Tail(s)) = Len(s) - 1 /\ Len(s) \in Nat
  BY <1>3, <1>4, UnconsList
<1>6. /\ q2 \in [Groups -> Seq(Procs)] /\ q2[g] = Tail(s)
      /\ \A h \in Groups : h # g => q2[h] = q[h]
  BY <1>2, <1>3, <1>5
<1>7. /\ cur2 \in [Cores -> Procs \cup {None}] /\ cur2[c] = p
      /\ \A e \in Cores : e # c => cur2[e] = cur[e]
      /\ Cardinality(OnCores(cur2, g)) = Cardinality(OnCores(cur, g)) + 1
      /\ \A h \in Groups : h # g => OnCores(cur2, h) = OnCores(cur, h)
  <2>1. cur2 \in [Cores -> Procs \cup {None}] /\ cur2[c] = p /\ cur2 = [cur EXCEPT ![c] = p]
    BY <1>2, <1>3, <1>4
  <2>2. Runs(cur, cur2, c, g)
    BY <1>2, <1>4, <2>1, EntersCore
  <2> QED
    BY <2>1, <2>2 DEF Runs
<1>8. \A r \in Procs : Queued(q2, r) <=> Queued(q, r) /\ r # p
  <2> SUFFICES ASSUME NEW r \in Procs PROVE Queued(q2, r) <=> Queued(q, r) /\ r # p
    OBVIOUS
  <2>1. GroupOf[r] \in Groups
    BY ProcFacts
  <2> QED
    BY <1>3, <1>4, <1>5, <1>6, <2>1 DEF Queued
<1>9. Queued(q, p)
  BY <1>3, <1>4 DEF Queued
<1>10. \A e \in Cores : cur[e] # p
  BY <1>4, <1>9 DEF Placed, Apart
<1>11. \A r \in Procs, e \in Cores : cur2[e] = r <=> cur[e] = r \/ (r = p /\ e = c)
  BY <1>4, <1>7, <1>10, ProcFacts
<1>12. Typed(q2, cur2, pl)
  BY <1>6, <1>7 DEF Placed, Typed
<1>13. Orderly(q2, pl)
  BY <1>3, <1>5, <1>6 DEF Placed, Orderly
<1>14. Somewhere(q2, cur2, pl)
  BY <1>4, <1>8, <1>11 DEF Placed, Somewhere
<1>15. Apart(q2, cur2, pl)
  <2>1. \A e \in Cores : p \notin SetOf(pl[e])
    BY <1>4, <1>9 DEF Placed, Apart
  <2> SUFFICES ASSUME NEW r \in Procs, NEW e \in Cores
               PROVE  /\ cur2[e] = r => /\ ~Queued(q2, r)
                                        /\ \A f \in Cores : r \notin SetOf(pl[f]) /\ (cur2[f] = r => f = e)
                      /\ r \in SetOf(pl[e]) => ~Queued(q2, r) /\ \A f \in Cores : r \in SetOf(pl[f]) => f = e
    BY DEF Apart
  <2>2. /\ cur[e] = r => ~Queued(q, r) /\ \A f \in Cores : r \notin SetOf(pl[f]) /\ (cur[f] = r => f = e)
        /\ r \in SetOf(pl[e]) => ~Queued(q, r) /\ \A f \in Cores : r \in SetOf(pl[f]) => f = e
    BY DEF Placed, Apart
  <2>3. \A f \in Cores : cur2[f] = r <=> cur[f] = r \/ (r = p /\ f = c)
    BY <1>11
  <2>4. Queued(q2, r) <=> Queued(q, r) /\ r # p
    BY <1>8
  <2>5. r = p => \A f \in Cores : cur[f] # r
    BY <1>10
  <2> QED
    BY <2>1, <2>2, <2>3, <2>4, <2>5
<1>16. Counted(n, q2, cur2)
  <2> SUFFICES ASSUME NEW h \in Groups PROVE n[h] = Len(q2[h]) + Cardinality(OnCores(cur2, h))
    BY DEF Counted
  <2>1. n[h] = Len(q[h]) + Cardinality(OnCores(cur, h))
    BY DEF Counted
  <2>2. CASE h = g
    <3>1. Cardinality(OnCores(cur, g)) \in Nat
      BY OnCoresFinite
    <3> QED
      BY <1>3, <1>5, <1>6, <1>7, <2>1, <2>2, <3>1
  <2>3. CASE h # g
    BY <1>6, <1>7, <2>1, <2>3
  <2> QED
    BY <2>2, <2>3
<1> QED
  BY <1>12, <1>13, <1>14, <1>15, <1>16 DEF Placed

Departs(cur, cur2, pl, pl2, n, n2, c, p) ==
  /\ cur[c] = p /\ cur2 = [cur EXCEPT ![c] = None]
  /\ pl2 = [pl EXCEPT ![c] = <<p>> \o @] /\ n2 = [n EXCEPT ![GroupOf[p]] = @ - 1]

LEMMA Dequeues ==
  ASSUME NEW q, NEW cur, NEW pl, Placed(q, cur, pl), NEW n, Counted(n, q, cur),
         NEW c \in Cores, NEW p \in Procs, NEW cur2, NEW pl2, NEW n2,
         Departs(cur, cur2, pl, pl2, n, n2, c, p)
  PROVE  Placed(q, cur2, pl2) /\ Counted(n2, q, cur2)
<1> USE DEF Departs
<1>1. PICK g : g = GroupOf[p] /\ g \in Groups
  BY ProcFacts
<1>2. /\ q \in [Groups -> Seq(Procs)] /\ cur \in [Cores -> Procs \cup {None}]
      /\ pl \in [Cores -> Seq(Procs)] /\ n \in [Groups -> Nat]
  BY DEF Placed, Typed, Counted
<1>3. PICK s : s = pl[c] /\ s \in Seq(Procs) /\ Distinct(s) /\ p \notin SetOf(s)
  BY <1>2 DEF Placed, Orderly, Apart
<1>4. <<p>> \o s \in Seq(Procs) /\ SetOf(<<p>> \o s) = SetOf(s) \cup {p} /\ Distinct(<<p>> \o s)
  BY <1>3, ConsList
<1>5. /\ pl2 \in [Cores -> Seq(Procs)] /\ pl2[c] = <<p>> \o s
      /\ \A e \in Cores : e # c => pl2[e] = pl[e]
  BY <1>2, <1>3, <1>4
<1>6. /\ cur2 \in [Cores -> Procs \cup {None}] /\ cur2[c] = None
      /\ \A e \in Cores : e # c => cur2[e] = cur[e]
      /\ Cardinality(OnCores(cur, g)) = Cardinality(OnCores(cur2, g)) + 1
      /\ \A h \in Groups : h # g => OnCores(cur2, h) = OnCores(cur, h)
  <2>1. cur2 \in [Cores -> Procs \cup {None}] /\ cur2[c] = None
    BY <1>2
  <2>2. Runs(cur2, cur, c, g)
    BY <1>1, <1>2, LeavesCore
  <2> QED
    BY <2>1, <2>2 DEF Runs
<1>7. \A r \in Procs, e \in Cores : r \in SetOf(pl2[e]) <=> r \in SetOf(pl[e]) \/ (r = p /\ e = c)
  BY <1>3, <1>4, <1>5
<1>8. \A r \in Procs, e \in Cores : cur2[e] = r <=> cur[e] = r /\ r # p
  BY <1>6, ProcFacts DEF Placed, Apart
<1>9. Typed(q, cur2, pl2)
  BY <1>5, <1>6 DEF Placed, Typed
<1>10. Orderly(q, pl2)
  BY <1>4, <1>5 DEF Placed, Orderly
<1>11. Somewhere(q, cur2, pl2)
  BY <1>7, <1>8 DEF Placed, Somewhere
<1>12. Apart(q, cur2, pl2)
  <2>1. ~Queued(q, p) /\ \A e \in Cores : p \notin SetOf(pl[e])
    BY DEF Placed, Apart
  <2> SUFFICES ASSUME NEW r \in Procs, NEW e \in Cores
               PROVE  /\ cur2[e] = r => /\ ~Queued(q, r)
                                        /\ \A f \in Cores : r \notin SetOf(pl2[f]) /\ (cur2[f] = r => f = e)
                      /\ r \in SetOf(pl2[e]) => ~Queued(q, r) /\ \A f \in Cores : r \in SetOf(pl2[f]) => f = e
    BY DEF Apart
  <2>2. /\ cur[e] = r => ~Queued(q, r) /\ \A f \in Cores : r \notin SetOf(pl[f]) /\ (cur[f] = r => f = e)
        /\ r \in SetOf(pl[e]) => ~Queued(q, r) /\ \A f \in Cores : r \in SetOf(pl[f]) => f = e
    BY DEF Placed, Apart
  <2>3. \A f \in Cores : cur2[f] = r <=> cur[f] = r /\ r # p
    BY <1>8
  <2>4. \A f \in Cores : r \in SetOf(pl2[f]) <=> r \in SetOf(pl[f]) \/ (r = p /\ f = c)
    BY <1>7
  <2>5. r = p => ~Queued(q, r) /\ \A f \in Cores : r \notin SetOf(pl[f])
    BY <2>1
  <2> QED
    BY <2>2, <2>3, <2>4, <2>5
<1>13. Counted(n2, q, cur2)
  <2>1. PICK k \in Nat, l \in Nat : k = Cardinality(OnCores(cur2, g)) /\ l = Len(q[g])
    BY <1>1, <1>2, OnCoresFinite
  <2>2. n[g] = l + (k + 1) /\ l + (k + 1) - 1 = l + k
    <3>1. n[g] = Len(q[g]) + Cardinality(OnCores(cur, g))
      BY <1>1 DEF Counted
    <3>2. Cardinality(OnCores(cur, g)) = k + 1
      BY <1>6, <2>1
    <3> QED
      BY <2>1, <3>1, <3>2
  <2>3. n2[g] = l + k /\ n2 \in [Groups -> Nat] /\ \A h \in Groups : h # g => n2[h] = n[h]
    BY <1>1, <1>2, <2>2
  <2>4. \A h \in Groups : h # g => n2[h] = Len(q[h]) + Cardinality(OnCores(cur2, h))
    BY <1>6, <2>3 DEF Counted
  <2> QED
    BY <1>1, <2>1, <2>3, <2>4 DEF Counted
<1> QED
  BY <1>9, <1>10, <1>11, <1>12, <1>13 DEF Placed

Returns(q, q2, pl, pl2, n, n2, c, p) ==
  /\ pl[c] # <<>> /\ p = Head(pl[c]) /\ q2 = [q EXCEPT ![GroupOf[p]] = <<p>> \o @]
  /\ pl2 = [pl EXCEPT ![c] = Tail(@)] /\ n2 = [n EXCEPT ![GroupOf[p]] = @ + 1]

LEMMA Enqueues ==
  ASSUME NEW q, NEW cur, NEW pl, Placed(q, cur, pl), NEW n, Counted(n, q, cur),
         NEW c \in Cores, NEW p, NEW q2, NEW pl2, NEW n2, Returns(q, q2, pl, pl2, n, n2, c, p)
  PROVE  Placed(q2, cur, pl2) /\ Counted(n2, q2, cur) /\ p \in Procs
<1> USE DEF Returns
<1>1. /\ q \in [Groups -> Seq(Procs)] /\ cur \in [Cores -> Procs \cup {None}]
      /\ pl \in [Cores -> Seq(Procs)] /\ n \in [Groups -> Nat]
  BY DEF Placed, Typed, Counted
<1>2. PICK s : s = pl[c] /\ s \in Seq(Procs) /\ Distinct(s) /\ s # <<>>
  BY <1>1 DEF Placed, Orderly
<1>3. p \in SetOf(s) /\ p \in Procs
  BY <1>2, UnconsList
<1>4. Tail(s) \in Seq(Procs) /\ SetOf(Tail(s)) = SetOf(s) \ {p} /\ Distinct(Tail(s))
  BY <1>2, UnconsList
<1>5. PICK g : g = GroupOf[p] /\ g \in Groups
  BY <1>3, ProcFacts
<1>6. ~Queued(q, p) /\ (\A e \in Cores : cur[e] # p) /\ \A e \in Cores : p \in SetOf(pl[e]) => e = c
  BY <1>2, <1>3 DEF Placed, Apart
<1>7. PICK t : t = q[g] /\ t \in Seq(Procs) /\ Distinct(t) /\ p \notin SetOf(t)
  BY <1>1, <1>5, <1>6 DEF Placed, Orderly, Queued
<1>8. /\ <<p>> \o t \in Seq(Procs) /\ SetOf(<<p>> \o t) = SetOf(t) \cup {p} /\ Distinct(<<p>> \o t)
      /\ Len(<<p>> \o t) = Len(t) + 1 /\ Len(t) \in Nat
  <2>1. <<p>> \o t \in Seq(Procs) /\ SetOf(<<p>> \o t) = SetOf(t) \cup {p} /\ Distinct(<<p>> \o t)
    BY <1>3, <1>7, ConsList
  <2>2. Len(<<p>> \o t) = Len(t) + 1 /\ Len(t) \in Nat
    BY <1>3, <1>7
  <2> QED
    BY <2>1, <2>2
<1>9. /\ q2 \in [Groups -> Seq(Procs)] /\ q2[g] = <<p>> \o t
      /\ \A h \in Groups : h # g => q2[h] = q[h]
  BY <1>1, <1>5, <1>7, <1>8
<1>10. /\ pl2 \in [Cores -> Seq(Procs)] /\ pl2[c] = Tail(s)
       /\ \A e \in Cores : e # c => pl2[e] = pl[e]
  BY <1>1, <1>2, <1>4
<1>11. \A r \in Procs : Queued(q2, r) <=> Queued(q, r) \/ r = p
  <2> SUFFICES ASSUME NEW r \in Procs PROVE Queued(q2, r) <=> Queued(q, r) \/ r = p
    OBVIOUS
  <2>1. GroupOf[r] \in Groups
    BY ProcFacts
  <2> QED
    BY <1>5, <1>7, <1>8, <1>9, <2>1 DEF Queued
<1>12. \A r \in Procs, e \in Cores : r \in SetOf(pl2[e]) <=> r \in SetOf(pl[e]) /\ r # p
  <2> SUFFICES ASSUME NEW r \in Procs, NEW e \in Cores
               PROVE  r \in SetOf(pl2[e]) <=> r \in SetOf(pl[e]) /\ r # p
    OBVIOUS
  <2>1. CASE e = c
    BY <1>2, <1>4, <1>10, <2>1
  <2>2. CASE e # c
    BY <1>6, <1>10, <2>2
  <2> QED
    BY <2>1, <2>2
<1>13. Typed(q2, cur, pl2)
  BY <1>1, <1>9, <1>10 DEF Typed
<1>14. Orderly(q2, pl2)
  BY <1>4, <1>5, <1>7, <1>8, <1>9, <1>10 DEF Placed, Orderly
<1>15. Somewhere(q2, cur, pl2)
  BY <1>11, <1>12 DEF Placed, Somewhere
<1>16. Apart(q2, cur, pl2)
  <2> SUFFICES ASSUME NEW r \in Procs, NEW e \in Cores
               PROVE  /\ cur[e] = r => /\ ~Queued(q2, r)
                                       /\ \A f \in Cores : r \notin SetOf(pl2[f]) /\ (cur[f] = r => f = e)
                      /\ r \in SetOf(pl2[e]) => ~Queued(q2, r) /\ \A f \in Cores : r \in SetOf(pl2[f]) => f = e
    BY DEF Apart
  <2>2. /\ cur[e] = r => ~Queued(q, r) /\ \A f \in Cores : r \notin SetOf(pl[f]) /\ (cur[f] = r => f = e)
        /\ r \in SetOf(pl[e]) => ~Queued(q, r) /\ \A f \in Cores : r \in SetOf(pl[f]) => f = e
    BY DEF Placed, Apart
  <2>3. \A f \in Cores : r \in SetOf(pl2[f]) <=> r \in SetOf(pl[f]) /\ r # p
    BY <1>12
  <2>4. Queued(q2, r) <=> Queued(q, r) \/ r = p
    BY <1>11
  <2>5. r = p => \A f \in Cores : cur[f] # r
    BY <1>6
  <2> QED
    BY <2>2, <2>3, <2>4, <2>5
<1>17. Counted(n2, q2, cur)
  <2>1. PICK k \in Nat, l \in Nat : k = Cardinality(OnCores(cur, g)) /\ l = Len(t)
    BY <1>8, OnCoresFinite
  <2>2. n[g] = l + k /\ l + k + 1 = (l + 1) + k /\ Len(q2[g]) = l + 1
    <3>1. n[g] = Len(q[g]) + Cardinality(OnCores(cur, g))
      BY <1>5 DEF Counted
    <3>2. Len(q[g]) = l /\ Len(q2[g]) = l + 1
      BY <1>7, <1>8, <1>9, <2>1
    <3> QED
      BY <2>1, <3>1, <3>2
  <2>3. n2[g] = l + k + 1 /\ n2 \in [Groups -> Nat] /\ \A h \in Groups : h # g => n2[h] = n[h]
    BY <1>1, <1>5, <2>2
  <2>4. \A h \in Groups : h # g => n2[h] = Len(q2[h]) + Cardinality(OnCores(cur, h))
    BY <1>9, <2>3 DEF Counted
  <2> QED
    BY <1>5, <2>1, <2>2, <2>3, <2>4 DEF Counted
<1> QED
  BY <1>3, <1>13, <1>14, <1>15, <1>16, <1>17 DEF Placed

(* dequeue puts the process at the end of the queue and removes it again.  *)
LEMMA AppendedIsRemoved ==
  ASSUME NEW s \in Seq(Procs), NEW p \in Procs, p \notin SetOf(s)
  PROVE  RemoveFirst(Append(s, p), p) = s
<1>0. PICK t, k : t = Append(s, p) /\ k = Len(s) + 1
  OBVIOUS
<1>1. t = Append(s, p) /\ k = Len(s) + 1 /\ k \in Nat
  BY <1>0
<1>2. /\ t \in Seq(Procs) /\ Len(t) = k /\ t[k] = p /\ k - 1 = Len(s)
      /\ \A i \in 1 .. Len(s) : t[i] = s[i] /\ t[i] # p
  <2>1. \A i \in 1 .. Len(s) : s[i] # p
    BY DEF SetOf
  <2> QED
    BY <1>1, <2>1
<1>3. {i \in 1 .. Len(t) : t[i] = p} = {k}
  <2>1. \A i \in 1 .. Len(t) : i = k \/ i \in 1 .. Len(s)
    BY <1>2
  <2>2. k \in 1 .. Len(t)
    BY <1>1, <1>2
  <2> QED
    BY <1>2, <2>1, <2>2
<1>4. Min({k}) = k
  BY DEF Min
<1>5. SelectInSeq(t, LAMBDA v : v = p) = k
  BY <1>3, <1>4 DEF SelectInSeq
<1>6. \E i \in 1 .. Len(t) : t[i] = p
  BY <1>3
<1>7. RemoveFirst(t, p) = SubSeq(t, 1, k - 1) \o SubSeq(t, k + 1, Len(t))
  BY <1>5, <1>6 DEF RemoveFirst, RemoveAt
<1>8. SubSeq(t, 1, k - 1) = s
  BY <1>1, <1>2
<1>9. SubSeq(t, k + 1, Len(t)) = <<>>
  BY <1>2
<1> QED
  BY <1>1, <1>7, <1>8, <1>9

-----------------------------------------------------------------------------
(* The inductive invariant.                                                *)
Listed(n, S, total) ==
  S = {g \in Groups : n[g] > 0} /\ total = SumOver(Weight, S)

IInv ==
  /\ Placed(runqueue, current, pool)
  /\ Counted(num_threads, runqueue, current)
  /\ Listed(num_threads, listed, total_weight)
  /\ FairDivision(local_weight, num_threads)
  /\ pc \in [Cores -> {"schedule", "choose"}] /\ aborted \in BOOLEAN

LEMMA WeightsOf ==
  ASSUME NEW S \in SUBSET Groups
  PROVE  /\ SumOver(Weight, S) \in Nat
         /\ \A g \in S : SumOver(Weight, S) = Weight[g] + SumOver(Weight, S \ {g})
         /\ \A g \in Groups : SumOver(Weight, S \cup {g}) =
                                SumOver(Weight, S) + (IF g \in S THEN 0 ELSE Weight[g])
<1>1. IsFiniteSet(S) /\ \A x \in S : Weight[x] \in Nat
  BY Sizes, FS_Subset
<1>2. SumOver(Weight, S) \in Nat
  BY <1>1, SumNat
<1>3. ASSUME NEW g \in S
      PROVE  SumOver(Weight, S) = Weight[g] + SumOver(Weight, S \ {g})
  <2>1. \A x \in S : Weight[x] \in Int
    BY <1>1
  <2>2. IsFiniteSet(S) /\ g \in S
    BY <1>1
  <2> QED
    BY ONLY <2>1, <2>2, SumRemove
<1>4. ASSUME NEW g \in Groups
      PROVE  SumOver(Weight, S \cup {g}) = SumOver(Weight, S) + (IF g \in S THEN 0 ELSE Weight[g])
  <2>1. CASE g \in S
    <3>1. S \cup {g} = S
      BY <2>1
    <3>2. SumOver(Weight, S \cup {g}) = SumOver(Weight, S)
      BY <3>1
    <3>3. SumOver(Weight, S) = SumOver(Weight, S) + 0
      BY <1>2
    <3>4. (IF g \in S THEN 0 ELSE Weight[g]) = 0
      BY <2>1
    <3> QED
      BY ONLY <3>2, <3>3, <3>4
  <2>2. CASE g \notin S
    <3>1. \A x \in S \cup {g} : Weight[x] \in Int
      BY Sizes
    <3>2. SumOver(Weight, S \cup {g}) = Weight[g] + SumOver(Weight, S)
      BY ONLY <1>1, <2>2, <3>1, SumAdd
    <3> QED
      BY <1>2, <2>2, <3>2, Sizes
  <2> QED
    BY <2>1, <2>2
<1> QED
  BY <1>2, <1>3, <1>4

LEMMA DividesFairly ==
  ASSUME NEW n \in [Groups -> Nat], NEW S, NEW total, Listed(n, S, total),
         NEW order \in SortedBy(n, S)
  PROVE  FairDivision(DistributeWeight(n, total, order), n)
<1>1. /\ S = {g \in Groups : n[g] > 0} /\ S \in SUBSET Groups /\ (\A g \in S : n[g] > 0)
      /\ total = SumOver(Weight, S)
  BY DEF Listed
<1>2. InOrder(order, n, S)
  BY <1>1, OrderFacts
<1>3. Divided(DistributeWeight(n, total, order), n, S)
  BY <1>1, <1>2, Divides
<1> QED
  BY <1>1, <1>3, DivisionIsFair

LEMMA InitInv == Init => IInv
<1> SUFFICES ASSUME Init PROVE IInv
  OBVIOUS
<1>1. \A g \in Groups : Members(g) \subseteq Procs /\ IsFiniteSet(Members(g)) /\ Cardinality(Members(g)) \in Nat
  <2>1. \A g \in Groups : Members(g) \subseteq Procs
    BY DEF Members
  <2> QED
    BY <2>1, GroupsAssumption, FS_Subset, FS_CardinalityType
<1>2. ASSUME NEW g \in Groups
      PROVE  /\ runqueue[g] \in Seq(Procs) /\ Distinct(runqueue[g]) /\ SetOf(runqueue[g]) = Members(g)
             /\ Len(runqueue[g]) = Cardinality(Members(g))
  <2>1. PICK s : s = runqueue[g] /\ (\E h \in Groups : s \in SetToSeqs(Members(h))) /\ ToSet(s) = Members(g)
    BY DEF Init
  <2>2. PICK h \in Groups : s \in SetToSeqs(Members(h))
    BY <2>1
  <2>3. PICK M : M = Members(h) /\ M \subseteq Procs /\ Cardinality(M) \in Nat
    BY <1>1
  <2>4. /\ s \in [1 .. Cardinality(M) -> M]
        /\ \A i, j \in 1 .. Cardinality(M) : i # j => s[i] # s[j]
    BY <2>2, <2>3 DEF SetToSeqs
  <2>5. s \in Seq(Procs) /\ Len(s) = Cardinality(M)
    BY <2>3, <2>4
  <2>6. Distinct(s)
    BY <2>4, <2>5 DEF Distinct
  <2>7. SetOf(s) = Members(g)
    BY <2>1, <2>5 DEF ToSet, SetOf
  <2>8. Len(s) = Cardinality(Members(g))
    BY <2>5, <2>6, <2>7, CountList
  <2> QED
    BY <2>1, <2>5, <2>6, <2>7, <2>8
<1>3. /\ \A c \in Cores : current[c] = None /\ pool[c] = <<>>
      /\ current \in [Cores -> Procs \cup {None}] /\ pool \in [Cores -> Seq(Procs)]
      /\ pc \in [Cores -> {"schedule", "choose"}] /\ aborted = FALSE
      /\ num_threads = [g \in Groups |-> Cardinality(Members(g))]
  BY DEF Init
<1>4. runqueue \in [Groups -> Seq(Procs)]
  <2>1. runqueue = [g \in Groups |-> runqueue[g]]
    BY DEF Init
  <2> QED
    BY <1>2, <2>1
<1>5. \A c \in Cores : SetOf(pool[c]) = {} /\ Distinct(pool[c])
  BY <1>3 DEF SetOf, Distinct
<1>6. \A p \in Procs : Queued(runqueue, p)
  BY <1>2, ProcFacts DEF Queued, Members
<1>7. Placed(runqueue, current, pool)
  <2>1. Typed(runqueue, current, pool)
    BY <1>3, <1>4 DEF Typed
  <2>2. Orderly(runqueue, pool)
    BY <1>2, <1>5 DEF Orderly, Members
  <2>3. Somewhere(runqueue, current, pool)
    BY <1>6 DEF Somewhere
  <2>4. Apart(runqueue, current, pool)
    BY <1>3, <1>5, ProcFacts DEF Apart
  <2> QED
    BY <2>1, <2>2, <2>3, <2>4 DEF Placed
<1>8. num_threads \in [Groups -> Nat]
  BY <1>1, <1>3
<1>9. Counted(num_threads, runqueue, current)
  <2>1. \A g \in Groups : OnCores(current, g) = {}
    BY <1>3 DEF OnCores
  <2>2. \A g \in Groups : num_threads[g] = Len(runqueue[g]) + 0
    BY <1>1, <1>2, <1>3
  <2> QED
    BY <1>8, <2>1, <2>2, FS_EmptySet DEF Counted
<1>10. Listed(num_threads, listed, total_weight)
  <2>1. listed = {GroupOf[p] : p \in Procs}
    BY DEF Init
  <2>2. \A g \in Groups : num_threads[g] > 0 <=> Members(g) # {}
    BY <1>1, <1>3, FS_EmptySet
  <2>3. listed = {g \in Groups : num_threads[g] > 0}
    BY <2>1, <2>2, ProcFacts DEF Members
  <2>4. total_weight = SumOver(Weight, listed)
    BY DEF Init, SumOver, MapThenSumSet, MapThenFoldSet
  <2> QED
    BY <2>3, <2>4 DEF Listed
<1>11. FairDivision(local_weight, num_threads)
  <2>1. PICK order \in SortedBy(num_threads, listed) :
          local_weight = DistributeWeight(num_threads, total_weight, order)
    BY DEF Init
  <2> QED
    BY <1>8, <1>10, <2>1, DividesFairly
<1> QED
  BY <1>3, <1>7, <1>9, <1>10, <1>11 DEF IInv

LEMMA ScheduleInv == ASSUME IInv, NEW c \in Cores, Schedule(c) PROVE IInv'
<1>1. PICK q : q = Requeued(c)
  OBVIOUS
<1>2. PICK cur : cur = [current EXCEPT ![c] = None]
  OBVIOUS
<1>3. current \in [Cores -> Procs \cup {None}] /\ runqueue \in [Groups -> Seq(Procs)]
  BY DEF IInv, Placed, Typed
<1>4. cur \in [Cores -> Procs \cup {None}] /\ cur[c] = None
  BY <1>2, <1>3
<1>5. Placed(q, cur, pool) /\ Counted(num_threads, q, cur)
  <2>1. CASE current[c] = None
    <3>1. cur = current /\ q = runqueue
      BY <1>1, <1>2, <1>3, <2>1 DEF Requeued
    <3> QED
      BY <3>1 DEF IInv
  <2>2. CASE current[c] # None
    <3>1. PICK p \in Procs : p = current[c]
      BY <1>3, <2>2
    <3>2. q = [runqueue EXCEPT ![GroupOf[p]] = Append(@, p)]
      BY <1>1, <2>2, <3>1 DEF Requeued
    <3>3. Placed(runqueue, current, pool) /\ Counted(num_threads, runqueue, current) /\ current[c] = p
      BY <3>1 DEF IInv
    <3> QED
      BY ONLY <1>2, <3>2, <3>3, Requeues, c \in Cores, p \in Procs
  <2> QED
    BY <2>1, <2>2
<1>6. pool' = pool /\ num_threads' = num_threads
  BY DEF Schedule, lists
<1>7. Placed(runqueue', current', pool) /\ Counted(num_threads, runqueue', current')
  <2>1. CASE current' = [current EXCEPT ![c] = None] /\ runqueue' = q
    <3>1. current' = cur /\ runqueue' = q
      BY <1>2, <2>1
    <3> QED
      BY <1>5, <3>1
  <2>2. ASSUME NEW g \in Groups, q[g] # <<>>, current' = [current EXCEPT ![c] = Head(q[g])],
               runqueue' = [q EXCEPT ![g] = Tail(@)]
        PROVE  Placed(runqueue', current', pool) /\ Counted(num_threads, runqueue', current')
    <3>1. PICK q2, cur2 : q2 = runqueue' /\ cur2 = current'
      OBVIOUS
    <3>2. cur2 = [cur EXCEPT ![c] = Head(q[g])]
      BY <1>2, <1>3, <2>2, <3>1
    <3>3. q2 = [q EXCEPT ![g] = Tail(@)] /\ q[g] # <<>> /\ g \in Groups
      BY <2>2, <3>1
    <3>4. Placed(q2, cur2, pool) /\ Counted(num_threads, q2, cur2)
      BY ONLY <1>4, <1>5, <3>2, <3>3, TakesNext, c \in Cores
    <3> QED
      BY <3>1, <3>4
  <2>3. \/ current' = [current EXCEPT ![c] = None] /\ runqueue' = q
        \/ \E g \in Groups : /\ q[g] # <<>> /\ current' = [current EXCEPT ![c] = Head(q[g])]
                             /\ runqueue' = [q EXCEPT ![g] = Tail(@)]
    BY <1>1 DEF Schedule, LocalGroups
  <2> QED
    BY <2>1, <2>2, <2>3
<1>8. Listed(num_threads', listed', total_weight') /\ FairDivision(local_weight', num_threads')
  BY DEF IInv, Schedule, lists
<1>9. pc' \in [Cores -> {"schedule", "choose"}] /\ aborted' \in BOOLEAN
  BY DEF IInv, Schedule
<1> QED
  BY <1>6, <1>7, <1>8, <1>9 DEF IInv

LEMMA EnqueueInv == ASSUME IInv, NEW c \in Cores, Enqueue(c) PROVE IInv'
<1>1. PICK p : p = Head(pool[c])
  OBVIOUS
<1>2. PICK g : g = GroupOf[p]
  OBVIOUS
<1>3. PICK q2, pl2, n2 : /\ q2 = [runqueue EXCEPT ![g] = <<p>> \o @]
                         /\ pl2 = [pool EXCEPT ![c] = Tail(@)]
                         /\ n2 = [num_threads EXCEPT ![g] = @ + 1]
  OBVIOUS
<1>4. /\ runqueue' = q2 /\ pool' = pl2 /\ num_threads' = n2 /\ current' = current
      /\ listed' = listed \cup {g}
      /\ total_weight' = total_weight + (IF g \in listed THEN 0 ELSE Weight[g])
      /\ pool[c] # <<>>
      /\ pc' = [pc EXCEPT ![c] = "schedule"]
      /\ Enforce(n2, listed', total_weight')
  BY <1>1, <1>2, <1>3 DEF Enqueue
<1>5. Placed(q2, current, pl2) /\ Counted(n2, q2, current) /\ p \in Procs
  <2>1. Placed(runqueue, current, pool) /\ Counted(num_threads, runqueue, current)
    BY DEF IInv
  <2>2. Returns(runqueue, q2, pool, pl2, num_threads, n2, c, p)
    BY <1>1, <1>2, <1>3, <1>4 DEF Returns
  <2> QED
    BY ONLY <2>1, <2>2, Enqueues, c \in Cores
<1>6. g \in Groups /\ num_threads \in [Groups -> Nat] /\ n2 \in [Groups -> Nat]
  BY <1>2, <1>5, ProcFacts DEF IInv, Counted
<1>7. Listed(n2, listed', total_weight')
  <2>1. listed = {h \in Groups : num_threads[h] > 0} /\ total_weight = SumOver(Weight, listed)
    BY DEF IInv, Listed
  <2>2. \A h \in Groups : n2[h] > 0 <=> num_threads[h] > 0 \/ h = g
    BY <1>3, <1>6
  <2>3. listed' = {h \in Groups : n2[h] > 0}
    BY <1>4, <1>6, <2>1, <2>2
  <2>4. listed \in SUBSET Groups
    BY <2>1
  <2>5. SumOver(Weight, listed \cup {g}) = SumOver(Weight, listed) + (IF g \in listed THEN 0 ELSE Weight[g])
    BY <1>6, <2>4, WeightsOf
  <2> QED
    BY <1>4, <2>1, <2>3, <2>5 DEF Listed
<1>8. FairDivision(local_weight', n2) /\ aborted' \in BOOLEAN
  <2>1. PICK order \in SortedBy(n2, listed') : local_weight' = DistributeWeight(n2, total_weight', order)
    BY <1>4 DEF Enforce
  <2>2. aborted' \in BOOLEAN
    BY <1>4 DEF Enforce
  <2> QED
    BY <1>6, <1>7, <2>1, <2>2, DividesFairly
<1>9. pc' \in [Cores -> {"schedule", "choose"}]
  BY <1>4 DEF IInv
<1> QED
  BY <1>4, <1>5, <1>7, <1>8, <1>9 DEF IInv

LEMMA DequeueInv == ASSUME IInv, NEW c \in Cores, Dequeue(c) PROVE IInv'
<1>1. PICK p : p = current[c]
  OBVIOUS
<1>2. PICK g : g = GroupOf[p]
  OBVIOUS
<1>3. PICK cur2, pl2, n2 : /\ cur2 = [current EXCEPT ![c] = None]
                           /\ pl2 = [pool EXCEPT ![c] = <<p>> \o @]
                           /\ n2 = [num_threads EXCEPT ![g] = @ - 1]
  OBVIOUS
<1>4. p \in Procs /\ current[c] = p /\ p # None
  BY <1>1 DEF IInv, Placed, Typed, Dequeue, DequeueUnlistingAt
<1>5. g \in Groups /\ num_threads \in [Groups -> Nat] /\ runqueue \in [Groups -> Seq(Procs)]
  BY <1>2, <1>4, ProcFacts DEF IInv, Counted, Placed, Typed
<1>6. /\ current' = cur2 /\ pool' = pl2 /\ num_threads' = n2
      /\ listed' = (IF num_threads[g] = 1 THEN listed \ {g} ELSE listed)
      /\ total_weight' = (IF num_threads[g] = 1 THEN total_weight - Weight[g] ELSE total_weight)
      /\ runqueue' = [runqueue EXCEPT ![g] = RemoveFirst(Requeued(c)[g], p)]
      /\ pc' = [pc EXCEPT ![c] = "schedule"]
      /\ Enforce(n2, listed', total_weight')
  BY <1>1, <1>2, <1>3 DEF Dequeue, DequeueUnlistingAt
<1>7. runqueue' = runqueue
  <2>1. PICK s : s = runqueue[g] /\ s \in Seq(Procs)
    BY <1>5
  <2>2. p \notin SetOf(s)
    BY <1>2, <1>4, <2>1 DEF IInv, Placed, Apart, Queued
  <2>3. Requeued(c)[g] = Append(s, p)
    BY <1>2, <1>4, <1>5, <2>1 DEF Requeued
  <2>4. RemoveFirst(Append(s, p), p) = s
    BY <1>4, <2>1, <2>2, AppendedIsRemoved
  <2> QED
    BY <1>5, <1>6, <2>1, <2>3, <2>4
<1>8. Placed(runqueue, cur2, pl2) /\ Counted(n2, runqueue, cur2)
  <2>1. Placed(runqueue, current, pool) /\ Counted(num_threads, runqueue, current)
    BY DEF IInv
  <2>2. Departs(current, cur2, pool, pl2, num_threads, n2, c, p)
    BY <1>2, <1>3, <1>4 DEF Departs
  <2> QED
    BY <1>4, <2>1, <2>2, Dequeues
<1>9. n2 \in [Groups -> Nat] /\ n2[g] = num_threads[g] - 1 /\ \A h \in Groups : h # g => n2[h] = num_threads[h]
  BY <1>3, <1>5, <1>8 DEF Counted
<1>10. Listed(n2, listed', total_weight')
  <2>1. listed = {h \in Groups : num_threads[h] > 0} /\ total_weight = SumOver(Weight, listed)
    BY DEF IInv, Listed
  <2>2. num_threads[g] \in Nat /\ num_threads[g] >= 1
    BY <1>5, <1>9
  <2>3. CASE num_threads[g] = 1
    <3>1. \A h \in Groups : n2[h] > 0 <=> num_threads[h] > 0 /\ h # g
      BY <1>9, <2>3
    <3>2. listed' = {h \in Groups : n2[h] > 0}
      BY <1>6, <2>1, <2>3, <3>1
    <3>3. listed \in SUBSET Groups /\ g \in listed
      BY <1>5, <2>1, <2>2
    <3>4. /\ SumOver(Weight, listed) = Weight[g] + SumOver(Weight, listed \ {g})
          /\ SumOver(Weight, listed \ {g}) \in Nat
      BY <3>3, WeightsOf
    <3>5. total_weight' = SumOver(Weight, listed')
      BY <1>5, <1>6, <2>1, <2>3, <3>4, Sizes
    <3> QED
      BY <3>2, <3>5 DEF Listed
  <2>4. CASE num_threads[g] # 1
    <3>1. \A h \in Groups : n2[h] > 0 <=> num_threads[h] > 0
      BY <1>9, <2>2, <2>4
    <3>2. listed' = listed /\ total_weight' = total_weight
      BY <1>6, <2>4
    <3> QED
      BY <2>1, <3>1, <3>2 DEF Listed
  <2> QED
    BY <2>3, <2>4
<1>11. FairDivision(local_weight', n2) /\ aborted' \in BOOLEAN
  <2>1. PICK order \in SortedBy(n2, listed') : local_weight' = DistributeWeight(n2, total_weight', order)
    BY <1>6 DEF Enforce
  <2>2. aborted' \in BOOLEAN
    BY <1>6 DEF Enforce
  <2> QED
    BY <1>9, <1>10, <2>1, <2>2, DividesFairly
<1>12. pc' \in [Cores -> {"schedule", "choose"}]
  BY <1>6 DEF IInv
<1> QED
  BY <1>6, <1>7, <1>8, <1>10, <1>11, <1>12 DEF IInv

LEMMA NextInv == IInv /\ [Next]_vars => IInv'
<1> SUFFICES ASSUME IInv, [Next]_vars PROVE IInv'
  OBVIOUS
<1>1. CASE UNCHANGED vars
  BY <1>1 DEF vars, lists, IInv
<1>2. CASE Next
  <2>1. PICK c \in Cores : Schedule(c) \/ Enqueue(c) \/ Dequeue(c) \/ RunOn(c)
    BY <1>2 DEF Next
  <2>2. CASE Schedule(c)
    BY <2>2, ScheduleInv
  <2>3. CASE Enqueue(c)
    BY <2>3, EnqueueInv
  <2>4. CASE Dequeue(c)
    BY <2>4, DequeueInv
  <2>5. CASE RunOn(c)
    BY <2>5 DEF RunOn, lists, IInv
  <2> QED
    BY <2>1, <2>2, <2>3, <2>4, <2>5
<1> QED
  BY <1>1, <1>2

LEMMA Invariance == Spec => []IInv
<1> QED
  BY InitInv, NextInv, PTL DEF Spec

-----------------------------------------------------------------------------
(* Every variable has its type, and no group has more of a core than all   *)
(* of it: what enqueue, dequeue, schedule and distribute_weight leave is   *)
(* always a state that they can work from.                                 *)
THEOREM TypeCorrect == Spec => []TypeOK
<1>1. IInv => TypeOK
  <2> SUFFICES ASSUME IInv PROVE TypeOK
    OBVIOUS
  <2>1. listed \subseteq Groups /\ total_weight \in Nat
    <3>1. listed \in SUBSET Groups /\ total_weight = SumOver(Weight, listed)
      BY DEF IInv, Listed
    <3> QED
      BY <3>1, WeightsOf
  <2>2. local_weight \in [Cores -> [Groups -> 0 .. Unit]]
    BY DEF IInv, FairDivision
  <2> QED
    BY <2>1, <2>2 DEF TypeOK, IInv, Placed, Typed, Counted
<1> QED
  BY <1>1, Invariance, PTL

(* Through all enqueues, dequeues and switches a process is on its group's *)
(* queue, on one core or in one pool, and once: none is lost, run twice or *)
(* queued twice; and num_threads is what it counts.                        *)
THEOREM ThreadsAreCounted == Spec => []ThreadsCounted
<1>1. IInv => ThreadsCounted
  <2> SUFFICES ASSUME IInv PROVE ThreadsCounted
    OBVIOUS
  <2>1. ASSUME NEW p \in Procs
        PROVE  Cardinality({i \in DOMAIN runqueue[GroupOf[p]] : runqueue[GroupOf[p]][i] = p})
                 + Cardinality({c \in Cores : current[c] = p})
                 + Cardinality({c \in Cores : Contains(pool[c], p)}) = 1
    <3>1. PICK s : s = runqueue[GroupOf[p]] /\ s \in Seq(Procs) /\ Distinct(s)
      BY ProcFacts DEF IInv, Placed, Typed, Orderly
    <3>2. PICK Q, C, P : /\ Q = {i \in DOMAIN s : s[i] = p}
                         /\ C = {c \in Cores : current[c] = p}
                         /\ P = {c \in Cores : Contains(pool[c], p)}
      OBVIOUS
    <3>3. \A c \in Cores : Contains(pool[c], p) <=> p \in SetOf(pool[c])
      BY DEF Contains, SetOf
    <3>4. p \in SetOf(s) <=> Queued(runqueue, p)
      BY <3>1 DEF Queued
    <3>5. (Queued(runqueue, p) => \E n : Q = {n}) /\ (~Queued(runqueue, p) => Q = {})
      BY <3>1, <3>2, <3>4, OnceInList
    <3>6. CASE Queued(runqueue, p)
      <4>1. C = {} /\ P = {}
        BY <3>2, <3>3, <3>6 DEF IInv, Placed, Apart
      <4>2. Cardinality(Q) = 1 /\ Cardinality(C) = 0 /\ Cardinality(P) = 0
        BY <3>5, <3>6, <4>1, FS_EmptySet, FS_Singleton
      <4> QED
        BY <3>1, <3>2, <4>2
    <3>7. CASE \E c \in Cores : current[c] = p
      <4>1. PICK c \in Cores : current[c] = p
        BY <3>7
      <4>2. C = {c} /\ P = {} /\ ~Queued(runqueue, p)
        BY <3>2, <3>3, <4>1 DEF IInv, Placed, Apart
      <4>3. Cardinality(Q) = 0 /\ Cardinality(C) = 1 /\ Cardinality(P) = 0
        BY <3>5, <4>2, FS_EmptySet, FS_Singleton
      <4> QED
        BY <3>1, <3>2, <4>3
    <3>8. CASE \E c \in Cores : p \in SetOf(pool[c])
      <4>1. PICK c \in Cores : p \in SetOf(pool[c])
        BY <3>8
      <4>2. C = {} /\ P = {c} /\ ~Queued(runqueue, p)
        BY <3>2, <3>3, <4>1 DEF IInv, Placed, Apart
      <4>3. Cardinality(Q) = 0 /\ Cardinality(C) = 0 /\ Cardinality(P) = 1
        BY <3>5, <4>2, FS_EmptySet, FS_Singleton
      <4> QED
        BY <3>1, <3>2, <4>3
    <3> QED
      BY <3>6, <3>7, <3>8 DEF IInv, Placed, Somewhere
  <2>2. \A g \in Groups : num_threads[g] = Len(runqueue[g]) + Cardinality(Running(g))
    BY DEF IInv, Counted, OnCores, Running
  <2> QED
    BY <2>1, <2>2 DEF ThreadsCounted
<1> QED
  BY <1>1, Invariance, PTL

(* The list of groups and total_weight, which distribute_weight divides    *)
(* by, are those of the groups with threads, whatever comes and goes.      *)
THEOREM ListsTheThreaded == Spec => []ListedByThreads
<1>1. IInv => ListedByThreads
  <2> SUFFICES ASSUME IInv PROVE ListedByThreads
    OBVIOUS
  <2>1. listed = {g \in Groups : num_threads[g] > 0} /\ total_weight = SumOver(Weight, listed)
    BY DEF IInv, Listed
  <2>2. total_weight = MapThenSumSet(LAMBDA g : Weight[g], listed)
    BY <2>1 DEF SumOver, MapThenSumSet, MapThenFoldSet
  <2> QED
    BY <2>1, <2>2 DEF ListedByThreads
<1> QED
  BY <1>1, Invariance, PTL

(* What strict weights promise of distribute_weight, for any number of     *)
(* cores and any weights: no core is given out twice, no group gets more   *)
(* than a core per thread, one that gets less is no poorer by weight than  *)
(* any other, and no core is left idle that a thread could use.            *)
THEOREM CoresSharedFairly == Spec => []SharesAreMaxMinFair
<1>1. IInv => SharesAreMaxMinFair
  <2> SUFFICES ASSUME IInv PROVE SharesAreMaxMinFair
    OBVIOUS
  <2>1. PICK s, n : s = local_weight /\ n = num_threads
    OBVIOUS
  <2>2. FairDivision(s, n)
    BY <2>1 DEF IInv
  <2>3. ASSUME NEW g \in Groups PROVE Share[g] = GroupHas(s, g)
    BY <2>1, ShareIsColumn DEF Share
  <2>4. Share = HasOf(s)
    <3>1. Share = [g \in Groups |-> Share[g]]
      BY DEF Share
    <3> QED
      BY <2>3, <3>1 DEF HasOf
  <2>5. Capacity = CapacityOf(n)
    BY <2>1 DEF Capacity, CapacityOf
  <2>6. \A g \in Groups : Capacity[g] = n[g] * Unit
    BY <2>1 DEF Capacity
  <2>7. MapThenSumSet(LAMBDA g : Share[g], Groups) = AllGiven(s)
    <3>1. MapThenSumSet(LAMBDA g : Share[g], Groups) = SumOver(Share, Groups)
      BY DEF SumOver, MapThenSumSet, MapThenFoldSet
    <3> QED
      BY <2>4, <3>1 DEF AllGiven
  <2>8. MapThenSumSet(LAMBDA g : Capacity[g], Groups) = SumOver(CapacityOf(n), Groups)
    <3>1. MapThenSumSet(LAMBDA g : Capacity[g], Groups) = SumOver(Capacity, Groups)
      BY DEF SumOver, MapThenSumSet, MapThenFoldSet
    <3> QED
      BY <2>5, <3>1
  <2>9. \A c \in Cores : MapThenSumSet(LAMBDA g : local_weight[c][g], Groups) <= Unit
    <3> SUFFICES ASSUME NEW c \in Cores
                 PROVE  MapThenSumSet(LAMBDA g : local_weight[c][g], Groups) <= Unit
      OBVIOUS
    <3>1. MapThenSumSet(LAMBDA g : local_weight[c][g], Groups) = SumOver(local_weight[c], Groups)
      BY DEF SumOver, MapThenSumSet, MapThenFoldSet
    <3>2. SumOver(s[c], Groups) <= Unit
      BY <2>2 DEF FairDivision, CoreGave
    <3> QED
      BY <2>1, <3>1, <3>2
  <2>10. \A g \in Groups : Share[g] <= Capacity[g]
    BY <2>2, <2>3, <2>6 DEF FairDivision
  <2>11. \A g, h \in Groups :
           Share[g] < Capacity[g] => Share[g] * Weight[h] >= Share[h] * Weight[g]
    BY <2>2, <2>3, <2>6 DEF FairDivision
  <2>12. AllGiven(s) = IF SumOver(CapacityOf(n), Groups) < NumCores * Unit
                       THEN SumOver(CapacityOf(n), Groups) ELSE NumCores * Unit
    BY <2>2 DEF FairDivision, Least
  <2> QED
    BY <2>7, <2>8, <2>9, <2>10, <2>11, <2>12 DEF SharesAreMaxMinFair
<1> QED
  BY <1>1, Invariance, PTL
=============================================================================
