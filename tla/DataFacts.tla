----------------------------- MODULE DataFacts -----------------------------
(***************************************************************************)
(* What the proofs about recursive functions, sums and lists rest on:      *)
(* induction over numbers and over the subsets of a finite set; that what  *)
(* is defined by recursion exists; what MapThenSumSet comes to when a      *)
(* member is added, removed or changed; and which elements a list has.     *)
(* The claim of an induction is a set here, that of the numbers or subsets *)
(* for which it holds, and not an operator.                                *)
(***************************************************************************)
EXTENDS Integers, SequencesExt, FiniteSetTheorems, SequenceTheorems, WellFoundedInduction, TLAPS

LEMMA NumberInduction ==
  ASSUME NEW A, 0 \in A, \A n \in Nat : n \in A => n + 1 \in A
  PROVE  \A n \in Nat : n \in A
<1> DEFINE T == {n \in Nat : n \notin A}
<1> SUFFICES ASSUME T # {} PROVE FALSE
  OBVIOUS
<1>1. PICK n \in T : \A m \in T : ~(<<m, n>> \in OpToRel(<, Nat))
  <2>1. T \subseteq Nat
    OBVIOUS
  <2> HIDE DEF T
  <2> QED
    BY <2>1, NatLessThanWellFounded, WFMin
<1>2. n # 0 /\ n - 1 \in Nat
  OBVIOUS
<1>3. n - 1 \notin T
  <2> DEFINE pair == <<n - 1, n>>
  <2>1. pair \in Nat \X Nat /\ pair[1] < pair[2]
    BY <1>2
  <2>2. pair \in OpToRel(<, Nat)
    BY <2>1 DEF OpToRel
  <2> QED
    BY <1>1, <2>2
<1> QED
  BY <1>2, <1>3

(* Of the numbers that satisfy something, one is the least.                *)
LEMMA LeastNumber ==
  ASSUME NEW T \in SUBSET Nat, T # {}
  PROVE  \E n \in T : \A m \in T : n <= m
<1>1. PICK n \in T : \A m \in T : ~(<<m, n>> \in OpToRel(<, Nat))
  <2>1. T \subseteq Nat
    OBVIOUS
  <2> QED
    BY <2>1, NatLessThanWellFounded, WFMin
<1>2. ASSUME NEW m \in T PROVE ~(m < n)
  <2> DEFINE pair == <<m, n>>
  <2>1. pair \in Nat \X Nat /\ (m < n => pair[1] < pair[2])
    OBVIOUS
  <2>2. m < n => pair \in OpToRel(<, Nat)
    BY <2>1 DEF OpToRel
  <2> QED
    BY <1>1, <2>2
<1>3. \A m \in T : n <= m
  BY <1>2
<1> QED
  BY <1>3

(* The same of integers that are not below a bound.                        *)
LEMMA LeastInteger ==
  ASSUME NEW T \in SUBSET Int, T # {}, NEW b \in Int, \A x \in T : x >= b
  PROVE  \E x \in T : \A y \in T : x <= y
<1> DEFINE U == {n \in Nat : n + b \in T}
<1>1. PICK x \in T : TRUE
  OBVIOUS
<1>2. x - b \in Nat /\ (x - b) + b = x
  BY <1>1
<1>3. PICK n \in U : \A m \in U : n <= m
  BY <1>1, <1>2, LeastNumber
<1>4. ASSUME NEW y \in T PROVE n + b <= y
  <2>1. y - b \in Nat /\ (y - b) + b = y
    OBVIOUS
  <2>2. n <= y - b
    BY <1>3, <2>1
  <2> QED
    BY <1>3, <2>1, <2>2
<1> QED
  BY <1>3, <1>4

(* Of the positions with the least value, one is the first.                *)
LEMMA FirstLeast ==
  ASSUME NEW E \in SUBSET Nat, E # {}, NEW f, NEW b \in Int,
         \A i \in E : f[i] \in Int /\ f[i] >= b
  PROVE  \E i \in E : \A j \in E : f[i] < f[j] \/ (f[i] = f[j] /\ i <= j)
<1>1. PICK v \in {f[i] : i \in E} : \A w \in {f[i] : i \in E} : v <= w
  <2> DEFINE T == {f[i] : i \in E}
  <2>1. T \in SUBSET Int /\ T # {} /\ \A x \in T : x >= b
    OBVIOUS
  <2> QED
    BY <2>1, LeastInteger
<1>2. PICK i \in {k \in E : f[k] = v} : \A j \in {k \in E : f[k] = v} : i <= j
  <2> DEFINE T == {k \in E : f[k] = v}
  <2>1. T \in SUBSET Nat /\ T # {}
    BY <1>1
  <2> HIDE DEF T
  <2>2. PICK n \in T : \A m \in T : n <= m
    BY <2>1, LeastNumber
  <2>3. n \in {k \in E : f[k] = v} /\ \A m \in {k \in E : f[k] = v} : n <= m
    BY <2>2 DEF T
  <2> HIDE DEF T
  <2> QED
    BY <2>3
<1>3. ASSUME NEW j \in E PROVE f[i] < f[j] \/ (f[i] = f[j] /\ i <= j)
  <2>1. i \in E /\ f[i] = v /\ v \in Int /\ f[j] \in Int /\ v <= f[j]
    BY <1>1, <1>2
  <2>2. f[j] = v => i <= j
    BY <1>2
  <2> QED
    BY <2>1, <2>2
<1> QED
  BY <1>2, <1>3

(* Applying a function again and again.                                    *)
Iterates(up, F, x, N) == up = [k \in N |-> IF k = 0 THEN x ELSE F[up[k - 1]]]

LEMMA IterateExists == ASSUME NEW F, NEW x PROVE \E up : Iterates(up, F, x, Nat)
<1> DEFINE A == {n \in Nat : \E up : Iterates(up, F, x, 0 .. n)}
           H(n) == CHOOSE up : Iterates(up, F, x, 0 .. n)
           up == [n \in Nat |-> H(n)[n]]
<1>1. 0 \in A
  <2> DEFINE u == [k \in 0 .. 0 |-> x]
  <2>1. Iterates(u, F, x, 0 .. 0)
    BY DEF Iterates
  <2> QED
    BY <2>1
<1>2. ASSUME NEW n \in Nat, n \in A
      PROVE  n + 1 \in A
  <2>1. PICK u : Iterates(u, F, x, 0 .. n)
    BY <1>2
  <2> DEFINE v == [k \in 0 .. (n + 1) |-> IF k = n + 1 THEN F[u[n]] ELSE u[k]]
  <2>2. \A k \in 0 .. (n + 1) : v[k] = IF k = 0 THEN x ELSE F[v[k - 1]]
    <3> SUFFICES ASSUME NEW k \in 0 .. (n + 1)
                 PROVE  v[k] = IF k = 0 THEN x ELSE F[v[k - 1]]
      OBVIOUS
    <3>1. CASE k = n + 1
      BY <3>1
    <3>2. CASE k \in 0 .. n
      <4>1. u[k] = IF k = 0 THEN x ELSE F[u[k - 1]]
        BY <2>1, <3>2 DEF Iterates
      <4> QED
        BY <3>2, <4>1
    <3> QED
      BY <3>1, <3>2
  <2>3. v = [k \in 0 .. (n + 1) |-> v[k]]
    OBVIOUS
  <2>4. Iterates(v, F, x, 0 .. (n + 1))
    <3> HIDE DEF v
    <3> QED
      BY <2>2, <2>3 DEF Iterates
  <2> QED
    BY <2>4
<1>3. \A n \in Nat : n \in A
  <2> HIDE DEF A
  <2> QED
    BY <1>1, <1>2, NumberInduction
<1>4. \A n \in Nat : Iterates(H(n), F, x, 0 .. n)
  BY <1>3
<1> HIDE DEF H
<1>5. ASSUME NEW n \in Nat
      PROVE  H(n + 1)[n] = H(n)[n]
  <2> DEFINE B == {k \in Nat : k <= n => H(n + 1)[k] = H(n)[k]}
  <2>1. 0 \in B
    <3>1. Iterates(H(n), F, x, 0 .. n) /\ Iterates(H(n + 1), F, x, 0 .. (n + 1))
      BY <1>4
    <3>2. H(n)[0] = x /\ H(n + 1)[0] = x
      BY <3>1 DEF Iterates
    <3> QED
      BY <3>2
  <2>2. ASSUME NEW k \in Nat, k \in B
        PROVE  k + 1 \in B
    <3> SUFFICES ASSUME k + 1 <= n PROVE H(n + 1)[k + 1] = H(n)[k + 1]
      OBVIOUS
    <3>1. Iterates(H(n), F, x, 0 .. n) /\ Iterates(H(n + 1), F, x, 0 .. (n + 1))
      BY <1>4
    <3>2. /\ k + 1 \in 0 .. n /\ k + 1 \in 0 .. (n + 1) /\ k + 1 # 0 /\ (k + 1) - 1 = k
      OBVIOUS
    <3>3. H(n)[k + 1] = F[H(n)[k]]
      BY <3>1, <3>2 DEF Iterates
    <3>4. H(n + 1)[k + 1] = F[H(n + 1)[k]]
      BY <3>1, <3>2 DEF Iterates
    <3> QED
      BY <2>2, <3>3, <3>4
  <2>3. \A k \in Nat : k \in B
    <3> HIDE DEF B
    <3> QED
      BY <2>1, <2>2, NumberInduction
  <2> QED
    BY <2>3
<1>6. \A n \in Nat : up[n] = IF n = 0 THEN x ELSE F[up[n - 1]]
  <2> SUFFICES ASSUME NEW n \in Nat PROVE up[n] = IF n = 0 THEN x ELSE F[up[n - 1]]
    OBVIOUS
  <2>1. H(n)[n] = IF n = 0 THEN x ELSE F[H(n)[n - 1]]
    BY <1>4 DEF Iterates
  <2>2. CASE n = 0
    BY <2>1, <2>2
  <2>3. CASE n # 0
    <3>1. n - 1 \in Nat /\ (n - 1) + 1 = n
      BY <2>3
    <3>2. H(n)[n - 1] = H(n - 1)[n - 1]
      BY <1>5, <3>1
    <3> QED
      BY <2>1, <2>3, <3>1, <3>2
  <2> QED
    BY <2>2, <2>3
<1>7. up = [n \in Nat |-> up[n]]
  OBVIOUS
<1>8. Iterates(up, F, x, Nat)
  <2> HIDE DEF up
  <2> QED
    BY <1>6, <1>7 DEF Iterates
<1> QED
  BY <1>8

-----------------------------------------------------------------------------
(* Sums as the fold computes them.                                         *)
SumOver(f, S) == MapThenSumSet(LAMBDA x : f[x], S)

(* The member of s that the fold takes next, and the function it computes. *)
Taken(s) == CHOOSE x \in s : TRUE
IsSum(h, f, S) ==
  h = [s \in SUBSET S |-> IF s = {} THEN 0 ELSE f[Taken(s)] + h[s \ {Taken(s)}]]

LEMMA TakenIn == \A s : s # {} => Taken(s) \in s
  BY DEF Taken

LEMMA SubsetInduction ==
  ASSUME NEW S, IsFiniteSet(S), NEW G,
         \A T \in SUBSET S : (\A U \in SUBSET T : U # T => U \in G) => T \in G
  PROVE  \A T \in SUBSET S : T \in G
<1> DEFINE A == {T \in SUBSET S : T \notin G}
           R == StrictSubsetOrdering(S)
<1> SUFFICES ASSUME A # {} PROVE FALSE
  OBVIOUS
<1>1. IsWellFoundedOn(R, FiniteSubsetsOf(S))
  BY FS_StrictSubsetOrderingWellFounded
<1>2. A \subseteq FiniteSubsetsOf(S)
  BY FS_Subset DEF FiniteSubsetsOf
<1>3. PICK T \in A : \A U \in A : ~(<<U, T>> \in R)
  <2> HIDE DEF A, R
  <2> QED
    BY <1>1, <1>2, WFMin
<1>4. \A U \in SUBSET T : U # T => U \in G
  BY <1>3 DEF StrictSubsetOrdering
<1> QED
  BY <1>3, <1>4

(* The function is unique: it does not matter in which set one sums up a   *)
(* subset of it.                                                           *)
LEMMA SumUnique ==
  ASSUME NEW f, NEW S, NEW T, NEW h, NEW k, IsSum(h, f, S), IsSum(k, f, T),
         NEW u, IsFiniteSet(u), u \subseteq S, u \subseteq T
  PROVE  h[u] = k[u]
<1> DEFINE G == {s \in SUBSET u : h[s] = k[s]}
<1>1. ASSUME NEW s \in SUBSET u, \A v \in SUBSET s : v # s => v \in G
      PROVE  s \in G
  <2>1. CASE s = {}
    <3>1. h[s] = 0 /\ k[s] = 0
      BY <2>1 DEF IsSum
    <3> QED
      BY <3>1
  <2>2. CASE s # {}
    <3> DEFINE v == s \ {Taken(s)}
    <3>1. v \in SUBSET s /\ v # s
      BY <2>2, TakenIn
    <3>2. h[v] = k[v]
      BY <1>1, <3>1
    <3>3. s \in SUBSET S /\ s \in SUBSET T
      OBVIOUS
    <3>4. h[s] = f[Taken(s)] + h[v] /\ k[s] = f[Taken(s)] + k[v]
      BY <2>2, <3>3 DEF IsSum
    <3> QED
      BY <3>2, <3>4
  <2> QED
    BY <2>1, <2>2
<1>2. u \in G
  <2> HIDE DEF G
  <2> QED
    BY <1>1, SubsetInduction
<1> QED
  BY <1>2

LEMMA SumExists ==
  ASSUME NEW f, NEW S, IsFiniteSet(S)
  PROVE  \E h : IsSum(h, f, S)
<1> DEFINE G == {T \in SUBSET S : \E h : IsSum(h, f, T)}
           H(T) == CHOOSE h : IsSum(h, f, T)
<1>1. ASSUME NEW T \in SUBSET S, \A U \in SUBSET T : U # T => U \in G
      PROVE  T \in G
  <2> DEFINE rest(s) == s \ {Taken(s)}
             h == [s \in SUBSET T |-> IF s = {} THEN 0 ELSE f[Taken(s)] + H(rest(s))[rest(s)]]
  <2>1. \A U \in SUBSET T : U # T => IsSum(H(U), f, U)
    BY <1>1
  <2>2. ASSUME NEW s \in SUBSET T, s # {}
        PROVE  h[rest(s)] = H(rest(s))[rest(s)]
    <3> DEFINE u == rest(s)
    <3>1. u \in SUBSET T /\ u # T /\ IsFiniteSet(u)
      BY <2>2, TakenIn, FS_Subset
    <3>2. IsSum(H(u), f, u)
      BY <2>1, <3>1
    <3>3. CASE u = {}
      <4>1. h[u] = 0
        BY <3>3
      <4>2. H(u)[u] = 0
        <5> HIDE DEF H, u
        <5> QED
          BY <3>2, <3>3 DEF IsSum
      <4> QED
        BY <4>1, <4>2
    <3>4. CASE u # {}
      <4> DEFINE v == rest(u)
      <4>1. v \in SUBSET u /\ v # T /\ v \in SUBSET T /\ IsFiniteSet(v)
        BY <3>1, <3>4, TakenIn, FS_Subset
      <4>2. IsSum(H(v), f, v)
        BY <2>1, <4>1
      <4>3. H(u)[v] = H(v)[v]
        <5> HIDE DEF H, u, v
        <5> QED
          BY <3>2, <4>1, <4>2, SumUnique
      <4>4. H(u)[u] = f[Taken(u)] + H(u)[v]
        <5>1. v = u \ {Taken(u)}
          OBVIOUS
        <5> HIDE DEF H, u, v
        <5> QED
          BY <3>2, <3>4, <5>1 DEF IsSum
      <4>5. h[u] = f[Taken(u)] + H(v)[v]
        BY <3>1, <3>4
      <4> QED
        BY <4>3, <4>4, <4>5
    <3> QED
      BY <3>3, <3>4
  <2>3. IsSum(h, f, T)
    <3>1. \A s \in SUBSET T : s # {} => h[s] = f[Taken(s)] + h[s \ {Taken(s)}]
      BY <2>2
    <3>2. \A s \in SUBSET T : s = {} => h[s] = 0
      OBVIOUS
    <3>3. h = [s \in SUBSET T |-> h[s]]
      OBVIOUS
    <3> HIDE DEF h
    <3>4. \A s \in SUBSET T : h[s] = IF s = {} THEN 0 ELSE f[Taken(s)] + h[s \ {Taken(s)}]
      BY <3>1, <3>2
    <3> QED
      BY <3>3, <3>4 DEF IsSum
  <2> QED
    BY <2>3
<1>2. S \in G
  <2> HIDE DEF G
  <2> QED
    BY <1>1, SubsetInduction
<1> QED
  BY <1>2

LEMMA SumIsSum ==
  ASSUME NEW f, NEW S, IsFiniteSet(S)
  PROVE  \E h : IsSum(h, f, S) /\ SumOver(f, S) = h[S]
<1> DEFINE h == CHOOSE h : IsSum(h, f, S)
<1>1. IsSum(h, f, S)
  BY SumExists
<1>2. SumOver(f, S) = h[S]
  BY DEF SumOver, MapThenSumSet, MapThenFoldSet, IsSum, Taken
<1> QED
  BY <1>1, <1>2

-----------------------------------------------------------------------------
(* What a sum is, by its members.                                          *)

LEMMA SumEmpty == \A f : SumOver(f, {}) = 0
<1> SUFFICES ASSUME NEW f PROVE SumOver(f, {}) = 0
  OBVIOUS
<1>1. PICK h : IsSum(h, f, {}) /\ SumOver(f, {}) = h[{}]
  BY SumIsSum, FS_EmptySet
<1> QED
  BY <1>1 DEF IsSum

LEMMA SumTaken ==
  ASSUME NEW f, NEW S, IsFiniteSet(S), S # {}
  PROVE  SumOver(f, S) = f[Taken(S)] + SumOver(f, S \ {Taken(S)})
<1> DEFINE T == S \ {Taken(S)}
<1>1. IsFiniteSet(T) /\ T \subseteq S
  BY FS_Subset
<1>2. PICK h : IsSum(h, f, S) /\ SumOver(f, S) = h[S]
  BY SumIsSum
<1>3. PICK k : IsSum(k, f, T) /\ SumOver(f, T) = k[T]
  BY <1>1, SumIsSum
<1>4. h[T] = k[T]
  BY <1>1, <1>2, <1>3, SumUnique
<1>5. h[S] = f[Taken(S)] + h[T]
  BY <1>2 DEF IsSum
<1> QED
  BY <1>2, <1>3, <1>4, <1>5

LEMMA SumType ==
  ASSUME NEW f, NEW S, IsFiniteSet(S), \A x \in S : f[x] \in Int
  PROVE  SumOver(f, S) \in Int
<1> DEFINE G == {T \in SUBSET S : SumOver(f, T) \in Int}
<1>1. ASSUME NEW T \in SUBSET S, \A U \in SUBSET T : U # T => U \in G
      PROVE  T \in G
  <2>1. CASE T = {}
    BY <2>1, SumEmpty
  <2>2. CASE T # {}
    <3> DEFINE U == T \ {Taken(T)}
    <3>1. IsFiniteSet(T) /\ Taken(T) \in T /\ U \in SUBSET T /\ U # T
      BY <2>2, TakenIn, FS_Subset
    <3>2. SumOver(f, U) \in Int
      BY <1>1, <3>1
    <3>3. SumOver(f, T) = f[Taken(T)] + SumOver(f, U)
      BY <2>2, <3>1, SumTaken
    <3> QED
      BY <3>1, <3>2, <3>3
  <2> QED
    BY <2>1, <2>2
<1>2. S \in G
  <2> HIDE DEF G
  <2> QED
    BY <1>1, SubsetInduction
<1> QED
  BY <1>2

LEMMA SumNat ==
  ASSUME NEW f, NEW S, IsFiniteSet(S), \A x \in S : f[x] \in Nat
  PROVE  SumOver(f, S) \in Nat
<1> DEFINE G == {T \in SUBSET S : SumOver(f, T) \in Nat}
<1>1. ASSUME NEW T \in SUBSET S, \A U \in SUBSET T : U # T => U \in G
      PROVE  T \in G
  <2>1. CASE T = {}
    BY <2>1, SumEmpty
  <2>2. CASE T # {}
    <3> DEFINE U == T \ {Taken(T)}
    <3>1. IsFiniteSet(T) /\ Taken(T) \in T /\ U \in SUBSET T /\ U # T
      BY <2>2, TakenIn, FS_Subset
    <3>2. SumOver(f, U) \in Nat
      BY <1>1, <3>1
    <3>3. SumOver(f, T) = f[Taken(T)] + SumOver(f, U)
      BY <2>2, <3>1, SumTaken
    <3> QED
      BY <3>1, <3>2, <3>3
  <2> QED
    BY <2>1, <2>2
<1>2. S \in G
  <2> HIDE DEF G
  <2> QED
    BY <1>1, SubsetInduction
<1> QED
  BY <1>2

(* Any member may be taken first.                                          *)
LEMMA SumRemove ==
  ASSUME NEW f, NEW S, IsFiniteSet(S), \A x \in S : f[x] \in Int, NEW a \in S
  PROVE  SumOver(f, S) = f[a] + SumOver(f, S \ {a})
<1> DEFINE G == {T \in SUBSET S : \A x \in T : SumOver(f, T) = f[x] + SumOver(f, T \ {x})}
<1>1. ASSUME NEW T \in SUBSET S, \A U \in SUBSET T : U # T => U \in G
      PROVE  T \in G
  <2> SUFFICES ASSUME NEW x \in T PROVE SumOver(f, T) = f[x] + SumOver(f, T \ {x})
    OBVIOUS
  <2> DEFINE c == Taken(T)
             U == T \ {c}
             V == T \ {x}
             W == T \ {c, x}
  <2>1. IsFiniteSet(T) /\ c \in T /\ c \in S /\ x \in S
    BY TakenIn, FS_Subset
  <2>2. SumOver(f, T) = f[c] + SumOver(f, U)
    BY <2>1, SumTaken
  <2>3. CASE c = x
    BY <2>2, <2>3
  <2>4. CASE c # x
    <3>1. U \in SUBSET T /\ U # T /\ x \in U /\ U \ {x} = W
      BY <2>1, <2>4
    <3>2. V \in SUBSET T /\ V # T /\ c \in V /\ V \ {c} = W
      BY <2>1, <2>4
    <3>3. SumOver(f, U) = f[x] + SumOver(f, W)
      BY <1>1, <3>1
    <3>4. SumOver(f, V) = f[c] + SumOver(f, W)
      BY <1>1, <3>2
    <3>5. SumOver(f, W) \in Int
      <4>1. IsFiniteSet(W) /\ W \subseteq S
        BY <2>1, FS_Subset
      <4> QED
        BY <4>1, SumType
    <3>6. f[c] \in Int /\ f[x] \in Int
      BY <2>1
    <3>7. SumOver(f, T) = f[x] + SumOver(f, V)
      <4> HIDE DEF U, V, W, c
      <4> QED
        BY <2>2, <3>3, <3>4, <3>5, <3>6
    <3> QED
      BY <3>7
  <2> QED
    BY <2>3, <2>4
<1>2. S \in G
  <2> HIDE DEF G
  <2> QED
    BY <1>1, SubsetInduction
<1> QED
  BY <1>2

LEMMA SumAdd ==
  ASSUME NEW f, NEW S, IsFiniteSet(S), NEW a, a \notin S, \A x \in S \cup {a} : f[x] \in Int
  PROVE  SumOver(f, S \cup {a}) = f[a] + SumOver(f, S)
<1>1. IsFiniteSet(S \cup {a}) /\ (S \cup {a}) \ {a} = S
  BY FS_AddElement
<1> QED
  BY <1>1, SumRemove

(* Only the values at the members count.                                   *)
LEMMA SumSame ==
  ASSUME NEW f, NEW g, NEW S, IsFiniteSet(S), \A x \in S : f[x] = g[x]
  PROVE  SumOver(f, S) = SumOver(g, S)
<1> DEFINE G == {T \in SUBSET S : SumOver(f, T) = SumOver(g, T)}
<1>1. ASSUME NEW T \in SUBSET S, \A U \in SUBSET T : U # T => U \in G
      PROVE  T \in G
  <2>1. CASE T = {}
    BY <2>1, SumEmpty
  <2>2. CASE T # {}
    <3> DEFINE U == T \ {Taken(T)}
    <3>1. IsFiniteSet(T) /\ Taken(T) \in T /\ U \in SUBSET T /\ U # T
      BY <2>2, TakenIn, FS_Subset
    <3>2. SumOver(f, U) = SumOver(g, U)
      BY <1>1, <3>1
    <3>3. SumOver(f, T) = f[Taken(T)] + SumOver(f, U)
      BY <2>2, <3>1, SumTaken
    <3>4. SumOver(g, T) = g[Taken(T)] + SumOver(g, U)
      BY <2>2, <3>1, SumTaken
    <3> QED
      BY <3>1, <3>2, <3>3, <3>4
  <2> QED
    BY <2>1, <2>2
<1>2. S \in G
  <2> HIDE DEF G
  <2> QED
    BY <1>1, SubsetInduction
<1> QED
  BY <1>2

LEMMA SumChange ==
  ASSUME NEW f, NEW g, NEW S, IsFiniteSet(S), NEW a \in S,
         \A x \in S : f[x] \in Int /\ g[x] \in Int, \A x \in S \ {a} : g[x] = f[x]
  PROVE  SumOver(g, S) = SumOver(f, S) - f[a] + g[a]
<1>1. IsFiniteSet(S \ {a}) /\ SumOver(f, S \ {a}) \in Int
  BY FS_RemoveElement, SumType
<1>2. SumOver(f, S \ {a}) = SumOver(g, S \ {a})
  BY <1>1, SumSame
<1>3. SumOver(f, S) = f[a] + SumOver(f, S \ {a})
  BY SumRemove
<1>4. SumOver(g, S) = g[a] + SumOver(g, S \ {a})
  BY SumRemove
<1> QED
  BY <1>1, <1>2, <1>3, <1>4

LEMMA SumAtLeast ==
  ASSUME NEW f, NEW S, IsFiniteSet(S), \A x \in S : f[x] \in Nat, NEW a \in S
  PROVE  f[a] <= SumOver(f, S)
<1>1. SumOver(f, S) = f[a] + SumOver(f, S \ {a})
  BY SumRemove
<1>2. SumOver(f, S \ {a}) \in Nat
  BY FS_RemoveElement, SumNat
<1> QED
  BY <1>1, <1>2

(* Values in proportion to weights add up in proportion to their sum.      *)
LEMMA SumProportion ==
  ASSUME NEW f, NEW g, NEW S, IsFiniteSet(S), NEW k \in Nat, NEW m \in Nat,
         \A x \in S : f[x] \in Nat /\ g[x] \in Nat /\ k * f[x] <= m * g[x]
  PROVE  k * SumOver(f, S) <= m * SumOver(g, S)
<1> DEFINE G == {T \in SUBSET S : k * SumOver(f, T) <= m * SumOver(g, T)}
<1>1. ASSUME NEW T \in SUBSET S, \A U \in SUBSET T : U # T => U \in G
      PROVE  T \in G
  <2>1. CASE T = {}
    BY <2>1, SumEmpty
  <2>2. CASE T # {}
    <3>1. PICK U, x : x = Taken(T) /\ U = T \ {x}
      OBVIOUS
    <3>2. IsFiniteSet(T) /\ x \in T /\ U \in SUBSET T /\ U # T /\ IsFiniteSet(U)
      BY <2>2, <3>1, TakenIn, FS_Subset
    <3>3. PICK a, b : a = SumOver(f, U) /\ b = SumOver(g, U)
      OBVIOUS
    <3>4. a \in Nat /\ b \in Nat /\ k * a <= m * b
      <4>1. U \in G
        BY <1>1, <3>2
      <4>2. \A y \in U : f[y] \in Nat /\ g[y] \in Nat
        BY <3>2
      <4>3. a \in Nat /\ b \in Nat
        BY <3>2, <3>3, <4>2, SumNat
      <4> QED
        BY <3>3, <4>1, <4>3
    <3>5. PICK d \in Nat, e \in Nat : d = f[x] /\ e = g[x] /\ k * d <= m * e
      BY <3>2
    <3>6. SumOver(f, T) = d + a /\ SumOver(g, T) = e + b
      BY <2>2, <3>1, <3>2, <3>3, <3>5, SumTaken
    <3>7. k * (d + a) <= m * (e + b)
      <4>1. k * (d + a) = k * d + k * a /\ m * (e + b) = m * e + m * b
        BY <3>4
      <4>2. k * d \in Int /\ k * a \in Int /\ m * e \in Int /\ m * b \in Int
        BY <3>4
      <4> QED
        BY <3>4, <3>5, <4>1, <4>2
    <3> QED
      BY <3>6, <3>7
  <2> QED
    BY <2>1, <2>2
<1>2. S \in G
  <2> HIDE DEF G
  <2> QED
    BY <1>1, SubsetInduction
<1> QED
  BY <1>2

LEMMA SumEvenly ==
  ASSUME NEW f, NEW g, NEW S, IsFiniteSet(S), NEW k \in Nat, NEW m \in Nat,
         \A x \in S : f[x] \in Nat /\ g[x] \in Nat /\ k * f[x] = m * g[x]
  PROVE  k * SumOver(f, S) = m * SumOver(g, S)
<1>1. /\ \A x \in S : f[x] \in Nat /\ g[x] \in Nat /\ k * f[x] <= m * g[x]
      /\ \A x \in S : g[x] \in Nat /\ f[x] \in Nat /\ m * g[x] <= k * f[x]
  OBVIOUS
<1>2. k * SumOver(f, S) <= m * SumOver(g, S) /\ m * SumOver(g, S) <= k * SumOver(f, S)
  BY <1>1, SumProportion
<1>3. SumOver(f, S) \in Nat /\ SumOver(g, S) \in Nat
  BY SumNat
<1>4. PICK a, b : a = k * SumOver(f, S) /\ b = m * SumOver(g, S)
  OBVIOUS
<1>5. a \in Nat /\ b \in Nat
  BY <1>3, <1>4
<1> QED
  BY <1>2, <1>4, <1>5

LEMMA SumPlus ==
  ASSUME NEW f, NEW g, NEW h, NEW S, IsFiniteSet(S),
         \A x \in S : f[x] \in Int /\ g[x] \in Int /\ h[x] = f[x] + g[x]
  PROVE  SumOver(h, S) = SumOver(f, S) + SumOver(g, S)
<1> DEFINE G == {T \in SUBSET S : SumOver(h, T) = SumOver(f, T) + SumOver(g, T)}
<1>1. ASSUME NEW T \in SUBSET S, \A U \in SUBSET T : U # T => U \in G
      PROVE  T \in G
  <2>1. CASE T = {}
    BY <2>1, SumEmpty
  <2>2. CASE T # {}
    <3>1. PICK U, x : x = Taken(T) /\ U = T \ {x}
      OBVIOUS
    <3>2. IsFiniteSet(T) /\ x \in T /\ U \in SUBSET T /\ U # T /\ IsFiniteSet(U)
      BY <2>2, <3>1, TakenIn, FS_Subset
    <3>3. SumOver(h, U) = SumOver(f, U) + SumOver(g, U)
      BY <1>1, <3>2
    <3>4. /\ SumOver(f, T) = f[x] + SumOver(f, U) /\ SumOver(g, T) = g[x] + SumOver(g, U)
          /\ SumOver(h, T) = h[x] + SumOver(h, U)
      BY <2>2, <3>1, <3>2, SumTaken
    <3>5. \A y \in U : f[y] \in Int /\ g[y] \in Int
      BY <3>2
    <3>6. SumOver(f, U) \in Int /\ SumOver(g, U) \in Int
      BY <3>2, <3>5, SumType
    <3>7. f[x] \in Int /\ g[x] \in Int /\ h[x] = f[x] + g[x]
      BY <3>2
    <3>8. SumOver(h, T) = SumOver(f, T) + SumOver(g, T)
      BY <3>3, <3>4, <3>6, <3>7
    <3> QED
      BY <3>8
  <2> QED
    BY <2>1, <2>2
<1>2. S \in G
  <2> HIDE DEF G
  <2> QED
    BY <1>1, SubsetInduction
<1> QED
  BY <1>2

LEMMA SumOfNone ==
  ASSUME NEW f, NEW S, IsFiniteSet(S), \A x \in S : f[x] = 0
  PROVE  SumOver(f, S) = 0
<1>1. \A x \in S : f[x] \in Int /\ f[x] \in Int /\ f[x] = f[x] + f[x]
  OBVIOUS
<1>2. SumOver(f, S) = SumOver(f, S) + SumOver(f, S)
  BY <1>1, SumPlus
<1>3. PICK n \in Int : n = SumOver(f, S)
  BY SumType
<1>4. n = n + n
  BY <1>2, <1>3
<1>5. n = 0
  BY ONLY <1>4
<1> QED
  BY <1>3, <1>5

LEMMA SumSubset ==
  ASSUME NEW f, NEW S, IsFiniteSet(S), \A x \in S : f[x] \in Nat, NEW V \in SUBSET S
  PROVE  SumOver(f, V) <= SumOver(f, S)
<1> DEFINE G == {T \in SUBSET S : SumOver(f, V \cap T) <= SumOver(f, T)}
<1>1. ASSUME NEW T \in SUBSET S, \A U \in SUBSET T : U # T => U \in G
      PROVE  T \in G
  <2>1. CASE T = {}
    <3>1. V \cap T = {}
      BY <2>1
    <3> QED
      BY <2>1, <3>1, SumEmpty
  <2>2. CASE T # {}
    <3>1. PICK U, x : x = Taken(T) /\ U = T \ {x}
      OBVIOUS
    <3>2. IsFiniteSet(T) /\ x \in T /\ U \in SUBSET T /\ U # T /\ IsFiniteSet(U) /\ f[x] \in Nat
      BY <2>2, <3>1, TakenIn, FS_Subset
    <3>3. SumOver(f, V \cap U) <= SumOver(f, U)
      BY <1>1, <3>2
    <3>4. SumOver(f, T) = f[x] + SumOver(f, U)
      BY <2>2, <3>1, <3>2, SumTaken
    <3>5. /\ IsFiniteSet(V \cap U) /\ \A y \in U : f[y] \in Nat
          /\ \A y \in V \cap U : f[y] \in Nat
      BY <3>2, FS_Subset
    <3>6. SumOver(f, U) \in Nat /\ SumOver(f, V \cap U) \in Nat
      BY <3>2, <3>5, SumNat
    <3>7. CASE x \in V
      <4>1. V \cap T = (V \cap U) \cup {x} /\ x \notin V \cap U
        BY <3>1, <3>2, <3>7
      <4>2. \A y \in (V \cap U) \cup {x} : f[y] \in Int
        BY <3>2, <3>5
      <4>3. SumOver(f, V \cap T) = f[x] + SumOver(f, V \cap U)
        BY <3>5, <4>1, <4>2, SumAdd
      <4> QED
        BY <3>2, <3>3, <3>4, <3>6, <4>3
    <3>8. CASE x \notin V
      <4>1. V \cap T = V \cap U
        BY <3>1, <3>2, <3>8
      <4>2. SumOver(f, V \cap T) = SumOver(f, V \cap U)
        BY <4>1
      <4>3. SumOver(f, V \cap T) <= SumOver(f, T)
        BY <3>2, <3>3, <3>4, <3>6, <4>2
      <4> QED
        BY <4>3
    <3> QED
      BY <3>7, <3>8
  <2> QED
    BY <2>1, <2>2
<1>2. S \in G
  <2> HIDE DEF G
  <2> QED
    BY <1>1, SubsetInduction
<1>3. V \cap S = V
  OBVIOUS
<1> QED
  BY <1>2, <1>3

(* Two disjoint sets sum up to what their union does.                      *)
LEMMA SumDisjoint ==
  ASSUME NEW f, NEW A, NEW B, IsFiniteSet(A), IsFiniteSet(B), A \cap B = {},
         \A x \in A \cup B : f[x] \in Int
  PROVE  SumOver(f, A \cup B) = SumOver(f, A) + SumOver(f, B)
<1> DEFINE G == {T \in SUBSET B : SumOver(f, A \cup T) = SumOver(f, A) + SumOver(f, T)}
<1>0. SumOver(f, A) \in Int
  BY SumType
<1>1. ASSUME NEW T \in SUBSET B, \A U \in SUBSET T : U # T => U \in G
      PROVE  T \in G
  <2>1. CASE T = {}
    <3>1. A \cup T = A
      BY <2>1
    <3> QED
      BY <1>0, <2>1, <3>1, SumEmpty
  <2>2. CASE T # {}
    <3>1. PICK U, x : x = Taken(T) /\ U = T \ {x}
      OBVIOUS
    <3>2. IsFiniteSet(T) /\ x \in T /\ U \in SUBSET T /\ U # T /\ IsFiniteSet(U) /\ f[x] \in Int
      BY <2>2, <3>1, TakenIn, FS_Subset
    <3>3. SumOver(f, A \cup U) = SumOver(f, A) + SumOver(f, U)
      BY <1>1, <3>2
    <3>4. SumOver(f, T) = f[x] + SumOver(f, U)
      BY <2>2, <3>1, <3>2, SumTaken
    <3>5. /\ A \cup T = (A \cup U) \cup {x} /\ x \notin A \cup U /\ IsFiniteSet(A \cup U)
          /\ \A y \in (A \cup U) \cup {x} : f[y] \in Int
          /\ \A y \in U : f[y] \in Int
      BY <3>1, <3>2, FS_Union
    <3>6. SumOver(f, A \cup T) = f[x] + SumOver(f, A \cup U)
      BY <3>5, SumAdd
    <3>7. SumOver(f, U) \in Int
      BY <3>2, <3>5, SumType
    <3>8. SumOver(f, A \cup T) = SumOver(f, A) + SumOver(f, T)
      BY <1>0, <3>2, <3>3, <3>4, <3>6, <3>7
    <3> QED
      BY <3>8
  <2> QED
    BY <2>1, <2>2
<1>2. B \in G
  <2> HIDE DEF G
  <2> QED
    BY <1>1, SubsetInduction
<1> QED
  BY <1>2

(* Members that count for nothing may be left out.                         *)
LEMMA SumWithZeros ==
  ASSUME NEW f, NEW S, IsFiniteSet(S), \A x \in S : f[x] \in Int, NEW T \in SUBSET S,
         \A x \in S \ T : f[x] = 0
  PROVE  SumOver(f, S) = SumOver(f, T)
<1> DEFINE R == S \ T
<1>1. /\ IsFiniteSet(T) /\ IsFiniteSet(R) /\ T \cap R = {} /\ T \cup R = S
      /\ \A x \in T \cup R : f[x] \in Int
  BY FS_Subset
<1>2. SumOver(f, T \cup R) = SumOver(f, T) + SumOver(f, R)
  BY <1>1, SumDisjoint
<1>3. SumOver(f, R) = 0
  BY <1>1, SumOfNone
<1>4. SumOver(f, T) \in Int
  BY <1>1, SumType
<1>5. T \cup R = S
  BY <1>1
<1> HIDE DEF R
<1>6. SumOver(f, S) = SumOver(f, T) + SumOver(f, R)
  BY <1>2, <1>5
<1> QED
  BY <1>3, <1>4, <1>6

(* What belongs to each member of S, to no two of them the same, sums up   *)
(* to no less than the members do if that is so for each of them.          *)
LEMMA SumGrouped ==
  ASSUME NEW f, NEW g, NEW S, IsFiniteSet(S), NEW parts,
         \A p \in S : /\ IsFiniteSet(parts[p]) /\ \A x \in parts[p] : f[x] \in Int
                     /\ g[p] \in Int /\ SumOver(f, parts[p]) >= g[p],
         \A p, q \in S : p # q => parts[p] \cap parts[q] = {}
  PROVE  SumOver(f, UNION {parts[p] : p \in S}) >= SumOver(g, S)
<1> DEFINE all(T) == UNION {parts[p] : p \in T}
           G == {T \in SUBSET S : /\ IsFiniteSet(all(T)) /\ SumOver(f, all(T)) >= SumOver(g, T)}
<1>1. ASSUME NEW T \in SUBSET S, \A U \in SUBSET T : U # T => U \in G
      PROVE  T \in G
  <2>1. CASE T = {}
    <3>1. all(T) = {}
      BY <2>1
    <3> QED
      BY <2>1, <3>1, SumEmpty, FS_EmptySet
  <2>2. CASE T # {}
    <3>1. PICK U, p : p = Taken(T) /\ U = T \ {p}
      OBVIOUS
    <3>2. IsFiniteSet(T) /\ p \in T /\ p \in S /\ U \in SUBSET T /\ U # T /\ IsFiniteSet(U)
      BY <2>2, <3>1, TakenIn, FS_Subset
    <3>3. IsFiniteSet(all(U)) /\ SumOver(f, all(U)) >= SumOver(g, U)
      BY <1>1, <3>2
    <3>4. SumOver(g, T) = g[p] + SumOver(g, U)
      BY <2>2, <3>1, <3>2, SumTaken
    <3>5. all(T) = all(U) \cup parts[p]
      BY <3>1, <3>2
    <3>6. all(U) \cap parts[p] = {}
      BY <3>1, <3>2
    <3>7. /\ \A x \in all(U) \cup parts[p] : f[x] \in Int
          /\ \A q \in U : g[q] \in Int
      BY <3>2
    <3>8. IsFiniteSet(parts[p]) /\ g[p] \in Int /\ SumOver(f, parts[p]) >= g[p]
      BY <3>2
    <3> DEFINE a == all(U)
               b == parts[p]
    <3> HIDE DEF all
    <3>9. /\ SumOver(f, a \cup b) = SumOver(f, a) + SumOver(f, b) /\ IsFiniteSet(a \cup b)
          /\ SumOver(f, a) \in Int /\ SumOver(f, b) \in Int /\ SumOver(g, U) \in Int
      <4>1. \A x \in a \cup b : f[x] \in Int
        BY <3>7
      <4>2. IsFiniteSet(a) /\ IsFiniteSet(b) /\ a \cap b = {}
        BY <3>3, <3>6, <3>8
      <4> HIDE DEF a, b
      <4>3. IsFiniteSet(a \cup b)
        BY <4>2, FS_Union
      <4>4. SumOver(f, a \cup b) = SumOver(f, a) + SumOver(f, b)
        BY <4>1, <4>2, SumDisjoint
      <4>5. SumOver(f, a) \in Int /\ SumOver(f, b) \in Int
        BY <4>1, <4>2, SumType
      <4>6. SumOver(g, U) \in Int
        BY <3>2, <3>7, SumType
      <4> QED
        BY <4>3, <4>4, <4>5, <4>6
    <3>10. IsFiniteSet(all(T)) /\ SumOver(f, all(T)) = SumOver(f, a) + SumOver(f, b)
      BY <3>5, <3>9
    <3>11. SumOver(f, all(T)) >= SumOver(g, T)
      BY <3>3, <3>4, <3>8, <3>9, <3>10
    <3> QED
      BY <3>10, <3>11
  <2> QED
    BY <2>1, <2>2
<1>2. S \in G
  <2> HIDE DEF G
  <2> QED
    BY <1>1, SubsetInduction
<1> QED
  BY <1>2

-----------------------------------------------------------------------------
(* The elements of a list, each of which is in it once.                    *)
SetOf(s) == {s[i] : i \in 1 .. Len(s)}
Distinct(s) == \A i, j \in 1 .. Len(s) : s[i] = s[j] => i = j
Single(S) == \E x \in S : S = {x}

LEMMA ConsList ==
  ASSUME NEW S, NEW s \in Seq(S), NEW p \in S, Distinct(s), p \notin SetOf(s)
  PROVE  /\ <<p>> \o s \in Seq(S) /\ SetOf(<<p>> \o s) = SetOf(s) \cup {p}
         /\ Distinct(<<p>> \o s)
<1> DEFINE t == <<p>> \o s
<1>1. /\ Len(s) \in Nat /\ t \in Seq(S) /\ Len(t) = Len(s) + 1
      /\ t[1] = p /\ \A i \in 2 .. Len(t) : t[i] = s[i - 1]
  BY ConcatProperties, LenProperties
<1> HIDE DEF t
<1>2. \A i \in 1 .. Len(s) : t[i + 1] = s[i]
  BY <1>1
<1>3. SetOf(t) = SetOf(s) \cup {p}
  <2>1. \A x \in SetOf(t) : x \in SetOf(s) \cup {p}
    BY <1>1 DEF SetOf
  <2>2. \A x \in SetOf(s) : x \in SetOf(t)
    <3> SUFFICES ASSUME NEW i \in 1 .. Len(s) PROVE s[i] \in SetOf(t)
      BY DEF SetOf
    <3>1. i + 1 \in 1 .. Len(t) /\ t[i + 1] = s[i]
      BY <1>1, <1>2
    <3> QED
      BY <3>1 DEF SetOf
  <2>3. p \in SetOf(t)
    BY <1>1 DEF SetOf
  <2> QED
    BY <2>1, <2>2, <2>3
<1>4. Distinct(t)
  <2> SUFFICES ASSUME NEW i \in 1 .. Len(t), NEW j \in 1 .. Len(t), t[i] = t[j]
               PROVE  i = j
    BY DEF Distinct
  <2>1. \A k \in 2 .. Len(t) : k - 1 \in 1 .. Len(s) /\ t[k] = s[k - 1] /\ t[k] # p
    BY <1>1 DEF SetOf
  <2>2. CASE i = 1 \/ j = 1
    BY <1>1, <2>1, <2>2
  <2>3. CASE i # 1 /\ j # 1
    <3>1. i \in 2 .. Len(t) /\ j \in 2 .. Len(t)
      BY <2>3
    <3>2. i - 1 = j - 1
      BY <2>1, <3>1 DEF Distinct
    <3> QED
      BY <3>2
  <2> QED
    BY <2>2, <2>3
<1> QED
  BY <1>1, <1>3, <1>4 DEF t

LEMMA UnconsList ==
  ASSUME NEW S, NEW s \in Seq(S), s # <<>>, Distinct(s)
  PROVE  /\ Head(s) \in SetOf(s) /\ Head(s) \in S /\ Tail(s) \in Seq(S)
         /\ SetOf(Tail(s)) = SetOf(s) \ {Head(s)} /\ Distinct(Tail(s))
<1> DEFINE t == Tail(s)
<1>1. /\ Len(s) \in Nat \ {0} /\ t \in Seq(S) /\ Len(t) = Len(s) - 1
      /\ Head(s) = s[1] /\ Head(s) \in S
      /\ \A i \in 1 .. Len(t) : t[i] = s[i + 1]
  BY HeadTailProperties, EmptySeq
<1> HIDE DEF t
<1>2. \A i \in 2 .. Len(s) : i - 1 \in 1 .. Len(t) /\ t[i - 1] = s[i] /\ s[i] # s[1]
  BY <1>1 DEF Distinct
<1>3. Head(s) \in SetOf(s)
  BY <1>1 DEF SetOf
<1>4. SetOf(t) = SetOf(s) \ {Head(s)}
  <2>1. \A x \in SetOf(t) : x \in SetOf(s) \ {Head(s)}
    <3> SUFFICES ASSUME NEW i \in 1 .. Len(t) PROVE t[i] \in SetOf(s) \ {Head(s)}
      BY DEF SetOf
    <3>1. i + 1 \in 2 .. Len(s) /\ t[i] = s[i + 1]
      BY <1>1
    <3> QED
      BY <1>1, <1>2, <3>1 DEF SetOf
  <2>2. \A x \in SetOf(s) \ {Head(s)} : x \in SetOf(t)
    <3> SUFFICES ASSUME NEW i \in 1 .. Len(s), s[i] # s[1] PROVE s[i] \in SetOf(t)
      BY <1>1 DEF SetOf
    <3>1. i \in 2 .. Len(s)
      BY <1>1
    <3> QED
      BY <1>2, <3>1 DEF SetOf
  <2> QED
    BY <2>1, <2>2
<1>5. Distinct(t)
  BY <1>1 DEF Distinct
<1> QED
  BY <1>1, <1>3, <1>4, <1>5 DEF t

LEMMA OnceInList ==
  ASSUME NEW S, NEW s \in Seq(S), Distinct(s), NEW p \in S
  PROVE  IF p \in SetOf(s)
         THEN \E n : {i \in DOMAIN s : s[i] = p} = {n}
         ELSE {i \in DOMAIN s : s[i] = p} = {}
<1>1. DOMAIN s = 1 .. Len(s)
  BY LenProperties
<1>2. CASE p \in SetOf(s)
  <2>1. PICK n \in 1 .. Len(s) : s[n] = p
    BY <1>2 DEF SetOf
  <2>2. {i \in DOMAIN s : s[i] = p} = {n}
    BY <1>1, <2>1 DEF Distinct
  <2> QED
    BY <1>2, <2>2
<1>3. CASE p \notin SetOf(s)
  BY <1>1, <1>3 DEF SetOf
<1> QED
  BY <1>2, <1>3

Copies(lists, p) == UNION {{k} \X {i \in DOMAIN lists[k] : lists[k][i] = p} : k \in DOMAIN lists}

LEMMA OnceInLists ==
  ASSUME NEW S, NEW K, NEW lists \in [K -> Seq(S)], \A k \in K : Distinct(lists[k]), NEW p \in S,
         NEW H, H = {k \in K : p \in SetOf(lists[k])}
  PROVE  /\ H = {} => Copies(lists, p) = {}
         /\ Single(H) => \E x : Copies(lists, p) = {x}
<1> DEFINE at(k) == {i \in DOMAIN lists[k] : lists[k][i] = p}
           C == UNION {{k} \X at(k) : k \in K}
<1>1. \A k \in K : k \notin H => at(k) = {}
  BY OnceInList
<1>2. \A k \in K : k \in H => \E n : at(k) = {n}
  BY OnceInList
<1>3. DOMAIN lists = K /\ H \subseteq K
  OBVIOUS
<1> HIDE DEF at
<1>4. H = {} => C = {}
  BY <1>1
<1>5. ASSUME Single(H)
      PROVE  \E x : C = {x}
  <2>1. PICK k \in H : H = {k}
    BY <1>5 DEF Single
  <2>2. PICK n : at(k) = {n}
    BY <1>2, <1>3
  <2>3. C = {<<k, n>>}
    <3>1. \A x \in C : x = <<k, n>>
      <4> SUFFICES ASSUME NEW j \in K, NEW x \in {j} \X at(j)
                   PROVE  x = <<k, n>>
        OBVIOUS
      <4>1. j \in H
        BY <1>1
      <4> QED
        BY <2>1, <2>2, <4>1
    <3>2. <<k, n>> \in {k} \X at(k)
      BY <2>2
    <3> QED
      BY <1>3, <3>1, <3>2
  <2> QED
    BY <2>3
<1> QED
  BY <1>3, <1>4, <1>5 DEF at, Copies

LEMMA AppendList ==
  ASSUME NEW S, NEW s \in Seq(S), NEW p \in S
  PROVE  /\ Append(s, p) \in Seq(S) /\ SetOf(Append(s, p)) = SetOf(s) \cup {p}
         /\ Len(Append(s, p)) = Len(s) + 1
         /\ Distinct(s) /\ p \notin SetOf(s) => Distinct(Append(s, p))
<1>1. PICK t : t = Append(s, p)
  OBVIOUS
<1>2. /\ Len(s) \in Nat /\ t \in Seq(S) /\ Len(t) = Len(s) + 1 /\ t[Len(s) + 1] = p
      /\ \A i \in 1 .. Len(s) : t[i] = s[i]
  BY <1>1, AppendProperties, LenProperties
<1>3. SetOf(t) = SetOf(s) \cup {p}
  <2>1. \A x \in SetOf(t) : x \in SetOf(s) \cup {p}
    BY <1>2 DEF SetOf
  <2>2. \A x \in SetOf(s) : x \in SetOf(t)
    BY <1>2 DEF SetOf
  <2>3. p \in SetOf(t)
    BY <1>2 DEF SetOf
  <2> QED
    BY <2>1, <2>2, <2>3
<1>4. ASSUME Distinct(s), p \notin SetOf(s)
      PROVE  Distinct(t)
  <2>1. \A i \in 1 .. Len(s) : t[i] # p
    BY <1>2, <1>4 DEF SetOf
  <2>2. \A i \in 1 .. Len(t) : i \in 1 .. Len(s) \/ i = Len(t)
    BY <1>2
  <2>3. \A i, j \in 1 .. Len(s) : t[i] = t[j] => i = j
    BY <1>2, <1>4 DEF Distinct
  <2> QED
    BY <1>2, <2>1, <2>2, <2>3 DEF Distinct
<1> QED
  BY <1>1, <1>2, <1>3, <1>4

LEMMA ConcatList ==
  ASSUME NEW S, NEW s \in Seq(S), NEW t \in Seq(S)
  PROVE  /\ s \o t \in Seq(S) /\ SetOf(s \o t) = SetOf(s) \cup SetOf(t)
         /\ Len(s \o t) = Len(s) + Len(t)
         /\ Distinct(s) /\ Distinct(t) /\ SetOf(s) \cap SetOf(t) = {} => Distinct(s \o t)
<1>1. PICK u : u = s \o t
  OBVIOUS
<1>2. PICK m \in Nat, n \in Nat : m = Len(s) /\ n = Len(t)
  BY LenProperties
<1>3. /\ u \in Seq(S) /\ Len(u) = m + n
      /\ \A i \in 1 .. m : u[i] = s[i]
      /\ \A i \in 1 .. (m + n) : i > m => u[i] = t[i - m]
  BY <1>1, <1>2, ConcatProperties
<1>4. \A i \in 1 .. n : m + i \in 1 .. (m + n) /\ u[m + i] = t[i]
  <2> SUFFICES ASSUME NEW i \in 1 .. n PROVE m + i \in 1 .. (m + n) /\ u[m + i] = t[i]
    OBVIOUS
  <2>1. m + i \in 1 .. (m + n) /\ m + i > m /\ (m + i) - m = i
    OBVIOUS
  <2> QED
    BY <1>3, <2>1
<1>5. SetOf(u) = SetOf(s) \cup SetOf(t)
  <2>1. \A x \in SetOf(u) : x \in SetOf(s) \cup SetOf(t)
    <3> SUFFICES ASSUME NEW i \in 1 .. (m + n) PROVE u[i] \in SetOf(s) \cup SetOf(t)
      BY <1>3 DEF SetOf
    <3>1. CASE i <= m
      BY <1>2, <1>3, <3>1 DEF SetOf
    <3>2. CASE i > m
      <4>1. i - m \in 1 .. n
        BY <3>2
      <4> QED
        BY <1>2, <1>3, <3>2, <4>1 DEF SetOf
    <3> QED
      BY <3>1, <3>2
  <2>2. \A x \in SetOf(s) : x \in SetOf(u)
    BY <1>2, <1>3 DEF SetOf
  <2>3. \A x \in SetOf(t) : x \in SetOf(u)
    <3> SUFFICES ASSUME NEW i \in 1 .. n PROVE t[i] \in SetOf(u)
      BY <1>2 DEF SetOf
    <3> QED
      BY <1>3, <1>4 DEF SetOf
  <2> QED
    BY <2>1, <2>2, <2>3
<1>6. ASSUME Distinct(s), Distinct(t), SetOf(s) \cap SetOf(t) = {}
      PROVE  Distinct(u)
  <2> SUFFICES ASSUME NEW i \in 1 .. (m + n), NEW j \in 1 .. (m + n), u[i] = u[j]
               PROVE  i = j
    BY <1>3 DEF Distinct
  <2>1. \A k \in 1 .. (m + n) : IF k <= m THEN u[k] \in SetOf(s) ELSE u[k] \in SetOf(t)
    <3> SUFFICES ASSUME NEW k \in 1 .. (m + n)
                 PROVE  IF k <= m THEN u[k] \in SetOf(s) ELSE u[k] \in SetOf(t)
      OBVIOUS
    <3>1. CASE k <= m
      BY <1>2, <1>3, <3>1 DEF SetOf
    <3>2. CASE ~(k <= m)
      <4>1. k - m \in 1 .. n /\ u[k] = t[k - m]
        BY <1>3, <3>2
      <4> QED
        BY <1>2, <3>2, <4>1 DEF SetOf
    <3> QED
      BY <3>1, <3>2
  <2>2. CASE i <= m /\ j <= m
    BY <1>2, <1>3, <1>6, <2>2 DEF Distinct
  <2>3. CASE i > m /\ j > m
    <3>1. i - m \in 1 .. n /\ j - m \in 1 .. n /\ t[i - m] = t[j - m]
      BY <1>3, <2>3
    <3>2. i - m = j - m
      BY <1>2, <1>6, <3>1 DEF Distinct
    <3> QED
      BY <3>2
  <2>4. (i <= m) <=> (j <= m)
    BY <1>6, <2>1
  <2> QED
    BY <2>2, <2>3, <2>4
<1> QED
  BY <1>1, <1>2, <1>3, <1>5, <1>6

LEMMA SplitList ==
  ASSUME NEW S, NEW s \in Seq(S), NEW n \in 0 .. Len(s), Distinct(s)
  PROVE  LET a == SubSeq(s, 1, n)
             b == SubSeq(s, n + 1, Len(s))
         IN  /\ a \in Seq(S) /\ b \in Seq(S) /\ Len(a) = n /\ Len(b) = Len(s) - n
             /\ Distinct(a) /\ Distinct(b)
             /\ SetOf(a) \cup SetOf(b) = SetOf(s) /\ SetOf(a) \cap SetOf(b) = {}
<1>1. PICK a, b : a = SubSeq(s, 1, n) /\ b = SubSeq(s, n + 1, Len(s))
  OBVIOUS
<1>2. /\ Len(s) \in Nat /\ a \in Seq(S) /\ b \in Seq(S) /\ Len(a) = n /\ Len(b) = Len(s) - n
      /\ \A i \in 1 .. n : a[i] = s[i]
      /\ \A i \in 1 .. (Len(s) - n) : b[i] = s[n + i]
  BY <1>1, LenProperties
<1>0. \A i \in 1 .. Len(b) : n + i \in 1 .. Len(s) /\ b[i] = s[n + i]
  BY <1>2
<1>3. Distinct(a) /\ Distinct(b)
  <2>1. Distinct(a)
    BY <1>2 DEF Distinct
  <2>2. ASSUME NEW i \in 1 .. Len(b), NEW j \in 1 .. Len(b), b[i] = b[j]
        PROVE  i = j
    <3>1. n + i = n + j
      BY <1>0, <2>2 DEF Distinct
    <3> QED
      BY <3>1
  <2> QED
    BY <2>1, <2>2 DEF Distinct
<1>4. \A i \in 1 .. Len(s) : IF i <= n THEN s[i] \in SetOf(a) ELSE s[i] \in SetOf(b)
  <2> SUFFICES ASSUME NEW i \in 1 .. Len(s)
               PROVE  IF i <= n THEN s[i] \in SetOf(a) ELSE s[i] \in SetOf(b)
    OBVIOUS
  <2>1. CASE i <= n
    BY <1>2, <2>1 DEF SetOf
  <2>2. CASE ~(i <= n)
    <3>1. i - n \in 1 .. Len(b) /\ b[i - n] = s[i]
      BY <1>2, <2>2
    <3> QED
      BY <2>2, <3>1 DEF SetOf
  <2> QED
    BY <2>1, <2>2
<1>5. SetOf(a) \cup SetOf(b) = SetOf(s)
  <2>1. \A x \in SetOf(a) : x \in SetOf(s)
    BY <1>2 DEF SetOf
  <2>3. \A x \in SetOf(b) : x \in SetOf(s)
    BY <1>0 DEF SetOf
  <2>2. \A x \in SetOf(s) : x \in SetOf(a) \cup SetOf(b)
    BY <1>4 DEF SetOf
  <2> QED
    BY <2>1, <2>2, <2>3
<1>6. SetOf(a) \cap SetOf(b) = {}
  <2> SUFFICES ASSUME NEW i \in 1 .. n, NEW j \in 1 .. (Len(s) - n), a[i] = b[j]
               PROVE  FALSE
    BY <1>2 DEF SetOf
  <2>1. s[i] = s[n + j] /\ n + j \in 1 .. Len(s) /\ i \in 1 .. Len(s) /\ i # n + j
    BY <1>2
  <2> QED
    BY <2>1 DEF Distinct
<1> QED
  BY <1>1, <1>2, <1>3, <1>5, <1>6

LEMMA CountList ==
  ASSUME NEW S, NEW s \in Seq(S), Distinct(s)
  PROVE  IsFiniteSet(SetOf(s)) /\ Cardinality(SetOf(s)) = Len(s)
<1> DEFINE f == [i \in 1 .. Len(s) |-> s[i]]
<1>1. Len(s) \in Nat
  BY LenProperties
<1>2. f \in Bijection(1 .. Len(s), SetOf(s))
  BY DEF Distinct, SetOf, Bijection, Injection, Surjection, IsInjective
<1>3. ExistsBijection(1 .. Len(s), SetOf(s))
  BY <1>2 DEF ExistsBijection
<1>4. IsFiniteSet(1 .. Len(s)) /\ Cardinality(1 .. Len(s)) = Len(s)
  BY <1>1, FS_Interval
<1> QED
  BY <1>3, <1>4, FS_Bijection

-----------------------------------------------------------------------------
(* What is computed from one number to the next, each value from the last. *)
LEMMA RecursionExists ==
  ASSUME NEW D, NEW x \in D, NEW N \in Nat, NEW G \in [1 .. N -> [D -> D]]
  PROVE  \E f \in [0 .. N -> D] : f[0] = x /\ \A n \in 1 .. N : f[n] = G[n][f[n - 1]]
<1> DEFINE step(s) == <<s[1] + 1, IF s[1] + 1 \in 1 .. N THEN G[s[1] + 1][s[2]] ELSE s[2]>>
           F == [s \in Nat \X D |-> step(s)]
<1>1. PICK up : Iterates(up, F, <<0, x>>, Nat)
  BY IterateExists
<1>2. \A n \in Nat, d \in D : \E e \in D :
        F[<<n, d>>] = <<n + 1, e>> /\ (n + 1 \in 1 .. N => e = G[n + 1][d])
  <2> SUFFICES ASSUME NEW n \in Nat, NEW d \in D
               PROVE  \E e \in D : /\ F[<<n, d>>] = <<n + 1, e>>
                                   /\ n + 1 \in 1 .. N => e = G[n + 1][d]
    OBVIOUS
  <2>1. F[<<n, d>>] = <<n + 1, IF n + 1 \in 1 .. N THEN G[n + 1][d] ELSE d>>
    OBVIOUS
  <2> HIDE DEF F
  <2>2. n + 1 \in 1 .. N => G[n + 1][d] \in D
    OBVIOUS
  <2> QED
    BY <2>1, <2>2
<1> HIDE DEF F
<1>3. up[0] = <<0, x>> /\ \A n \in Nat : up[n + 1] = F[up[n]]
  <2>1. \A k \in Nat : up[k] = IF k = 0 THEN <<0, x>> ELSE F[up[k - 1]]
    BY <1>1 DEF Iterates
  <2>2. \A n \in Nat : n + 1 \in Nat /\ n + 1 # 0 /\ (n + 1) - 1 = n
    OBVIOUS
  <2> QED
    BY <2>1, <2>2
<1> DEFINE A == {n \in Nat : \E d \in D : up[n] = <<n, d>>}
<1>4. \A n \in Nat : n \in A
  <2>1. 0 \in A
    BY <1>3
  <2>2. ASSUME NEW n \in Nat, n \in A
        PROVE  n + 1 \in A
    <3>1. PICK d \in D : up[n] = <<n, d>>
      BY <2>2
    <3>2. PICK e \in D : F[<<n, d>>] = <<n + 1, e>>
      BY <1>2
    <3>3. up[n + 1] = F[up[n]]
      BY <1>3
    <3>5. up[n + 1] = <<n + 1, e>>
      BY <3>1, <3>2, <3>3, Zenon
    <3>4. n + 1 \in Nat /\ up[n + 1] = <<n + 1, e>>
      BY <3>5
    <3> QED
      BY <3>4
  <2> HIDE DEF A
  <2> QED
    BY <2>1, <2>2, NumberInduction
<1> DEFINE f == [n \in 0 .. N |-> up[n][2]]
<1>5. f \in [0 .. N -> D]
  BY <1>4
<1>6. \A n \in 0 .. N : f[n] = IF n = 0 THEN x ELSE G[n][f[n - 1]]
  <2> SUFFICES ASSUME NEW n \in 0 .. N
               PROVE  f[n] = IF n = 0 THEN x ELSE G[n][f[n - 1]]
    OBVIOUS
  <2>1. CASE n = 0
    BY <1>3, <2>1
  <2>2. CASE n # 0
    <3>1. PICK m \in 0 .. N : n = m + 1
      <4>1. n - 1 \in 0 .. N /\ n = (n - 1) + 1
        BY <2>2
      <4> QED
        BY <4>1
    <3>2. PICK d \in D : up[m] = <<m, d>>
      BY <1>4
    <3>3. n - 1 = m /\ m \in Nat /\ m + 1 \in 1 .. N
      BY <3>1
    <3>5. up[n] = F[<<m, d>>]
      BY <1>3, <3>1, <3>2, <3>3
    <3>4. up[n][2] = G[n][d]
      <4>1. PICK e \in D : F[<<m, d>>] = <<m + 1, e>> /\ e = G[m + 1][d]
        BY <1>2, <3>3
      <4> QED
        BY <3>1, <3>5, <4>1
    <3> QED
      BY <2>2, <3>2, <3>3, <3>4
  <2> QED
    BY <2>1, <2>2
<1> HIDE DEF f
<1>7. f[0] = x /\ \A n \in 1 .. N : f[n] = G[n][f[n - 1]]
  BY <1>6
<1> QED
  BY <1>5, <1>7

(* FlattenSeq by its prefixes.                                             *)
ConcatClosed(D) == <<>> \in D /\ \A s, t \in D : s \o t \in D

Concatenations(f, N, lists, D) ==
  f \in [0 .. N -> D] /\ f[0] = <<>> /\ \A n \in 1 .. N : f[n] = f[n - 1] \o lists[n]

LEMMA PrefixesExist ==
  ASSUME NEW D, ConcatClosed(D),
         NEW N \in Nat, NEW lists, lists \in [1 .. N -> D]
  PROVE  \E f : Concatenations(f, N, lists, D)
<1>1. PICK G : G = [n \in 1 .. N |-> [d \in D |-> d \o lists[n]]]
  OBVIOUS
<1>2. <<>> \in D /\ G \in [1 .. N -> [D -> D]]
  BY <1>1 DEF ConcatClosed
<1>3. PICK f \in [0 .. N -> D] : f[0] = <<>> /\ \A n \in 1 .. N : f[n] = G[n][f[n - 1]]
  BY ONLY N \in Nat, <1>2, RecursionExists
<1>4. \A n \in 1 .. N : f[n] = f[n - 1] \o lists[n]
  <2> SUFFICES ASSUME NEW n \in 1 .. N
               PROVE  f[n] = f[n - 1] \o lists[n]
    OBVIOUS
  <2>1. f[n - 1] \in D
    BY <1>3
  <2> QED
    BY <1>1, <1>3, <2>1
<1> QED
  BY <1>3, <1>4 DEF Concatenations

LEMMA Flattened ==
  ASSUME NEW S, NEW lists, lists \in Seq(Seq(S))
  PROVE  \E f : Concatenations(f, Len(lists), lists, Seq(S)) /\ FlattenSeq(lists) = f[Len(lists)]
<1>1. PICK N \in Nat : N = Len(lists)
  BY LenProperties
<1>2. \A n \in 1 .. N : lists[n] \in Seq(S)
  BY <1>1
<1>3. CASE N = 0
  <2> DEFINE f == [n \in 0 .. N |-> <<>>]
  <2>1. lists = <<>>
    BY <1>1, <1>3, EmptySeq
  <2>2. FlattenSeq(lists) = <<>>
    BY <1>1, <1>3, <2>1 DEF FlattenSeq
  <2>3. f \in [0 .. N -> Seq(S)] /\ f[0] = <<>> /\ 1 .. N = {}
    BY <1>3
  <2> QED
    BY <1>1, <1>3, <2>2, <2>3 DEF Concatenations
<1>4. CASE N # 0
  <2> DEFINE Flat(h) == h = [i \in 1 .. N |-> IF i = 1 THEN lists[i] ELSE h[i - 1] \o lists[i]]
  <2>1. \E h : Flat(h)
    <3>3. PICK f \in [0 .. N -> Seq(S)] :
             f[0] = <<>> /\ \A n \in 1 .. N : f[n] = f[n - 1] \o lists[n]
      <4>1. PICK D : D = Seq(S)
        OBVIOUS
      <4>2. N \in Nat /\ lists \in [1 .. N -> D] /\ ConcatClosed(D)
        BY <1>1, <4>1, ConcatProperties DEF ConcatClosed
      <4>3. \E f : Concatenations(f, N, lists, D)
        BY ONLY <4>2, PrefixesExist
      <4> QED
        BY <4>1, <4>3 DEF Concatenations
    <3> DEFINE h == [i \in 1 .. N |-> f[i]]
    <3>4. \A i \in 1 .. N : h[i] = IF i = 1 THEN lists[i] ELSE h[i - 1] \o lists[i]
      <4> SUFFICES ASSUME NEW i \in 1 .. N
                   PROVE  h[i] = IF i = 1 THEN lists[i] ELSE h[i - 1] \o lists[i]
        OBVIOUS
      <4>1. i - 1 \in 0 .. N /\ i \in 0 .. N /\ i # 0 /\ f[i - 1] \in Seq(S)
        OBVIOUS
      <4>3. f[i] = f[i - 1] \o lists[i]
        BY <3>3, <4>1
      <4>4. CASE i = 1
        <5>1. f[0] = <<>>
          BY <3>3
        <5>4. i - 1 = 0
          BY <4>4
        <5>5. f[1] = f[0] \o lists[1]
          BY <4>3, <4>4, <5>4
        <5>2. f[1] = <<>> \o lists[1] /\ lists[1] \in Seq(S) /\ h[1] = f[1]
          BY <1>2, <4>4, <5>1, <5>5
        <5>3. <<>> \o lists[1] = lists[1]
          BY <5>2, ConcatEmptySeq
        <5> QED
          BY <4>4, <5>2, <5>3
      <4>5. CASE i # 1
        <5>1. i - 1 \in 1 .. N
          BY <4>5
        <5> QED
          BY <4>3, <4>5, <5>1
      <4> QED
        BY <4>4, <4>5
    <3> HIDE DEF h
    <3>5. h = [i \in 1 .. N |-> h[i]]
      BY DEF h
    <3>6. Flat(h)
      BY <3>4, <3>5
    <3> QED
      BY <3>6
  <2>2. PICK h : Flat(h) /\ FlattenSeq(lists) = h[N]
    <3>1. FlattenSeq(lists) = (CHOOSE h : Flat(h))[N]
      BY <1>1, <1>4 DEF FlattenSeq
    <3> HIDE DEF Flat
    <3> QED
      BY <2>1, <3>1
  <2>3. \A i \in 1 .. N : h[i] = IF i = 1 THEN lists[i] ELSE h[i - 1] \o lists[i]
    BY <2>2
  <2> HIDE DEF Flat
  <2> DEFINE f == [n \in 0 .. N |-> IF n = 0 THEN <<>> ELSE h[n]]
  <2>4. \A n \in 1 .. N : f[n] = f[n - 1] \o lists[n]
    <3> SUFFICES ASSUME NEW n \in 1 .. N
                 PROVE  f[n] = f[n - 1] \o lists[n]
      OBVIOUS
    <3>1. n - 1 \in 0 .. N /\ n \in 0 .. N
      OBVIOUS
    <3>2. CASE n = 1
      BY <1>2, <2>3, <3>1, <3>2, ConcatEmptySeq
    <3>3. CASE n # 1
      <4>1. n - 1 \in 1 .. N /\ n - 1 # 0 /\ n # 0
        BY <3>3
      <4> QED
        BY <2>3, <3>1, <3>3, <4>1
    <3> QED
      BY <3>2, <3>3
  <2>5. f[0] = <<>> /\ f = [n \in 0 .. N |-> f[n]] /\ f[N] = h[N]
    BY <1>4
  <2> HIDE DEF f
  <2> DEFINE A == {n \in Nat : n <= N => f[n] \in Seq(S)}
  <2>6. \A n \in Nat : n \in A
    <3>1. 0 \in A
      <4>1. <<>> \in Seq(S)
        OBVIOUS
      <4> QED
        BY <2>5, <4>1
    <3>2. ASSUME NEW n \in Nat, n \in A
          PROVE  n + 1 \in A
      <4> SUFFICES ASSUME n + 1 <= N
                   PROVE  f[n + 1] \in Seq(S)
        OBVIOUS
      <4>1. n + 1 \in 1 .. N /\ (n + 1) - 1 = n /\ f[n] \in Seq(S)
        BY <3>2
      <4>2. f[n + 1] = f[n] \o lists[n + 1]
        BY <2>4, <4>1
      <4> QED
        BY <1>2, <4>1, <4>2, ConcatProperties
    <3> HIDE DEF A
    <3> QED
      BY <3>1, <3>2, NumberInduction
  <2>7. f \in [0 .. N -> Seq(S)]
    BY <2>5, <2>6
  <2> QED
    BY <1>1, <2>2, <2>4, <2>5, <2>7 DEF Concatenations
<1> QED
  BY <1>3, <1>4
=============================================================================
