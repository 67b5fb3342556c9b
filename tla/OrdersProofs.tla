------------------------------ MODULE OrdersProofs ------------------------------
(***************************************************************************)
(* Facts about finite sets, sorted sequences and recursion that several    *)
(* proofs rest on.  A strict order gives each member of a finite set as    *)
(* many predecessors as no other has, and there are as many numbers as     *)
(* members, so a sorted sequence holds each member once.  A function whose *)
(* definition descends exists, as what its definition, iterated, settles to*)
(* (RecursionIsDefined, DescentIsDefined).                                 *)
(***************************************************************************)
EXTENDS Orders, FiniteSetTheorems, FunctionTheorems, WellFoundedInduction, TLAPS

(* A property that some number lacks, a least one lacks: the place of      *)
(* induction over numbers in these proofs.                                 *)
LEMMA LeastNumber ==
  ASSUME NEW S \in SUBSET Nat, S # {}
  PROVE  \E n \in S : \A m \in S : n <= m
<1> DEFINE below == {pair \in Nat \X Nat : pair[1] < pair[2]}
<1>1. IsWellFoundedOn(below, Nat)
  BY NatLessThanWellFounded DEF OpToRel
<1>2. PICK n \in S : \A m \in S : <<m, n>> \notin below
  <2> HIDE DEF below
  <2> QED
    BY <1>1, WFMin
<1>3. ASSUME NEW m \in S PROVE n <= m
  <2>1. m \in Nat /\ n \in Nat /\ <<m, n>> \notin below
    BY <1>2
  <2> QED
    BY <2>1
<1> QED
  BY <1>3

LEMMA IntervalIsFinite ==
  ASSUME NEW n \in Nat
  PROVE  IsFiniteSet(1 .. n)
BY FS_Interval

LEMMA ImageIsFinite ==
  ASSUME NEW S, IsFiniteSet(S), NEW f, DOMAIN f = S
  PROVE  IsFiniteSet({f[x] : x \in S})
<1> DEFINE image == {f[x] : x \in S}
           g == [x \in S |-> f[x]]
<1>1. g \in Surjection(S, image)
  BY Fun_IsSurj
<1>2. IsFiniteSet(image)
  BY <1>1, FS_Surjection
<1> QED
  BY <1>2

(* A set that a function maps one to one onto another has its size. *)
LEMMA SameSize ==
  ASSUME NEW A, NEW B, NEW f \in [A -> B], IsFiniteSet(A),
         \A x, y \in A : f[x] = f[y] => x = y,
         \A y \in B : \E x \in A : f[x] = y
  PROVE  IsFiniteSet(B) /\ Cardinality(B) = Cardinality(A)
<1>1. f \in Bijection(A, B)
  BY Fun_IsInj, Fun_IsSurj, Fun_IsBij
<1>2. ExistsBijection(A, B)
  BY <1>1 DEF ExistsBijection
<1> QED
  BY <1>2, FS_Bijection

LEMMA OntoItself ==
  ASSUME NEW A, NEW B, NEW f \in [A -> B], IsFiniteSet(B), Cardinality(A) = Cardinality(B),
         \A x, y \in A : f[x] = f[y] => x = y
  PROVE  \A y \in B : \E x \in A : f[x] = y
<1>1. f \in Injection(A, B)
  BY Fun_IsInj
<1>2. f \in Surjection(A, B)
  BY <1>1, FS_Injection
<1> QED
  BY <1>2 DEF Surjection

(* Sorting places every member once, before those that come after it. *)
LEMMA SortedIsTotal ==
  ASSUME NEW S, IsFiniteSet(S), NEW before, IsStrictOrder(S, before)
  PROVE  LET s == Sorted(S, before)
             n == Cardinality(S) IN
           /\ n \in Nat /\ s \in Seq(S) /\ Len(s) = n /\ s \in [1 .. n -> S]
           /\ \A i, j \in 1 .. n : s[i] = s[j] => i = j
           /\ \A x \in S : \E i \in 1 .. n : s[i] = x
           /\ \A i, j \in 1 .. n : i < j => <<s[i], s[j]>> \in before
<1> DEFINE n == Cardinality(S)
           rank == [x \in S |-> Cardinality(Before(S, before, x))]
           s == Sorted(S, before)
<1>1. n \in Nat
  BY FS_CardinalityType
<1>2. ASSUME NEW x \in S
      PROVE  /\ IsFiniteSet(Before(S, before, x)) /\ rank[x] \in 0 .. n - 1
             /\ rank[x] = Cardinality(Before(S, before, x))
  <2>1. Before(S, before, x) \subseteq S /\ Before(S, before, x) # S
    BY DEF Before, IsStrictOrder
  <2>2. /\ IsFiniteSet(Before(S, before, x))
        /\ Cardinality(Before(S, before, x)) <= n
        /\ Cardinality(Before(S, before, x)) # n
    BY <2>1, FS_Subset
  <2>3. Cardinality(Before(S, before, x)) \in Nat
    BY <2>2, FS_CardinalityType
  <2> QED
    BY <1>1, <2>2, <2>3
<1>3. ASSUME NEW x \in S, NEW y \in S, <<x, y>> \in before
      PROVE  rank[x] < rank[y]
  <2>1. Before(S, before, x) \subseteq Before(S, before, y)
    BY <1>3 DEF Before, IsStrictOrder
  <2>2. x \in Before(S, before, y) /\ x \notin Before(S, before, x)
    BY <1>3 DEF Before, IsStrictOrder
  <2>3. /\ Cardinality(Before(S, before, x)) <= Cardinality(Before(S, before, y))
        /\ Cardinality(Before(S, before, x)) # Cardinality(Before(S, before, y))
    BY <1>2, <2>1, <2>2, FS_Subset
  <2> HIDE DEF rank
  <2> QED
    BY <1>1, <1>2, <2>3
<1>4. ASSUME NEW x \in S, NEW y \in S, x # y
      PROVE  rank[x] # rank[y]
  <2>1. <<x, y>> \in before \/ <<y, x>> \in before
    BY <1>4 DEF IsStrictOrder
  <2>2. rank[x] \in 0 .. n - 1 /\ rank[y] \in 0 .. n - 1
    BY <1>2
  <2> HIDE DEF rank
  <2> QED
    BY <1>1, <1>3, <2>1, <2>2
<1>5. rank \in [S -> 0 .. n - 1]
  BY <1>2
<1>6. IsFiniteSet(0 .. n - 1) /\ Cardinality(0 .. n - 1) = n
  <2>1. /\ IsFiniteSet(0 .. n - 1)
        /\ Cardinality(0 .. n - 1) = IF 0 > n - 1 THEN 0 ELSE (n - 1) - 0 + 1
    BY <1>1, FS_Interval
  <2> QED
    BY <1>1, <2>1
<1> HIDE DEF rank
<1>7. \A i \in 0 .. n - 1 : \E x \in S : rank[x] = i
  <2> DEFINE places == 0 .. n - 1
  <2>1. \A x, y \in S : rank[x] = rank[y] => x = y
    BY <1>4
  <2>2. rank \in [S -> places] /\ IsFiniteSet(places) /\ Cardinality(S) = Cardinality(places)
    BY <1>5, <1>6
  <2> HIDE DEF places
  <2>3. \A i \in places : \E x \in S : rank[x] = i
    BY <2>1, <2>2, OntoItself
  <2> QED
    BY <2>3 DEF places
<1> HIDE DEF n
<1>8. s = [i \in 1 .. n |-> CHOOSE x \in S : Cardinality(Before(S, before, x)) = i - 1]
  BY DEF Sorted, n
<1> HIDE DEF s
<1>9. ASSUME NEW i \in 1 .. n
      PROVE  s[i] \in S /\ rank[s[i]] = i - 1
  <2>1. i - 1 \in 0 .. n - 1
    BY <1>1
  <2>2. \E x \in S : Cardinality(Before(S, before, x)) = i - 1
    BY <1>2, <1>7, <2>1
  <2>3. s[i] \in S /\ Cardinality(Before(S, before, s[i])) = i - 1
    BY <1>8, <2>2
  <2> QED
    BY <1>2, <2>3
<1>10. s \in [1 .. n -> S]
  BY <1>8, <1>9
<1>11. s \in Seq(S) /\ Len(s) = n
  BY <1>1, <1>10
<1>12. \A i, j \in 1 .. n : s[i] = s[j] => i = j
  BY <1>1, <1>9
<1>13. ASSUME NEW x \in S PROVE \E i \in 1 .. n : s[i] = x
  <2>1. rank[x] + 1 \in 1 .. n
    BY <1>1, <1>2
  <2>2. rank[s[rank[x] + 1]] = rank[x] /\ s[rank[x] + 1] \in S
    BY <1>2, <1>9, <2>1
  <2> QED
    BY <1>4, <2>1, <2>2
<1>14. ASSUME NEW i \in 1 .. n, NEW j \in 1 .. n, i < j
       PROVE  <<s[i], s[j]>> \in before
  <2>1. s[i] \in S /\ s[j] \in S /\ rank[s[i]] < rank[s[j]]
    BY <1>1, <1>9, <1>14
  <2>2. s[i] # s[j] /\ <<s[j], s[i]>> \notin before
    <3>1. rank[s[i]] \in Int /\ rank[s[j]] \in Int
      BY <1>1, <1>9
    <3> QED
      BY <1>3, <2>1, <3>1
  <2> QED
    BY <2>1, <2>2 DEF IsStrictOrder
<1> QED
  BY <1>1, <1>10, <1>11, <1>12, <1>13, <1>14 DEF n, s

(* The greatest of finitely many numbers. *)
LEMMA GreatestNumber ==
  ASSUME NEW S \in SUBSET Int, S # {}, IsFiniteSet(S)
  PROVE  \E n \in S : \A m \in S : m <= n
<1> DEFINE below == {p \in S \X S : p[1] < p[2]}
           size == Cardinality(S)
           s == Sorted(S, below)
<1>1. \A a, b \in S : <<a, b>> \in below <=> a < b
  OBVIOUS
<1>2. IsStrictOrder(S, below)
  <2> HIDE DEF below
  <2> QED
    BY <1>1 DEF IsStrictOrder
<1>3. /\ size \in Nat /\ s \in [1 .. size -> S]
      /\ \A x \in S : \E i \in 1 .. size : s[i] = x
      /\ \A i, j \in 1 .. size : i < j => <<s[i], s[j]>> \in below
  <2> HIDE DEF below
  <2> QED
    BY <1>2, SortedIsTotal
<1> HIDE DEF size, s, below
<1>4. size \in 1 .. size
  <2>1. PICK x \in S : TRUE
    OBVIOUS
  <2>2. PICK i \in 1 .. size : s[i] = x
    BY <1>3, <2>1
  <2> QED
    BY <1>3, <2>2
<1>5. ASSUME NEW m \in S PROVE m <= s[size]
  <2>1. PICK i \in 1 .. size : s[i] = m
    BY <1>3
  <2>2. CASE i = size
    <3>1. s[size] \in Int
      BY <1>3, <1>4
    <3> QED
      BY <2>1, <2>2, <3>1
  <2>3. CASE i # size
    <3>1. i < size
      BY <1>3, <2>3
    <3>2. <<m, s[size]>> \in below /\ s[size] \in S
      BY <1>3, <1>4, <2>1, <3>1
    <3>3. m < s[size] /\ m \in Int /\ s[size] \in Int
      BY <1>1, <3>2
    <3> QED
      BY <3>3
  <2> QED
    BY <2>2, <2>3
<1>6. s[size] \in S
  BY <1>3, <1>4
<1> QED
  BY <1>5, <1>6

(* A function that is defined step by step, up to N. *)
IsStepwise(f, N, V, start, step) ==
  /\ f \in [0 .. N -> V]
  /\ f[0] = start /\ \A n \in 1 .. N : f[n] = step[n][f[n - 1]]

LEMMA RecursionIsDefined ==
  ASSUME NEW N \in Nat, NEW V, NEW start \in V, NEW step \in [1 .. N -> [V -> V]]
  PROVE  \E f : IsStepwise(f, N, V, start, step)
<1> DEFINE Defined(f, n) ==
             /\ f \in [0 .. n -> V]
             /\ f[0] = start /\ \A m \in 1 .. n : f[m] = step[m][f[m - 1]]
           undefined == {n \in 0 .. N : ~ \E f : Defined(f, n)}
<1>1. undefined = {}
  <2> SUFFICES ASSUME undefined # {} PROVE FALSE
    OBVIOUS
  <2>1. PICK n \in undefined : \A m \in undefined : n <= m
    <3>1. undefined \in SUBSET Nat
      OBVIOUS
    <3> HIDE DEF undefined
    <3> QED
      BY <3>1, LeastNumber
  <2>2. n \in 0 .. N /\ ~ \E f : Defined(f, n)
    BY <2>1
  <2>3. CASE n = 0
    <3> DEFINE f == [m \in 0 .. 0 |-> start]
    <3>1. Defined(f, 0)
      OBVIOUS
    <3> QED
      BY <2>2, <2>3, <3>1
  <2>4. CASE n # 0
    <3>1. n - 1 \in 0 .. N /\ ~(n <= n - 1) /\ n \in 1 .. N
      BY <2>2, <2>4
    <3>2. PICK g : Defined(g, n - 1)
      BY <2>1, <3>1
    <3> DEFINE f == [m \in 0 .. n |-> IF m = n THEN step[n][g[n - 1]] ELSE g[m]]
    <3>3. n - 1 \in 0 .. n - 1 /\ n - 1 \in 0 .. n /\ n - 1 # n /\ 0 \in 0 .. n - 1 /\ 0 \in 0 .. n
      BY <3>1
    <3>4. g[n - 1] \in V /\ step[n][g[n - 1]] \in V
      BY <3>1, <3>2, <3>3
    <3>5. f \in [0 .. n -> V]
      <4>1. \A m \in 0 .. n : m # n => m \in 0 .. n - 1
        BY <3>1
      <4> QED
        BY <3>2, <3>4, <4>1
    <3>6. f[0] = start
      BY <2>4, <3>2, <3>3
    <3>7. ASSUME NEW m \in 1 .. n PROVE f[m] = step[m][f[m - 1]]
      <4>1. m \in 0 .. n /\ m - 1 \in 0 .. n /\ m - 1 # n
        BY <3>1
      <4>2. f[m - 1] = g[m - 1]
        BY <4>1
      <4>3. CASE m = n
        BY <4>1, <4>2, <4>3
      <4>4. CASE m # n
        <5>1. m \in 1 .. n - 1 /\ f[m] = g[m]
          BY <4>1, <4>4
        <5> QED
          BY <3>2, <4>2, <5>1
      <4> QED
        BY <4>3, <4>4
    <3> HIDE DEF f
    <3> QED
      BY <2>2, <3>5, <3>6, <3>7
  <2> QED
    BY <2>3, <2>4
<1>2. N \in 0 .. N
  OBVIOUS
<1> QED
  BY <1>1, <1>2 DEF IsStepwise

(* A function whose value at x is computed from its values at what has a   *)
(* greater rank.                                                           *)
IsDescent(g, S, V, value) == g \in [S -> V] /\ \A x \in S : g[x] = value[x][g]

LEMMA DescentIsDefined ==
  ASSUME NEW S, NEW V, NEW v \in V, NEW N \in Nat, NEW rank \in [S -> 0 .. N],
         NEW value \in [S -> [[S -> V] -> V]],
         \A x \in S, g, h \in [S -> V] :
           (\A y \in S : rank[x] < rank[y] => g[y] = h[y]) => value[x][g] = value[x][h]
  PROVE  \E g : IsDescent(g, S, V, value)
<1> DEFINE F == [S -> V]
           start == [x \in S |-> v]
           next(g) == [x \in S |-> value[x][g]]
           M == N + 1
           step == [n \in 1 .. M |-> [g \in F |-> next(g)]]
<1>1. start \in F /\ \A g \in F : next(g) \in F
  OBVIOUS
<1>2. step \in [1 .. M -> [F -> F]] /\ M \in Nat
  <2> HIDE DEF next, F
  <2> QED
    BY <1>1
<1>3. PICK f : IsStepwise(f, M, F, start, step)
  <2> HIDE DEF F, start, step, M
  <2> QED
    BY <1>1, <1>2, RecursionIsDefined
<1>4. /\ f \in [0 .. M -> F]
      /\ \A n \in 1 .. M : n - 1 \in 0 .. M /\ f[n - 1] \in F /\ f[n] = next(f[n - 1])
  <2>1. f \in [0 .. M -> F] /\ \A n \in 1 .. M : f[n] = step[n][f[n - 1]]
    BY <1>3 DEF IsStepwise
  <2>2. \A n \in 1 .. M : n - 1 \in 0 .. M
    BY <1>2
  <2> HIDE DEF F, next, M
  <2> QED
    BY <2>1, <2>2
(* After n turns nothing changes any more at a rank above N - n. *)
<1> DEFINE Settled(n) == \A x \in S : N - n < rank[x] => next(f[n])[x] = f[n][x]
<1>5. ASSUME NEW g, NEW x \in S PROVE next(g)[x] = value[x][g]
  OBVIOUS
<1>6. Settled(0)
  <2> SUFFICES ASSUME NEW x \in S, N < rank[x] PROVE FALSE
    OBVIOUS
  <2>1. rank[x] \in 0 .. N
    OBVIOUS
  <2> QED
    BY <2>1
<1> HIDE DEF next
<1>7. ASSUME NEW n \in 1 .. M, Settled(n - 1) PROVE Settled(n)
  <2> SUFFICES ASSUME NEW x \in S, N - n < rank[x]
               PROVE  next(f[n])[x] = f[n][x]
    OBVIOUS
  <2>1. f[n - 1] \in F /\ f[n] \in F /\ f[n] = next(f[n - 1])
    BY <1>4
  <2>2. ASSUME NEW y \in S, rank[x] < rank[y] PROVE f[n][y] = f[n - 1][y]
    <3>1. rank[x] \in 0 .. N /\ rank[y] \in 0 .. N
      OBVIOUS
    <3>2. N - (n - 1) < rank[y]
      BY <1>2, <2>2, <3>1
    <3> QED
      BY <1>7, <2>1, <3>2
  <2>3. value[x][f[n]] = value[x][f[n - 1]]
    <3>1. \A g, h \in F : (\A y \in S : rank[x] < rank[y] => g[y] = h[y])
                            => value[x][g] = value[x][h]
      OBVIOUS
    <3> HIDE DEF F
    <3> QED
      BY <2>1, <2>2, <3>1
  <2> QED
    BY <1>5, <2>1, <2>3
<1>8. Settled(M)
  <2> DEFINE bad == {n \in 0 .. M : ~Settled(n)}
  <2> SUFFICES ASSUME bad # {} PROVE FALSE
    BY <1>2
  <2>1. PICK n \in bad : \A m \in bad : n <= m
    <3>1. bad \in SUBSET Nat
      OBVIOUS
    <3> HIDE DEF bad
    <3> QED
      BY <3>1, LeastNumber
  <2>2. n \in 0 .. M /\ ~Settled(n)
    BY <2>1
  <2>3. n # 0
    BY <1>6, <2>2
  <2>4. n \in 1 .. M /\ n - 1 \in 0 .. M /\ ~(n <= n - 1)
    BY <1>2, <2>2, <2>3
  <2>5. Settled(n - 1)
    BY <2>1, <2>4
  <2> HIDE DEF Settled
  <2> QED
    BY <1>7, <2>2, <2>4, <2>5
<1>9. ASSUME NEW x \in S PROVE f[M][x] = value[x][f[M]]
  <2>1. N - M < rank[x]
    <3>1. rank[x] \in 0 .. N
      OBVIOUS
    <3> QED
      BY <3>1
  <2>2. next(f[M])[x] = f[M][x]
    BY <1>8, <2>1
  <2> QED
    BY <1>5, <2>2
<1>10. f[M] \in F
  BY <1>2, <1>4
<1> QED
  BY <1>9, <1>10 DEF IsDescent

===============================================================================
