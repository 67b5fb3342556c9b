--------------------------- MODULE GraphSearchProofs ---------------------------
(***************************************************************************)
(* Proofs about the two searches, for every finite or infinite set of      *)
(* identifiers and every adjacency: what reachable returns, and that       *)
(* stronglyConnectedComponents reports the whole components and nothing    *)
(* else.  The definition of Reachable as the least closed set needs no     *)
(* induction; that a set of numbers has a least one, which First takes,    *)
(* comes from the well-foundedness of < on Nat.                            *)
(***************************************************************************)
EXTENDS GraphSearch, WellFoundedInduction, TLAPS

IsAdjacency(a) == a \in [Identifiers -> SUBSET Identifiers]

-----------------------------------------------------------------------------
(* What is reached is closed. *)
LEMMA ReachableIsClosed ==
  ASSUME NEW a, IsAdjacency(a), NEW n \in Identifiers, NEW S \in SUBSET Identifiers,
         Closed(S, n, a)
  PROVE  Reachable(n, a) \subseteq S
BY DEF Reachable, IsAdjacency

(* Reachability is transitive: whoever reaches m reaches what m reaches. *)
LEMMA ReachableTransitive ==
  ASSUME NEW a, IsAdjacency(a), NEW n \in Identifiers,
         NEW m \in Reachable(n, a), NEW k \in Reachable(m, a), k # n
  PROVE  k \in Reachable(n, a)
<1>1. m \in Identifiers /\ k \in Identifiers
  BY DEF Reachable, IsAdjacency
<1>2. SUFFICES ASSUME NEW S \in SUBSET Identifiers, Closed(S, n, a)
              PROVE  k \in S
  BY <1>1 DEF Reachable, IsAdjacency
<1>3. m \in S
  BY <1>2 DEF Reachable, IsAdjacency
<1>4. Closed(S, m, a)
  BY <1>2, <1>3 DEF Closed
<1> QED
  BY <1>1, <1>4, ReachableIsClosed

(* The dependencies reached from n are those whose importers, direct or    *)
(* not, include n: calculateComponents may search either way.              *)
LEMMA ReachableReversed ==
  ASSUME NEW a, IsAdjacency(a), NEW n \in Identifiers, NEW m \in Reachable(n, a)
  PROVE  n \in Reachable(m, Reversed(a))
<1>1. m \in Identifiers /\ m # n
  BY DEF Reachable, IsAdjacency
<1>2. Reversed(a) \in [Identifiers -> SUBSET Identifiers]
  BY DEF Reversed, IsAdjacency
<1>3. SUFFICES ASSUME NEW S \in SUBSET Identifiers, Closed(S, m, Reversed(a)), n \notin S
              PROVE  FALSE
  BY <1>1, <1>2 DEF Reachable
<1> DEFINE T == Identifiers \ (S \cup {m})
<1>4. ASSUME NEW x \in Identifiers, x \notin S
      PROVE  a[x] \subseteq T
  <2> SUFFICES ASSUME NEW y \in a[x] PROVE y \in Identifiers /\ y \notin S /\ y # m
    OBVIOUS
  <2>1. y \in Identifiers /\ x \in Reversed(a)[y]
    BY DEF Reversed, IsAdjacency
  <2>2. y \notin S /\ y # m
    BY <1>3, <1>4, <2>1 DEF Closed
  <2> QED
    BY <2>1, <2>2
<1>5. Closed(T, n, a)
  BY <1>3, <1>4 DEF Closed
<1>6. m \in T
  BY <1>1, <1>5, ReachableIsClosed
<1> QED
  BY <1>6

(* Two components of a graph are the same or have no member in common: no  *)
(* identifier is reported in two cycles.                                   *)
LEMMA CyclesAreDisjoint ==
  ASSUME NEW a, IsAdjacency(a), NEW n \in Identifiers, NEW m \in CycleOf(n, a)
  PROVE  CycleOf(m, a) = CycleOf(n, a)
<1>1. CASE m = n
  BY <1>1
<1>2. CASE m # n
  <2>1. m \in Identifiers /\ m \in Reachable(n, a) /\ n \in Reachable(m, a)
    BY <1>2 DEF CycleOf, Reachable, IsAdjacency
  <2>2. ASSUME NEW i \in Identifiers, NEW j \in Identifiers,
               j \in Reachable(i, a), i \in Reachable(j, a), NEW k \in CycleOf(j, a)
        PROVE  k \in CycleOf(i, a)
    <3>1. CASE k = i \/ k = j
      BY <2>2, <3>1 DEF CycleOf
    <3>2. CASE k # i /\ k # j
      <4>1. k \in Reachable(j, a) /\ j \in Reachable(k, a) /\ k \in Identifiers
        BY <3>2 DEF CycleOf, Reachable, IsAdjacency
      <4>2. k \in Reachable(i, a) /\ i \in Reachable(k, a)
        BY <2>2, <3>2, <4>1, ReachableTransitive
      <4> QED
        BY <4>2 DEF CycleOf
    <3> QED
      BY <3>1, <3>2
  <2> QED
    BY <2>1, <2>2
<1> QED
  BY <1>1, <1>2

-----------------------------------------------------------------------------
(* What reachable knows between two turns of its loop.  Everything found   *)
(* so far is in every closed set, and only what is pending has             *)
(* dependencies that have not been found.                                  *)
Found == visited \cup pending

WalkInv ==
  /\ IsAdjacency(adjacency)
  /\ visited \subseteq Identifiers
  /\ pending \subseteq Identifiers
  /\ phase \in {"cycles", "reachable", "done"}
  /\ phase = "cycles" => visited = {} /\ pending = {}
  /\ phase = "done" => pending = {}
  /\ phase # "cycles" =>
       /\ start \in Identifiers
       /\ start \notin visited
       /\ \A S \in SUBSET Identifiers : Closed(S, start, adjacency) => Found \subseteq S
       /\ adjacency[start] \subseteq Found \cup {start}
       /\ \A n \in visited : adjacency[n] \subseteq Found \cup {start}

(* reachable starts with nothing visited and nothing pending. *)
LEMMA WalkInvInit == Init => WalkInv
BY DEF Init, WalkInv, Adjacencies, IsAdjacency

(* Every turn of either search keeps it; the search for cycles leaves all  *)
(* that it mentions alone.                                                 *)
LEMMA WalkInvNext == WalkInv /\ [Next]_vars => WalkInv'
<1> SUFFICES ASSUME WalkInv, [Next]_vars PROVE WalkInv'
  OBVIOUS
<1> USE DEF WalkInv, IsAdjacency, Found
<1>1. CASE ConnectRoot
  BY <1>1 DEF ConnectRoot, walkVars
<1>2. CASE ConnectDependency
  BY <1>2 DEF ConnectDependency, walkVars
<1>3. CASE SkipDependency
  BY <1>3 DEF SkipDependency, walkVars
<1>4. CASE ReturnFromConnect
  BY <1>4 DEF ReturnFromConnect, walkVars
<1>5. CASE StartReachable
  BY <1>5 DEF StartReachable, Closed
<1>6. CASE TakePending
  <2>1. PICK n \in pending :
          IF Skipped(n)
            THEN /\ pending' = pending \ {n}
                 /\ UNCHANGED visited
            ELSE /\ pending' = (pending \ {n}) \cup adjacency[n]
                 /\ visited' = visited \cup {n}
    BY <1>6 DEF TakePending
  <2>2. /\ phase = "reachable"
        /\ UNCHANGED <<adjacency, phase, start>>
        /\ n \in Identifiers
    BY <1>6 DEF TakePending
  <2>3. CASE Skipped(n)
    BY <2>1, <2>2, <2>3 DEF Skipped
  <2>4. CASE ~Skipped(n)
    <3>1. Found' = Found \cup adjacency[n]
      BY <2>1, <2>4
    <3>2. \A S \in SUBSET Identifiers : Closed(S, start, adjacency) => Found' \subseteq S
      BY <2>2, <3>1 DEF Closed
    <3> QED
      BY <2>1, <2>2, <2>4, <3>1, <3>2 DEF Skipped
  <2> QED
    BY <2>3, <2>4
<1>7. CASE ReturnReachable
  BY <1>7 DEF ReturnReachable, walkVars
<1>8. CASE UNCHANGED vars
  BY <1>8 DEF vars, walkVars
<1> QED
  BY <1>1, <1>2, <1>3, <1>4, <1>5, <1>6, <1>7, <1>8 DEF Next

(* With nothing pending, what has been found is itself closed, hence the   *)
(* least closed set.                                                       *)
LEMMA WalkInvExact == WalkInv => ReachableIsExact
<1> SUFFICES ASSUME WalkInv, phase = "done" PROVE visited = Reachable(start, adjacency)
  BY DEF ReachableIsExact
<1> USE DEF WalkInv, IsAdjacency, Found
<1>1. visited \subseteq Reachable(start, adjacency)
  BY DEF Reachable
<1>2. Closed(visited \cup {start}, start, adjacency)
  BY DEF Closed
<1>3. Reachable(start, adjacency) \subseteq visited \cup {start}
  BY <1>2, ReachableIsClosed
<1>4. start \notin Reachable(start, adjacency)
  BY DEF Reachable
<1> QED
  BY <1>1, <1>3, <1>4

(* reachable returns exactly what its start depends on, for every graph. *)
THEOREM ReachableCorrect == Spec => []ReachableIsExact
<1>1. Spec => []WalkInv
  BY WalkInvInit, WalkInvNext, PTL DEF Spec
<1> QED
  BY <1>1, WalkInvExact, PTL

-----------------------------------------------------------------------------
(* What stronglyConnectedComponents knows between two steps.               *)
Elements(s) == {s[i] : i \in 1 .. Len(s)}

Increasing(s, f) == \A i, j \in 1 .. Len(s) : i < j => f[s[i]] < f[s[j]]

Reaches(m, n) == m = n \/ n \in Reachable(m, adjacency)

(* The calls that have not returned, and the identifiers whose component   *)
(* has been taken off the stack.                                           *)
Open == Elements(calls)

Complete == {n \in Identifiers : IsVisited(n) /\ n \notin onStack}

(* The dependencies that the call of n has looked at. *)
SeenBy(n) == adjacency[n] \ rest[n]

SearchTyped ==
  /\ adjacency \in [Identifiers -> SUBSET Identifiers]
  /\ index \in Nat \ {0}
  /\ indices \in [Identifiers -> Nat]
  /\ lowLinks \in [Identifiers -> Nat]
  /\ stack \in Seq(Identifiers)
  /\ onStack \subseteq Identifiers
  /\ calls \in Seq(Identifiers)
  /\ rest \in [Identifiers -> SUBSET Identifiers]
  /\ \A n \in Identifiers : rest[n] \subseteq adjacency[n]

(* Indices tell identifiers apart and grow along the stack and the calls.  *)
NumberedInOrder ==
  /\ \A n \in Identifiers : indices[n] < index
  /\ \A m, n \in Identifiers : IsVisited(m) /\ indices[m] = indices[n] => m = n
  /\ \A n \in onStack : IsVisited(n)
  /\ onStack = Elements(stack)
  /\ Increasing(stack, indices)
  /\ Open \subseteq onStack
  /\ Increasing(calls, indices)

(* A dependency that a call has looked at is visited, and a call returns   *)
(* only after it has looked at all of them.                                *)
SeenAreVisited ==
  \A n \in Identifiers : IsVisited(n) =>
    /\ \A d \in SeenBy(n) : IsVisited(d)
    /\ n \notin Open => rest[n] = {}

CompleteIsClosed == \A n \in Complete : adjacency[n] \subseteq Complete

(* Each identifier on the stack reaches those above it, and an open call   *)
(* below it, or is one.                                                    *)
StackIsConnected ==
  /\ \A m, n \in onStack : indices[m] <= indices[n] => Reaches(m, n)
  /\ \A n \in onStack : \E c \in Open : indices[c] <= indices[n] /\ Reaches(n, c)

(* A low link is the index of an identifier on the stack that the call     *)
(* reaches, ...                                                            *)
LowLinkIsReached ==
  \A c \in Open :
    /\ lowLinks[c] <= indices[c]
    /\ \E n \in onStack : indices[n] = lowLinks[c] /\ Reaches(c, n)

(* The identifiers found by the call of c and not by a later open one. *)
FoundBy(c, n) ==
  /\ indices[c] <= indices[n]
  /\ \A o \in Open : indices[o] <= indices[n] => indices[o] <= indices[c]

(* ... and no higher than any on the stack that what it found depends on.  *)
LowLinkIsLowest ==
  \A c \in Open : \A n \in onStack :
    FoundBy(c, n) => \A d \in SeenBy(n) \cap onStack : lowLinks[c] <= indices[d]

CyclesOf(members) == {c \in {CycleOf(n, adjacency) : n \in members} : IsCycle(c)}

ReportedAreComplete == cycles = CyclesOf(Complete)

AfterSearch == phase # "cycles" => calls = <<>> /\ \A n \in Identifiers : IsVisited(n)

SearchInv ==
  /\ SearchTyped
  /\ NumberedInOrder
  /\ SeenAreVisited
  /\ CompleteIsClosed
  /\ StackIsConnected
  /\ LowLinkIsReached
  /\ LowLinkIsLowest
  /\ ReportedAreComplete
  /\ AfterSearch

-----------------------------------------------------------------------------
(* Sequences along which a function grows: the stack and the calls.        *)

LEMMA AppendedElement ==
  ASSUME NEW S, NEW s \in Seq(S), NEW e \in S
  PROVE  /\ Append(s, e) \in Seq(S)
         /\ Elements(Append(s, e)) = Elements(s) \cup {e}
         /\ Last(Append(s, e)) = e
<1>1. /\ Append(s, e) \in Seq(S) /\ Len(Append(s, e)) = Len(s) + 1 /\ Len(s) \in Nat
      /\ \A i \in 1 .. Len(s) : Append(s, e)[i] = s[i]
      /\ Append(s, e)[Len(s) + 1] = e
  OBVIOUS
<1>2. 1 .. Len(s) + 1 = (1 .. Len(s)) \cup {Len(s) + 1}
  BY <1>1
<1> QED
  BY <1>1, <1>2 DEF Elements, Last

LEMMA AppendedIncreases ==
  ASSUME NEW S, NEW s \in Seq(S), NEW e \in S, NEW f \in [S -> Nat],
         Increasing(s, f), \A x \in Elements(s) : f[x] < f[e]
  PROVE  Increasing(Append(s, e), f)
<1>1. /\ Append(s, e) \in Seq(S) /\ Len(Append(s, e)) = Len(s) + 1 /\ Len(s) \in Nat
      /\ \A i \in 1 .. Len(s) : Append(s, e)[i] = s[i] /\ s[i] \in Elements(s)
      /\ Append(s, e)[Len(s) + 1] = e
  BY DEF Elements
<1> QED
  BY <1>1 DEF Increasing

LEMMA StillIncreasing ==
  ASSUME NEW s, NEW f, NEW g, Increasing(s, f), \A x \in Elements(s) : g[x] = f[x]
  PROVE  Increasing(s, g)
BY DEF Increasing, Elements

(* The elements of a sequence below one of them. *)
Lesser(s, f, e) == {x \in Elements(s) : f[x] < f[e]}

LEMMA IncreasingCut ==
  ASSUME NEW S, NEW s \in Seq(S), NEW f \in [S -> Nat], Increasing(s, f),
         NEW k \in 1 .. Len(s)
  PROVE  /\ SubSeq(s, 1, k - 1) \in Seq(S)
         /\ Elements(SubSeq(s, 1, k - 1)) = Lesser(s, f, s[k])
         /\ Increasing(SubSeq(s, 1, k - 1), f)
         /\ \A x : (\E i \in k .. Len(s) : s[i] = x) <=> x \in Elements(s) /\ f[s[k]] <= f[x]
<1>cut. PICK cut : cut = SubSeq(s, 1, k - 1)
  OBVIOUS
<1>1. /\ cut \in Seq(S) /\ Len(cut) = k - 1
      /\ \A i \in 1 .. k - 1 : cut[i] = s[i]
      /\ Len(s) \in Nat /\ k \in Nat
  BY <1>cut
<1>2. \A i \in 1 .. Len(s) : s[i] \in S /\ f[s[i]] \in Nat
  OBVIOUS
<1>3. \A i \in 1 .. Len(s) : i < k <=> f[s[i]] < f[s[k]]
  <2> SUFFICES ASSUME NEW i \in 1 .. Len(s) PROVE i < k <=> f[s[i]] < f[s[k]]
    OBVIOUS
  <2>1. (i < k => f[s[i]] < f[s[k]]) /\ (k < i => f[s[k]] < f[s[i]])
    BY DEF Increasing
  <2>2. i < k \/ i = k \/ k < i
    BY <1>1
  <2> QED
    BY <1>2, <2>1, <2>2
<1>4. Elements(cut) = {x \in Elements(s) : f[x] < f[s[k]]}
  <2>1. 1 .. Len(cut) = {i \in 1 .. Len(s) : i < k}
    BY <1>1
  <2>2. \A i \in 1 .. Len(cut) : cut[i] = s[i]
    BY <1>1
  <2>3. Elements(cut) = {s[i] : i \in {j \in 1 .. Len(s) : j < k}}
    BY <2>1, <2>2 DEF Elements
  <2> QED
    BY <1>3, <2>3 DEF Elements
<1>5. Increasing(cut, f)
  <2>1. \A i \in 1 .. Len(cut) : cut[i] = s[i] /\ i \in 1 .. Len(s)
    BY <1>1
  <2> QED
    BY <2>1 DEF Increasing
<1>6. {s[i] : i \in k .. Len(s)} = {x \in Elements(s) : f[s[k]] <= f[x]}
  <2>1. \A i \in 1 .. Len(s) : i \in k .. Len(s) <=> f[s[k]] <= f[s[i]]
    BY <1>1, <1>2, <1>3
  <2> QED
    BY <2>1, <1>1 DEF Elements
<1> QED
  BY <1>cut, <1>1, <1>4, <1>5, <1>6 DEF Lesser

(* The last element is the greatest, and what remains without it is all    *)
(* the others.                                                             *)
LEMMA LastIsGreatest ==
  ASSUME NEW S, NEW s \in Seq(S), NEW f \in [S -> Nat], Increasing(s, f), s # <<>>
  PROVE  /\ Last(s) \in Elements(s) /\ Last(s) \in S
         /\ \A x \in Elements(s) : f[x] <= f[Last(s)]
         /\ \A x \in Elements(s) : f[x] = f[Last(s)] => x = Last(s)
         /\ WithoutLast(s) \in Seq(S)
         /\ Elements(WithoutLast(s)) = Elements(s) \ {Last(s)}
         /\ Increasing(WithoutLast(s), f)
<1>1. Len(s) \in 1 .. Len(s) /\ Len(s) \in Nat
  OBVIOUS
<1>2. \A i \in 1 .. Len(s) : s[i] \in S /\ f[s[i]] \in Nat
  OBVIOUS
<1>3. Last(s) \in Elements(s) /\ Last(s) \in S
  BY <1>1, <1>2 DEF Last, Elements
<1>4. \A i \in 1 .. Len(s) : i < Len(s) => f[s[i]] < f[Last(s)]
  BY <1>1 DEF Increasing, Last
<1>5. \A i \in 1 .. Len(s) : i < Len(s) \/ s[i] = Last(s)
  BY <1>1 DEF Last
<1>6. \A x \in Elements(s) : f[x] < f[Last(s)] \/ x = Last(s)
  BY <1>4, <1>5 DEF Elements
<1>7. f[Last(s)] \in Nat /\ \A x \in Elements(s) : f[x] \in Nat
  BY <1>2, <1>3 DEF Elements
<1>8. /\ WithoutLast(s) \in Seq(S)
      /\ Elements(WithoutLast(s)) = Lesser(s, f, Last(s))
      /\ Increasing(WithoutLast(s), f)
  <2>1. WithoutLast(s) = SubSeq(s, 1, Len(s) - 1) /\ s[Len(s)] = Last(s)
    BY DEF WithoutLast, Last
  <2>2. /\ WithoutLast(s) \in Seq(S)
        /\ Elements(WithoutLast(s)) = Lesser(s, f, s[Len(s)])
        /\ Increasing(WithoutLast(s), f)
    <3>1. /\ SubSeq(s, 1, Len(s) - 1) \in Seq(S)
          /\ Elements(SubSeq(s, 1, Len(s) - 1)) = Lesser(s, f, s[Len(s)])
          /\ Increasing(SubSeq(s, 1, Len(s) - 1), f)
      BY <1>1, IncreasingCut
    <3> QED
      BY <2>1, <3>1
  <2> QED
    BY <2>1, <2>2
<1> QED
  BY <1>3, <1>6, <1>7, <1>8 DEF Lesser

-----------------------------------------------------------------------------
(* First picks an element: identifiers are numbers, and a set of numbers   *)
(* has a least one.                                                        *)
LEMMA FirstIsMember ==
  ASSUME NEW S \in SUBSET Identifiers, S # {}
  PROVE  First(S) \in S
<1> DEFINE below == {pair \in Nat \X Nat : pair[1] < pair[2]}
<1>1. S \subseteq Nat
  BY IdentifiersAssumption
<1>2. IsWellFoundedOn(below, Nat)
  BY NatLessThanWellFounded DEF OpToRel
<1>3. PICK n \in S : \A m \in S : <<m, n>> \notin below
  <2> HIDE DEF below
  <2> QED
    BY <1>1, <1>2, WFMin
<1>4. ASSUME NEW m \in S PROVE n <= m
  <2>1. m \in Nat /\ n \in Nat /\ <<m, n>> \notin below
    BY <1>1, <1>3
  <2> QED
    BY <2>1
<1> QED
  BY <1>4 DEF First

(* Reaching, as the proofs below use it. *)
LEMMA Dependencies ==
  ASSUME IsAdjacency(adjacency), NEW n \in Identifiers, NEW d \in adjacency[n]
  PROVE  d \in Identifiers /\ Reaches(n, d)
BY DEF IsAdjacency, Reaches, Reachable, Closed

LEMMA ReachesFurther ==
  ASSUME IsAdjacency(adjacency),
         NEW m \in Identifiers, NEW n \in Identifiers, NEW k \in Identifiers,
         Reaches(m, n), Reaches(n, k)
  PROVE  Reaches(m, k)
<1>1. CASE m = n \/ n = k \/ m = k
  BY <1>1 DEF Reaches
<1>2. CASE ~(m = n \/ n = k \/ m = k)
  <2>1. n \in Reachable(m, adjacency) /\ k \in Reachable(n, adjacency)
    BY <1>2 DEF Reaches
  <2>2. k \in Reachable(m, adjacency)
    BY <1>2, <2>1, ReachableTransitive
  <2> QED
    BY <2>2 DEF Reaches
<1> QED
  BY <1>1, <1>2

LEMMA MutualReach ==
  ASSUME NEW n \in Identifiers, NEW m \in Identifiers, adjacency \in [Identifiers -> SUBSET Identifiers]
  PROVE  m \in CycleOf(n, adjacency) <=> Reaches(n, m) /\ Reaches(m, n)
BY DEF CycleOf, Reaches

-----------------------------------------------------------------------------
(* A call of connect begins: its identifier goes on the stack.             *)
Begins(n) ==
  /\ n \in Identifiers
  /\ ~IsVisited(n)
  /\ Connect(n)
  /\ lowLinks' = [lowLinks EXCEPT ![n] = index]
  /\ UNCHANGED <<adjacency, phase, cycles>>

LEMMA BegunCall ==
  ASSUME SearchInv, NEW n, Begins(n)
  PROVE  /\ Open' = Open \cup {n} /\ Current' = n
         /\ onStack' = onStack \cup {n} /\ n \notin onStack
         /\ indices'[n] = index
         /\ \A m \in Identifiers : m # n => indices'[m] = indices[m] /\ lowLinks'[m] = lowLinks[m]
         /\ \A m \in onStack : m # n /\ indices[m] < index
         /\ lowLinks'[n] = index
         /\ Complete' = Complete
<1> USE DEF SearchInv, SearchTyped, NumberedInOrder, Begins, Connect
<1>1. Open' = Open \cup {n} /\ Current' = n
  BY AppendedElement DEF Open, Current
<1>2. /\ onStack' = onStack \cup {n} /\ n \notin onStack
      /\ indices'[n] = index
      /\ \A m \in Identifiers : m # n => indices'[m] = indices[m] /\ lowLinks'[m] = lowLinks[m]
      /\ lowLinks'[n] = index
  OBVIOUS
<1>3. Complete' = Complete
  BY <1>2 DEF Complete, IsVisited
<1> QED
  BY <1>1, <1>2, <1>3

LEMMA BegunIsNumbered ==
  ASSUME SearchInv, NEW n, Begins(n)
  PROVE  NumberedInOrder'
<1>1. /\ index \in Nat \ {0} /\ index' = index + 1 /\ n \in Identifiers
      /\ indices \in [Identifiers -> Nat] /\ indices' \in [Identifiers -> Nat]
      /\ stack \in Seq(Identifiers) /\ calls \in Seq(Identifiers)
      /\ onStack \subseteq Identifiers /\ indices[n] = 0
      /\ stack' = Append(stack, n) /\ calls' = Append(calls, n)
  BY DEF Begins, SearchInv, SearchTyped, Connect, IsVisited, Unvisited
<1>2. /\ Open' = Open \cup {n}
      /\ onStack' = onStack \cup {n} /\ n \notin onStack
      /\ indices'[n] = index
      /\ \A m \in Identifiers : m # n => indices'[m] = indices[m]
      /\ \A m \in onStack : m # n /\ indices[m] < index
  BY BegunCall
<1>3. NumberedInOrder
  BY DEF SearchInv
<1>4. ASSUME NEW m \in Identifiers PROVE indices'[m] < index'
  <2>1. indices[m] \in Nat /\ indices[m] < index
    BY <1>1, <1>3 DEF NumberedInOrder
  <2>2. indices'[m] = IF m = n THEN index ELSE indices[m]
    BY <1>2
  <2>3. index \in Nat /\ index' = index + 1
    BY <1>1
  <2> QED
    BY <2>1, <2>2, <2>3
<1>5. ASSUME NEW k \in Identifiers, NEW m \in Identifiers,
             IsVisited(k)', indices'[k] = indices'[m]
      PROVE  k = m
  <2>1. \A i \in Identifiers : indices'[i] = IF i = n THEN index ELSE indices[i]
    BY <1>2
  <2>2. \A i \in Identifiers : indices[i] \in Nat /\ indices[i] < index
    BY <1>1, <1>3 DEF NumberedInOrder
  <2>3. k = n <=> m = n
    BY <1>1, <1>5, <2>1, <2>2
  <2>4. k # n => IsVisited(k) /\ indices[k] = indices[m]
    BY <1>5, <2>1, <2>3 DEF IsVisited
  <2> QED
    BY <1>3, <2>3, <2>4 DEF NumberedInOrder
<1>6. \A m \in onStack' : IsVisited(m)'
  BY <1>1, <1>2, <1>3 DEF NumberedInOrder, IsVisited, Unvisited
<1>7. onStack' = Elements(stack)'
  BY <1>1, <1>2, <1>3, AppendedElement DEF NumberedInOrder
<1>8. ASSUME NEW s \in Seq(Identifiers), Increasing(s, indices), Elements(s) \subseteq onStack
      PROVE  Increasing(Append(s, n), indices')
  <2>1. \A x \in Elements(s) : indices'[x] = indices[x] /\ indices'[x] < indices'[n]
    BY <1>1, <1>2, <1>8
  <2>2. Increasing(s, indices')
    BY <1>8, <2>1, StillIncreasing
  <2> QED
    BY <1>1, <1>8, <2>1, <2>2, AppendedIncreases
<1>9. Increasing(stack, indices)' /\ Increasing(calls, indices)'
  <2>1. Increasing(stack', indices') /\ Increasing(calls', indices')
    BY <1>1, <1>3, <1>8 DEF NumberedInOrder, Open
  <2> QED
    BY <2>1 DEF Increasing
<1>10. Open' \subseteq onStack'
  BY <1>2, <1>3 DEF NumberedInOrder
<1> QED
  BY <1>4, <1>5, <1>6, <1>7, <1>9, <1>10 DEF NumberedInOrder

(* Its dependencies are all ahead of it; at most the caller has looked at  *)
(* one more, the new identifier itself.                                    *)
RestOfBegun(n) ==
  /\ rest' \in [Identifiers -> SUBSET Identifiers]
  /\ rest'[n] = adjacency[n]
  /\ \A m \in Identifiers : m # n =>
       rest'[m] = rest[m] \/ (m \in Open /\ rest'[m] = rest[m] \ {n})
  /\ calls = <<>> \/ n \in adjacency[Current]

LEMMA NothingOpen ==
  ASSUME SearchInv, calls = <<>>
  PROVE  Open = {} /\ onStack = {}
<1>1. Open = {}
  BY DEF Open, Elements
<1> QED
  BY <1>1 DEF SearchInv, StackIsConnected

(* The running call is the open one with the greatest index. *)
LEMMA CurrentIsGreatest ==
  ASSUME SearchInv, calls # <<>>
  PROVE  /\ Current \in Open /\ Current \in Identifiers /\ Current \in onStack
         /\ \A c \in Open : indices[c] <= indices[Current]
         /\ \A c \in Open : indices[c] = indices[Current] => c = Current
         /\ WithoutLast(calls) \in Seq(Identifiers)
         /\ Elements(WithoutLast(calls)) = Open \ {Current}
         /\ Increasing(WithoutLast(calls), indices)
         /\ WithoutLast(calls) # <<>> =>
              LET caller == Last(WithoutLast(calls)) IN
                /\ caller \in Open /\ caller # Current
                /\ indices[caller] < indices[Current]
                /\ \A c \in Open \ {Current} : indices[c] <= indices[caller]
<1>1. /\ calls \in Seq(Identifiers) /\ indices \in [Identifiers -> Nat]
      /\ Increasing(calls, indices) /\ Open \subseteq onStack /\ onStack \subseteq Identifiers
  BY DEF SearchInv, SearchTyped, NumberedInOrder
<1>2. /\ Current \in Open /\ Current \in Identifiers
      /\ \A c \in Open : indices[c] <= indices[Current]
      /\ \A c \in Open : indices[c] = indices[Current] => c = Current
      /\ WithoutLast(calls) \in Seq(Identifiers)
      /\ Elements(WithoutLast(calls)) = Open \ {Current}
      /\ Increasing(WithoutLast(calls), indices)
  BY <1>1, LastIsGreatest DEF Open, Current
<1> DEFINE others == WithoutLast(calls)
<1>3. ASSUME others # <<>>
      PROVE  /\ Last(others) \in Open /\ Last(others) # Current
             /\ \A c \in Open \ {Current} : indices[c] <= indices[Last(others)]
  BY <1>1, <1>2, <1>3, LastIsGreatest
<1>4. ASSUME others # <<>> PROVE indices[Last(others)] < indices[Current]
  <2>1. /\ indices[Last(others)] <= indices[Current]
        /\ indices[Last(others)] # indices[Current]
    BY <1>2, <1>3, <1>4
  <2>2. indices[Last(others)] \in Nat /\ indices[Current] \in Nat
    BY <1>1, <1>2, <1>3, <1>4
  <2> QED
    BY <2>1, <2>2
<1> QED
  BY <1>1, <1>2, <1>3, <1>4

LEMMA BegunKeepsInv ==
  ASSUME SearchInv, phase = "cycles", NEW n, Begins(n), RestOfBegun(n)
  PROVE  SearchInv'
<1>1. /\ Open' = Open \cup {n} /\ Current' = n
      /\ onStack' = onStack \cup {n} /\ n \notin onStack
      /\ indices'[n] = index
      /\ \A m \in Identifiers : m # n => indices'[m] = indices[m] /\ lowLinks'[m] = lowLinks[m]
      /\ \A m \in onStack : m # n /\ indices[m] < index
      /\ lowLinks'[n] = index
      /\ Complete' = Complete
  BY BegunCall
<1>2. /\ n \in Identifiers /\ adjacency' = adjacency /\ phase' = "cycles" /\ cycles' = cycles
      /\ ~IsVisited(n)
  BY DEF Begins
<1>3. /\ onStack \subseteq Identifiers /\ Open \subseteq onStack
      /\ indices \in [Identifiers -> Nat] /\ lowLinks \in [Identifiers -> Nat]
      /\ adjacency \in [Identifiers -> SUBSET Identifiers] /\ index \in Nat \ {0}
  BY DEF SearchInv, SearchTyped, NumberedInOrder
<1>4. \A x, y : Reaches(x, y)' <=> Reaches(x, y)
  BY <1>2 DEF Reaches
<1>5. \A m \in Identifiers : m # n =>
        /\ SeenBy(m)' \subseteq SeenBy(m) \cup {n}
        /\ m \notin Open /\ rest[m] = {} => rest'[m] = {}
  BY <1>2, <1>3 DEF RestOfBegun, SeenBy
<1>6. SeenBy(n)' = {}
  BY <1>2 DEF RestOfBegun, SeenBy
<1>7. SearchTyped'
  <2>1. stack' \in Seq(Identifiers) /\ calls' \in Seq(Identifiers)
    BY AppendedElement DEF Begins, Connect, SearchInv, SearchTyped
  <2>2. /\ indices' \in [Identifiers -> Nat] /\ lowLinks' \in [Identifiers -> Nat]
        /\ index' \in Nat \ {0}
    BY <1>3 DEF Begins, Connect
  <2>3. \A m \in Identifiers : rest'[m] \subseteq adjacency'[m]
    BY <1>2 DEF RestOfBegun, SearchInv, SearchTyped
  <2> QED
    BY <1>1, <1>2, <1>3, <2>1, <2>2, <2>3 DEF SearchTyped, RestOfBegun
<1>8. NumberedInOrder'
  BY BegunIsNumbered
<1>9. SeenAreVisited'
  <2>1. \A m \in Identifiers : IsVisited(m)' <=> IsVisited(m) \/ m = n
    BY <1>1, <1>3 DEF IsVisited, Unvisited
  <2>2. ASSUME NEW m \in Identifiers, IsVisited(m), m # n
        PROVE  /\ \A d \in SeenBy(m)' : IsVisited(d)'
               /\ m \notin Open' => rest'[m] = {}
    <3>1. (\A d \in SeenBy(m) : IsVisited(d)) /\ (m \notin Open => rest[m] = {})
      BY <2>2 DEF SearchInv, SeenAreVisited
    <3>2. SeenBy(m) \subseteq Identifiers
      BY <1>3 DEF SeenBy
    <3> QED
      BY <1>1, <1>2, <1>5, <2>1, <2>2, <3>1, <3>2
  <2> QED
    BY <1>1, <1>6, <2>1, <2>2 DEF SeenAreVisited
<1>10. CompleteIsClosed' /\ ReportedAreComplete' /\ AfterSearch'
  BY <1>1, <1>2 DEF SearchInv, CompleteIsClosed, ReportedAreComplete, CyclesOf, AfterSearch, IsCycle
<1>11. StackIsConnected'
  <2>1. ASSUME NEW m \in onStack PROVE Reaches(m, n)
    <3>1. calls # <<>>
      BY NothingOpen
    <3>2. PICK c \in Open : Reaches(m, c)
      BY DEF SearchInv, StackIsConnected
    <3>3. Reaches(c, Current)
      BY <1>3, <3>1, CurrentIsGreatest DEF SearchInv, StackIsConnected
    <3>4. Reaches(Current, n) /\ Current \in Identifiers
      BY <1>3, <3>1, CurrentIsGreatest, Dependencies DEF RestOfBegun, IsAdjacency
    <3>5. Reaches(m, Current)
      BY <1>3, <3>2, <3>3, <3>4, ReachesFurther DEF IsAdjacency
    <3> QED
      BY <1>2, <1>3, <3>4, <3>5, ReachesFurther DEF IsAdjacency
  <2>2. ASSUME NEW m \in onStack', NEW k \in onStack', indices'[m] <= indices'[k]
        PROVE  Reaches(m, k)
    <3>1. CASE k = n
      BY <1>1, <2>1, <3>1 DEF Reaches
    <3>2. CASE k # n /\ m # n
      BY <1>1, <1>3, <2>2, <3>2 DEF SearchInv, StackIsConnected
    <3>3. CASE k # n /\ m = n
      <4>1. k \in onStack /\ indices'[k] = indices[k] /\ indices[k] < index
        BY <1>1, <1>3, <3>3
      <4>2. indices[k] \in Nat /\ index \in Nat /\ index <= indices[k]
        BY <1>1, <1>3, <2>2, <3>3, <4>1
      <4> QED
        BY <4>1, <4>2
    <3> QED
      BY <3>1, <3>2, <3>3
  <2>3. ASSUME NEW m \in onStack'
        PROVE  \E c \in Open' : indices'[c] <= indices'[m] /\ Reaches(m, c)
    <3>1. CASE m = n
      BY <1>1, <1>3, <3>1 DEF Reaches
    <3>2. CASE m # n
      <4>1. PICK c \in Open : indices[c] <= indices[m] /\ Reaches(m, c)
        BY <1>1, <3>2 DEF SearchInv, StackIsConnected
      <4> QED
        BY <1>1, <1>3, <3>2, <4>1
    <3> QED
      BY <3>1, <3>2
  <2> QED
    BY <1>4, <2>2, <2>3 DEF StackIsConnected
<1>12. LowLinkIsReached'
  <2> SUFFICES ASSUME NEW c \in Open'
               PROVE  /\ lowLinks'[c] <= indices'[c]
                      /\ \E m \in onStack' : indices'[m] = lowLinks'[c] /\ Reaches(c, m)
    BY <1>4 DEF LowLinkIsReached
  <2>1. CASE c = n
    BY <1>1, <1>3, <2>1 DEF Reaches
  <2>2. CASE c # n
    <3>1. PICK m \in onStack : indices[m] = lowLinks[c] /\ Reaches(c, m)
      BY <1>1, <2>2 DEF SearchInv, LowLinkIsReached
    <3>2. lowLinks[c] <= indices[c]
      BY <1>1, <2>2 DEF SearchInv, LowLinkIsReached
    <3> QED
      BY <1>1, <1>3, <2>2, <3>1, <3>2
  <2> QED
    BY <2>1, <2>2
<1>13. LowLinkIsLowest'
  <2> SUFFICES ASSUME NEW c \in Open', NEW m \in onStack', FoundBy(c, m)',
                      NEW d \in SeenBy(m)' \cap onStack'
               PROVE  lowLinks'[c] <= indices'[d]
    BY DEF LowLinkIsLowest
  <2>1. m # n
    BY <1>6
  <2>2. m \in onStack /\ indices'[m] = indices[m] /\ indices[m] < index /\ indices[m] \in Nat
    BY <1>1, <1>3, <2>1
  <2>3. c # n
    BY <1>1, <1>3, <2>2 DEF FoundBy
  <2>4. c \in Open /\ indices'[c] = indices[c] /\ lowLinks'[c] = lowLinks[c]
    BY <1>1, <1>3, <2>3
  <2>5. FoundBy(c, m)
    <3>1. \A o \in Open : indices'[o] = indices[o] /\ o \in Open'
      BY <1>1, <1>3
    <3> QED
      BY <2>2, <2>4, <3>1 DEF FoundBy
  <2>6. CASE d = n
    <3>1. lowLinks[c] <= indices[c] /\ indices[c] < index
      BY <1>1, <1>3, <2>4 DEF SearchInv, LowLinkIsReached
    <3>2. lowLinks[c] \in Nat /\ indices[c] \in Nat
      BY <1>3, <2>4
    <3> QED
      BY <1>1, <1>3, <2>4, <2>6, <3>1, <3>2
  <2>7. CASE d # n
    <3>1. d \in SeenBy(m) \cap onStack /\ indices'[d] = indices[d]
      BY <1>1, <1>3, <1>5, <2>1, <2>2, <2>7
    <3> QED
      BY <2>2, <2>4, <2>5, <3>1 DEF SearchInv, LowLinkIsLowest
  <2> QED
    BY <2>6, <2>7
<1> QED
  BY <1>7, <1>8, <1>9, <1>10, <1>11, <1>12, <1>13 DEF SearchInv


LEMMA ConnectRootKeepsInv ==
  ASSUME SearchInv, ConnectRoot
  PROVE  SearchInv'
<1> DEFINE n == First({m \in Identifiers : ~IsVisited(m)})
<1>1. n \in Identifiers /\ ~IsVisited(n)
  BY FirstIsMember DEF ConnectRoot
<1>2. Begins(n)
  BY <1>1 DEF ConnectRoot, Begins
<1>3. RestOfBegun(n)
  BY <1>1 DEF ConnectRoot, RestOfBegun, SearchInv, SearchTyped
<1> HIDE DEF n
<1> QED
  BY <1>2, <1>3, BegunKeepsInv DEF ConnectRoot

LEMMA ConnectDependencyKeepsInv ==
  ASSUME SearchInv, ConnectDependency
  PROVE  SearchInv'
<1> DEFINE n == First(rest[Current])
<1>1. calls # <<>> /\ phase = "cycles" /\ rest[Current] # {} /\ ~IsVisited(n)
  BY DEF ConnectDependency
<1>2. /\ Current \in Open /\ Current \in Identifiers /\ IsVisited(Current)
      /\ rest[Current] \subseteq adjacency[Current] /\ rest[Current] \subseteq Identifiers
  BY <1>1, CurrentIsGreatest DEF SearchInv, NumberedInOrder, SearchTyped
<1>3. n \in rest[Current]
  BY <1>1, <1>2, FirstIsMember
<1>4. n \in Identifiers /\ n # Current /\ n \in adjacency[Current]
  BY <1>1, <1>2, <1>3
<1>5. Begins(n)
  BY <1>4 DEF ConnectDependency, Begins
<1>6. RestOfBegun(n)
  <2>1. rest' = [rest EXCEPT ![Current] = @ \ {n}, ![n] = adjacency[n]]
    BY DEF ConnectDependency
  <2>2. rest \in [Identifiers -> SUBSET Identifiers] /\ adjacency \in [Identifiers -> SUBSET Identifiers]
    BY DEF SearchInv, SearchTyped
  <2> HIDE DEF n
  <2> QED
    BY <1>2, <1>4, <2>1, <2>2 DEF RestOfBegun
<1> HIDE DEF n
<1> QED
  BY <1>1, <1>5, <1>6, BegunKeepsInv

-----------------------------------------------------------------------------
(* A dependency that is visited already lowers the low link of the call    *)
(* that looks at it, if it is on the stack.                                *)
LEMMA SkipDependencyKeepsInv ==
  ASSUME SearchInv, SkipDependency
  PROVE  SearchInv'
<1> DEFINE n == First(rest[Current])
<1>1. calls # <<>> /\ phase = "cycles" /\ rest[Current] # {} /\ IsVisited(n)
  BY DEF SkipDependency
<1>2. /\ Current \in Open /\ Current \in Identifiers /\ Current \in onStack
      /\ \A c \in Open : indices[c] <= indices[Current]
      /\ \A c \in Open : indices[c] = indices[Current] => c = Current
  BY <1>1, CurrentIsGreatest
<1>3. /\ rest[Current] \subseteq adjacency[Current] /\ rest[Current] \subseteq Identifiers
      /\ onStack \subseteq Identifiers /\ Open \subseteq onStack
      /\ indices \in [Identifiers -> Nat] /\ lowLinks \in [Identifiers -> Nat]
      /\ adjacency \in [Identifiers -> SUBSET Identifiers]
      /\ rest \in [Identifiers -> SUBSET Identifiers]
  BY <1>2 DEF SearchInv, SearchTyped, NumberedInOrder
<1>4. n \in rest[Current]
  BY <1>1, <1>3, FirstIsMember
<1>5. n \in Identifiers /\ n \in adjacency[Current] /\ Reaches(Current, n)
  BY <1>2, <1>3, <1>4, Dependencies DEF IsAdjacency
<1>6. /\ lowLinks' = [lowLinks EXCEPT ![Current] = LowLinkOver(Current, n)]
      /\ rest' = [rest EXCEPT ![Current] = @ \ {n}]
      /\ UNCHANGED <<adjacency, phase, index, indices, stack, onStack, cycles, calls>>
  BY DEF SkipDependency
<1> HIDE DEF n
<1>7. /\ lowLinks'[Current] = IF n \in onStack THEN Lower(lowLinks[Current], indices[n])
                              ELSE lowLinks[Current]
      /\ \A c \in Identifiers : c # Current => lowLinks'[c] = lowLinks[c]
  BY <1>2, <1>3, <1>6 DEF LowLinkOver
<1>8. /\ rest'[Current] = rest[Current] \ {n}
      /\ \A c \in Identifiers : c # Current => rest'[c] = rest[c]
  BY <1>2, <1>3, <1>6
<1>9. /\ Open' = Open /\ Complete' = Complete /\ Current' = Current
      /\ \A x, y : Reaches(x, y)' <=> Reaches(x, y)
      /\ \A x, y : FoundBy(x, y)' <=> FoundBy(x, y)
      /\ \A x : IsVisited(x)' <=> IsVisited(x)
  BY <1>6 DEF Open, Elements, Complete, IsVisited, Current, Reaches, FoundBy
<1>10. \A c \in Identifiers : SeenBy(c)' \subseteq SeenBy(c) \cup (IF c = Current THEN {n} ELSE {})
  BY <1>6, <1>8 DEF SeenBy
<1>11. SearchTyped'
  <2>1. lowLinks'[Current] \in Nat
    BY <1>2, <1>3, <1>5, <1>7 DEF Lower
  <2>2. lowLinks' \in [Identifiers -> Nat]
    BY <1>2, <1>3, <1>6, <1>7, <2>1
  <2>3. rest' \in [Identifiers -> SUBSET Identifiers]
    BY <1>2, <1>3, <1>6
  <2>4. \A m \in Identifiers : rest'[m] \subseteq adjacency'[m]
    BY <1>6, <1>8 DEF SearchInv, SearchTyped
  <2> QED
    BY <1>6, <2>2, <2>3, <2>4 DEF SearchInv, SearchTyped
<1>12. NumberedInOrder' /\ CompleteIsClosed' /\ ReportedAreComplete' /\ AfterSearch'
  <2>1. NumberedInOrder'
    BY <1>6, <1>9 DEF SearchInv, NumberedInOrder, Increasing, Elements
  <2>2. CompleteIsClosed'
    BY <1>6, <1>9 DEF SearchInv, CompleteIsClosed
  <2>3. ReportedAreComplete' /\ AfterSearch'
    BY <1>1, <1>6, <1>9 DEF SearchInv, ReportedAreComplete, CyclesOf, AfterSearch, IsCycle
  <2> QED
    BY <2>1, <2>2, <2>3
<1>13. SeenAreVisited'
  <2>1. SeenAreVisited
    BY DEF SearchInv
  <2>2. ASSUME NEW m \in Identifiers, IsVisited(m) PROVE \A d \in SeenBy(m)' : IsVisited(d)
    BY <1>1, <1>10, <2>1, <2>2 DEF SeenAreVisited
  <2>3. ASSUME NEW m \in Identifiers, IsVisited(m), m \notin Open PROVE rest'[m] = {}
    BY <1>2, <1>8, <2>1, <2>3 DEF SeenAreVisited
  <2> QED
    BY <1>9, <2>2, <2>3 DEF SeenAreVisited
<1>14. StackIsConnected'
  BY <1>6, <1>9 DEF SearchInv, StackIsConnected
<1>15. LowLinkIsReached'
  <2> SUFFICES ASSUME NEW c \in Open
               PROVE  /\ lowLinks'[c] <= indices[c]
                      /\ \E m \in onStack : indices[m] = lowLinks'[c] /\ Reaches(c, m)
    BY <1>6, <1>9 DEF LowLinkIsReached
  <2>1. /\ lowLinks[c] <= indices[c]
        /\ \E m \in onStack : indices[m] = lowLinks[c] /\ Reaches(c, m)
    BY DEF SearchInv, LowLinkIsReached
  <2>2. CASE c # Current \/ n \notin onStack
    BY <1>3, <1>7, <2>1, <2>2
  <2>3. CASE c = Current /\ n \in onStack
    <3>1. \/ lowLinks'[c] = lowLinks[c]
          \/ lowLinks'[c] = indices[n] /\ indices[n] < lowLinks[c]
      BY <1>2, <1>3, <1>5, <1>7, <2>3 DEF Lower
    <3>2. indices[n] \in Nat /\ lowLinks[c] \in Nat /\ indices[c] \in Nat
      BY <1>2, <1>3, <1>5, <2>3
    <3> QED
      BY <1>5, <2>1, <2>3, <3>1, <3>2
  <2> QED
    BY <2>2, <2>3
<1>16. LowLinkIsLowest'
  <2> SUFFICES ASSUME NEW c \in Open, NEW m \in onStack, FoundBy(c, m),
                      NEW d \in SeenBy(m)' \cap onStack
               PROVE  lowLinks'[c] <= indices[d]
    BY <1>6, <1>9 DEF LowLinkIsLowest
  <2>1. lowLinks'[c] <= lowLinks[c] /\ lowLinks'[c] \in Nat /\ lowLinks[c] \in Nat
    BY <1>2, <1>3, <1>5, <1>7 DEF Lower
  <2>2. indices[d] \in Nat
    BY <1>3
  <2>3. CASE d \in SeenBy(m)
    <3>1. lowLinks[c] <= indices[d]
      BY <2>3 DEF SearchInv, LowLinkIsLowest
    <3> QED
      BY <2>1, <2>2, <3>1
  <2>4. CASE d \notin SeenBy(m)
    <3>1. m = Current /\ d = n
      BY <1>3, <1>10, <2>4
    <3>2. c = Current
      <4>1. indices[Current] <= indices[c]
        BY <1>2, <1>3, <3>1 DEF FoundBy
      <4>2. indices[c] = indices[Current]
        BY <1>2, <1>3, <4>1
      <4> QED
        BY <1>2, <4>2
    <3> QED
      BY <1>2, <1>3, <1>7, <2>1, <2>2, <3>1, <3>2 DEF Lower
  <2> QED
    BY <2>3, <2>4
<1> QED
  BY <1>11, <1>12, <1>13, <1>14, <1>15, <1>16 DEF SearchInv

-----------------------------------------------------------------------------
(* connect returns.  What both of its cases say of the state before. *)
Returns ==
  /\ calls # <<>> /\ phase = "cycles" /\ rest[Current] = {}
  /\ calls' = WithoutLast(calls)
  /\ UNCHANGED <<adjacency, phase, index, indices, rest>>

LEMMA ReturnedCall ==
  ASSUME SearchInv, Returns
  PROVE  /\ onStack \subseteq Identifiers /\ Open \subseteq onStack
         /\ indices \in [Identifiers -> Nat] /\ lowLinks \in [Identifiers -> Nat]
         /\ Current \in Open /\ Current \in Identifiers /\ Current \in onStack
         /\ \A c \in Open : indices[c] < indices[Current] \/ c = Current
         /\ calls' \in Seq(Identifiers) /\ Increasing(calls, indices)'
         /\ Open' = Open \ {Current}
         /\ \A x, y : Reaches(x, y)' <=> Reaches(x, y)
         /\ \A x : IsVisited(x)' <=> IsVisited(x)
         /\ \A x : SeenBy(x)' = SeenBy(x)
         /\ SeenAreVisited'
<1>1. /\ onStack \subseteq Identifiers /\ Open \subseteq onStack
      /\ indices \in [Identifiers -> Nat] /\ lowLinks \in [Identifiers -> Nat]
      /\ SeenAreVisited
  BY DEF SearchInv, SearchTyped, NumberedInOrder
<1>2. /\ Current \in Open /\ Current \in Identifiers /\ Current \in onStack
      /\ \A c \in Open : indices[c] <= indices[Current]
      /\ \A c \in Open : indices[c] = indices[Current] => c = Current
      /\ WithoutLast(calls) \in Seq(Identifiers)
      /\ Elements(WithoutLast(calls)) = Open \ {Current}
      /\ Increasing(WithoutLast(calls), indices)
  BY CurrentIsGreatest DEF Returns
<1>3. \A c \in Open : indices[c] < indices[Current] \/ c = Current
  <2> SUFFICES ASSUME NEW c \in Open PROVE indices[c] < indices[Current] \/ c = Current
    OBVIOUS
  <2>1. indices[c] \in Nat /\ indices[Current] \in Nat /\ indices[c] <= indices[Current]
    BY <1>1, <1>2
  <2>2. indices[c] = indices[Current] => c = Current
    BY <1>2
  <2> QED
    BY <2>1, <2>2
<1>4. calls' \in Seq(Identifiers) /\ Increasing(calls, indices)'
  BY <1>2 DEF Returns, Increasing
<1>5. /\ Open' = Open \ {Current}
      /\ \A x, y : Reaches(x, y)' <=> Reaches(x, y)
      /\ \A x : IsVisited(x)' <=> IsVisited(x)
      /\ \A x : SeenBy(x)' = SeenBy(x)
  BY <1>2 DEF Returns, Open, Elements, Reaches, IsVisited, SeenBy
<1>6. SeenAreVisited'
  BY <1>1, <1>5 DEF Returns, SeenAreVisited
<1> QED
  BY <1>1, <1>2, <1>3, <1>4, <1>5, <1>6

(* A call that has reached below itself leaves its identifiers to its      *)
(* caller, and its low link with them.                                     *)
LEMMA ReturnToCallerKeepsInv ==
  ASSUME SearchInv, Returns, lowLinks[Current] # indices[Current],
         UNCHANGED <<stack, onStack, cycles>>,
         lowLinks' = IF calls' = <<>> THEN lowLinks
                     ELSE [lowLinks EXCEPT ![Last(calls')] = LowLinkAfterCall(Last(calls'))]
  PROVE  SearchInv'
<1>1. /\ onStack \subseteq Identifiers /\ Open \subseteq onStack
      /\ indices \in [Identifiers -> Nat] /\ lowLinks \in [Identifiers -> Nat]
      /\ Current \in Open /\ Current \in Identifiers /\ Current \in onStack
      /\ \A c \in Open : indices[c] < indices[Current] \/ c = Current
      /\ calls' \in Seq(Identifiers) /\ Increasing(calls, indices)'
      /\ Open' = Open \ {Current}
      /\ \A x, y : Reaches(x, y)' <=> Reaches(x, y)
      /\ \A x : IsVisited(x)' <=> IsVisited(x)
      /\ \A x : SeenBy(x)' = SeenBy(x)
      /\ SeenAreVisited'
  BY ReturnedCall
<1>2. /\ adjacency \in [Identifiers -> SUBSET Identifiers]
      /\ adjacency' = adjacency /\ phase' = "cycles" /\ indices' = indices /\ index' = index
      /\ rest' = rest /\ stack' = stack /\ onStack' = onStack /\ cycles' = cycles
      /\ calls' = WithoutLast(calls)
  BY DEF Returns, SearchInv, SearchTyped
<1>3. PICK w \in onStack : indices[w] = lowLinks[Current] /\ Reaches(Current, w)
  BY <1>1 DEF SearchInv, LowLinkIsReached
<1>4. indices[w] < indices[Current]
  <2>1. lowLinks[Current] <= indices[Current]
    BY <1>1 DEF SearchInv, LowLinkIsReached
  <2>2. lowLinks[Current] \in Nat /\ indices[Current] \in Nat
    BY <1>1
  <2> QED
    BY <1>3, <2>1, <2>2
<1>5. PICK below \in Open : indices[below] <= indices[w] /\ Reaches(w, below)
  BY DEF SearchInv, StackIsConnected
<1>6. /\ below \in Open' /\ indices[below] < indices[Current]
      /\ Reaches(Current, below)
  <2>1. indices[below] < indices[Current]
    <3>1. indices[below] \in Nat /\ indices[w] \in Nat /\ indices[Current] \in Nat
      BY <1>1
    <3> QED
      BY <1>4, <1>5, <3>1
  <2>2. below # Current
    BY <1>1, <2>1
  <2>3. Reaches(Current, below)
    BY <1>1, <1>2, <1>3, <1>5, ReachesFurther DEF IsAdjacency
  <2> QED
    BY <1>1, <2>1, <2>2, <2>3
<1>7. calls' # <<>>
  BY <1>6 DEF Open, Elements
<1> DEFINE caller == Last(calls')
<1>8. /\ caller \in Open /\ caller \in Open' /\ caller \in Identifiers
      /\ indices[caller] < indices[Current]
      /\ \A c \in Open' : indices[c] <= indices[caller]
  BY <1>1, <1>2, <1>7, CurrentIsGreatest DEF Returns
<1>9. /\ lowLinks' = [lowLinks EXCEPT ![caller] = Lower(lowLinks[caller], lowLinks[Current])]
  BY <1>7 DEF LowLinkAfterCall
<1> HIDE DEF caller
<1>10. /\ lowLinks' \in [Identifiers -> Nat]
       /\ \A c \in Identifiers : c # caller => lowLinks'[c] = lowLinks[c]
       /\ lowLinks'[caller] = lowLinks[caller] \/ lowLinks'[caller] = lowLinks[Current]
       /\ lowLinks'[caller] <= lowLinks[caller] /\ lowLinks'[caller] <= lowLinks[Current]
  <2>1. lowLinks[caller] \in Nat /\ lowLinks[Current] \in Nat
    BY <1>1, <1>8
  <2>2. /\ Lower(lowLinks[caller], lowLinks[Current]) \in Nat
        /\ \/ Lower(lowLinks[caller], lowLinks[Current]) = lowLinks[caller]
           \/ Lower(lowLinks[caller], lowLinks[Current]) = lowLinks[Current]
        /\ Lower(lowLinks[caller], lowLinks[Current]) <= lowLinks[caller]
        /\ Lower(lowLinks[caller], lowLinks[Current]) <= lowLinks[Current]
    BY <2>1 DEF Lower
  <2>3. lowLinks'[caller] = Lower(lowLinks[caller], lowLinks[Current])
    BY <1>1, <1>8, <1>9
  <2> QED
    BY <1>1, <1>8, <1>9, <2>2, <2>3
<1>11. Complete' = Complete
  BY <1>1, <1>2 DEF Complete
<1>12. SearchTyped'
  BY <1>1, <1>2, <1>10 DEF SearchInv, SearchTyped
<1>13. NumberedInOrder'
  BY <1>1, <1>2 DEF SearchInv, NumberedInOrder, Increasing, Elements
<1>14. CompleteIsClosed' /\ ReportedAreComplete' /\ AfterSearch'
  BY <1>2, <1>11 DEF SearchInv, CompleteIsClosed, ReportedAreComplete, CyclesOf, AfterSearch, IsCycle
<1>15. StackIsConnected'
  <2> SUFFICES ASSUME NEW m \in onStack
               PROVE  \E c \in Open' : indices[c] <= indices[m] /\ Reaches(m, c)
    BY <1>1, <1>2 DEF SearchInv, StackIsConnected
  <2>1. PICK o \in Open : indices[o] <= indices[m] /\ Reaches(m, o)
    BY DEF SearchInv, StackIsConnected
  <2>2. CASE o # Current
    BY <1>1, <2>1, <2>2
  <2>3. CASE o = Current
    <3>1. Reaches(m, below)
      BY <1>1, <1>2, <1>6, <2>1, <2>3, ReachesFurther DEF IsAdjacency
    <3>2. indices[below] <= indices[m]
      <4>1. indices[below] \in Nat /\ indices[Current] \in Nat /\ indices[m] \in Nat
        BY <1>1
      <4> QED
        BY <1>6, <2>1, <2>3, <4>1
    <3> QED
      BY <1>6, <3>1, <3>2
  <2> QED
    BY <2>2, <2>3
<1>16. LowLinkIsReached'
  <2> SUFFICES ASSUME NEW c \in Open'
               PROVE  /\ lowLinks'[c] <= indices[c]
                      /\ \E m \in onStack : indices[m] = lowLinks'[c] /\ Reaches(c, m)
    BY <1>1, <1>2 DEF LowLinkIsReached
  <2>1. /\ lowLinks[c] <= indices[c] /\ c \in Identifiers
        /\ \E m \in onStack : indices[m] = lowLinks[c] /\ Reaches(c, m)
    BY <1>1 DEF SearchInv, LowLinkIsReached
  <2>2. CASE lowLinks'[c] = lowLinks[c]
    BY <2>1, <2>2
  <2>3. CASE lowLinks'[c] # lowLinks[c]
    <3>1. c = caller /\ lowLinks'[c] = lowLinks[Current] /\ lowLinks'[c] <= lowLinks[c]
      BY <1>10, <2>1, <2>3
    <3>2. lowLinks'[c] <= indices[c]
      <4>1. lowLinks'[c] \in Nat /\ lowLinks[c] \in Nat /\ indices[c] \in Nat
        BY <1>1, <1>10, <2>1
      <4> QED
        BY <2>1, <3>1, <4>1
    <3>3. Reaches(caller, Current)
      <4>1. indices[caller] <= indices[Current]
        BY <1>1, <1>8
      <4> QED
        BY <1>1, <1>8, <4>1 DEF SearchInv, StackIsConnected
    <3>4. Reaches(c, w)
      BY <1>1, <1>2, <1>3, <1>8, <3>1, <3>3, ReachesFurther DEF IsAdjacency
    <3> QED
      BY <1>3, <3>1, <3>2, <3>4
  <2> QED
    BY <2>2, <2>3
<1>17. LowLinkIsLowest'
  <2> SUFFICES ASSUME NEW c \in Open', NEW m \in onStack, FoundBy(c, m)',
                      NEW d \in SeenBy(m) \cap onStack
               PROVE  lowLinks'[c] <= indices[d]
    BY <1>1, <1>2 DEF LowLinkIsLowest
  <2>1. /\ c \in Open /\ c \in Identifiers /\ indices[c] <= indices[m]
        /\ \A o \in Open' : indices[o] <= indices[m] => indices[o] <= indices[c]
    BY <1>1, <1>2 DEF FoundBy
  <2>2. /\ indices[c] \in Nat /\ indices[m] \in Nat /\ indices[d] \in Nat
        /\ indices[Current] \in Nat /\ indices[caller] \in Nat
        /\ lowLinks'[c] \in Nat /\ lowLinks[c] \in Nat /\ lowLinks[Current] \in Nat
    BY <1>1, <1>8, <1>10, <2>1
  <2>3. CASE indices[Current] <= indices[m]
    <3>1. FoundBy(Current, m)
      <4>1. \A o \in Open : indices[o] <= indices[Current]
        BY <1>1
      <4> QED
        BY <2>3, <4>1 DEF FoundBy
    <3>2. lowLinks[Current] <= indices[d]
      BY <1>1, <3>1 DEF SearchInv, LowLinkIsLowest
    <3>3. c = caller
      <4>1. indices[caller] <= indices[c] /\ indices[c] <= indices[caller]
        BY <1>8, <2>1, <2>2, <2>3
      <4>2. indices[c] = indices[caller] /\ IsVisited(c)
        BY <1>1, <2>1, <2>2, <4>1 DEF SearchInv, NumberedInOrder
      <4> QED
        BY <1>8, <2>1, <4>2 DEF SearchInv, NumberedInOrder
    <3> QED
      BY <1>10, <2>2, <3>2, <3>3
  <2>4. CASE ~(indices[Current] <= indices[m])
    <3>1. FoundBy(c, m)
      BY <1>1, <2>1, <2>4 DEF FoundBy
    <3>2. lowLinks[c] <= indices[d]
      BY <2>1, <3>1 DEF SearchInv, LowLinkIsLowest
    <3>3. lowLinks'[c] <= lowLinks[c]
      BY <1>10, <2>1, <2>2
    <3> QED
      BY <2>2, <3>2, <3>3
  <2> QED
    BY <2>3, <2>4
<1> QED
  BY <1>1, <1>12, <1>13, <1>14, <1>15, <1>16, <1>17 DEF SearchInv

(* Above a root whose low link is its own index lies its whole component   *)
(* and nothing else: what lies there depends on nothing further down, and  *)
(* reaches the root.                                                       *)
LEMMA AboveIsComponent ==
  ASSUME SearchInv, Returns, lowLinks[Current] = indices[Current]
  PROVE  /\ Above(Current) = {m \in onStack : indices[Current] <= indices[m]}
         /\ Above(Current) = CycleOf(Current, adjacency)
         /\ SubSeq(stack, 1, PositionOf(Current) - 1) \in Seq(Identifiers)
         /\ Increasing(SubSeq(stack, 1, PositionOf(Current) - 1), indices)
         /\ Elements(SubSeq(stack, 1, PositionOf(Current) - 1)) = onStack \ Above(Current)
         /\ \A m \in Above(Current) : adjacency[m] \subseteq Above(Current) \cup Complete
<1>1. /\ onStack \subseteq Identifiers /\ Open \subseteq onStack
      /\ indices \in [Identifiers -> Nat] /\ lowLinks \in [Identifiers -> Nat]
      /\ Current \in Open /\ Current \in Identifiers /\ Current \in onStack
      /\ \A c \in Open : indices[c] < indices[Current] \/ c = Current
  BY ReturnedCall
<1>2. /\ adjacency \in [Identifiers -> SUBSET Identifiers]
      /\ stack \in Seq(Identifiers) /\ onStack = Elements(stack) /\ Increasing(stack, indices)
      /\ \A n \in onStack : IsVisited(n)
  BY DEF SearchInv, SearchTyped, NumberedInOrder
<1> DEFINE above == {m \in onStack : indices[Current] <= indices[m]}
<1>3. PICK k \in 1 .. Len(stack) : k = PositionOf(Current) /\ stack[k] = Current
  <2>1. \E i \in 1 .. Len(stack) : stack[i] = Current
    BY <1>1, <1>2 DEF Elements
  <2> QED
    BY <2>1 DEF PositionOf
<1>cut. PICK cut : cut = SubSeq(stack, 1, k - 1)
  OBVIOUS
<1>4. /\ cut \in Seq(Identifiers)
      /\ Elements(cut) = {x \in onStack : indices[x] < indices[Current]}
      /\ Increasing(cut, indices)
      /\ {stack[i] : i \in k .. Len(stack)} = above
  <2>1. /\ cut \in Seq(Identifiers)
        /\ Elements(cut) = Lesser(stack, indices, stack[k])
        /\ Increasing(cut, indices)
    <3>1. /\ SubSeq(stack, 1, k - 1) \in Seq(Identifiers)
          /\ Elements(SubSeq(stack, 1, k - 1)) = Lesser(stack, indices, stack[k])
          /\ Increasing(SubSeq(stack, 1, k - 1), indices)
      BY <1>1, <1>2, IncreasingCut
    <3> QED
      BY <3>1, <1>cut
  <2>2. \A x : (\E i \in k .. Len(stack) : stack[i] = x)
                 <=> x \in Elements(stack) /\ indices[stack[k]] <= indices[x]
    BY <1>1, <1>2, IncreasingCut
  <2> QED
    BY <1>2, <1>3, <2>1, <2>2 DEF Lesser
<1>5. Above(Current) = above
  BY <1>3, <1>4 DEF Above
<1>6. Elements(cut) = onStack \ above
  <2>1. \A x \in onStack : indices[x] \in Nat /\ indices[Current] \in Nat
    BY <1>1
  <2>2. \A x \in onStack : indices[x] < indices[Current] <=> ~(indices[Current] <= indices[x])
    BY <2>1
  <2> QED
    BY <1>4, <2>2
<1>7. ASSUME NEW m \in above PROVE adjacency[m] \subseteq above \cup Complete
  <2>1. FoundBy(Current, m)
    <3>1. \A o \in Open : indices[o] <= indices[Current]
      BY <1>1
    <3> QED
      BY <3>1 DEF FoundBy
  <2>2. rest[m] = {}
    <3>1. CASE m = Current
      BY <3>1 DEF Returns
    <3>2. CASE m # Current
      <4>1. m \notin Open
        BY <1>1, <3>2
      <4>2. m \in Identifiers /\ IsVisited(m)
        BY <1>1, <1>2
      <4> QED
        BY <4>1, <4>2 DEF SearchInv, SeenAreVisited
    <3> QED
      BY <3>1, <3>2
  <2>3. SeenBy(m) = adjacency[m]
    BY <2>2 DEF SeenBy
  <2> SUFFICES ASSUME NEW d \in adjacency[m] PROVE d \in above \cup Complete
    OBVIOUS
  <2>4. d \in Identifiers /\ IsVisited(d)
    BY <1>1, <1>2, <2>3 DEF SearchInv, SeenAreVisited
  <2>5. CASE d \in onStack
    BY <1>1, <2>1, <2>3, <2>5 DEF SearchInv, LowLinkIsLowest
  <2>6. CASE d \notin onStack
    BY <2>4, <2>6 DEF Complete
  <2> QED
    BY <2>5, <2>6
<1>8. ASSUME NEW m \in above PROVE m \in CycleOf(Current, adjacency)
  <2>1. Reaches(Current, m)
    BY <1>1 DEF SearchInv, StackIsConnected
  <2>2. PICK o \in Open : Reaches(m, o)
    BY DEF SearchInv, StackIsConnected
  <2>3. Reaches(o, Current)
    <3>1. indices[o] <= indices[Current]
      BY <1>1
    <3> QED
      BY <1>1, <3>1 DEF SearchInv, StackIsConnected
  <2>4. m \in Identifiers /\ o \in Identifiers
    BY <1>1
  <2>5. Reaches(m, Current)
    BY <1>1, <1>2, <2>2, <2>3, <2>4, ReachesFurther DEF IsAdjacency
  <2> QED
    BY <1>1, <1>2, <2>1, <2>4, <2>5, MutualReach
<1>9. ASSUME NEW m \in CycleOf(Current, adjacency) PROVE m \in above
  <2>1. m \in Identifiers
    BY <1>1, <1>2, <1>9 DEF CycleOf, Reachable
  <2>2. Reaches(Current, m) /\ Reaches(m, Current)
    BY <1>1, <1>2, <2>1, MutualReach
  <2>3. Current \in above
    BY <1>1
  <2>4. m \in above \cup Complete
    <3> DEFINE S == above \cup Complete
    <3>1. S \in SUBSET Identifiers
      BY <1>1 DEF Complete
    <3>2. Closed(S, Current, adjacency)
      BY <1>7, <2>3 DEF SearchInv, CompleteIsClosed, Closed
    <3>3. Reachable(Current, adjacency) \subseteq S
      BY <1>1, <1>2, <3>1, <3>2, ReachableIsClosed DEF IsAdjacency
    <3> QED
      BY <2>2, <2>3, <3>3 DEF Reaches
  <2>5. m \notin Complete
    <3> SUFFICES ASSUME m \in Complete PROVE FALSE
      OBVIOUS
    <3>1. Complete \in SUBSET Identifiers /\ Current \notin Complete
      BY <1>1 DEF Complete
    <3>2. Closed(Complete, m, adjacency)
      BY DEF SearchInv, CompleteIsClosed, Closed
    <3>3. Reachable(m, adjacency) \subseteq Complete
      BY <1>2, <2>1, <3>1, <3>2, ReachableIsClosed DEF IsAdjacency
    <3> QED
      BY <2>2, <3>1, <3>3 DEF Reaches
  <2> QED
    BY <2>4, <2>5
<1>10. above = CycleOf(Current, adjacency)
  BY <1>8, <1>9
<1> HIDE DEF above
<1>11. /\ cut \in Seq(Identifiers) /\ Increasing(cut, indices)
       /\ Elements(cut) = onStack \ Above(Current)
  BY <1>4, <1>5, <1>6
<1> QED
  BY <1>3, <1>cut, <1>5, <1>7, <1>10, <1>11 DEF above

(* So a root takes exactly its component off the stack. *)
LEMMA ReturnFromRootKeepsInv ==
  ASSUME SearchInv, Returns, lowLinks[Current] = indices[Current],
         stack' = SubSeq(stack, 1, PositionOf(Current) - 1),
         onStack' = onStack \ Above(Current),
         cycles' = cycles \cup {c \in {Above(Current)} : IsCycle(c)},
         lowLinks' = IF calls' = <<>> THEN lowLinks
                     ELSE [lowLinks EXCEPT ![Last(calls')] = LowLinkAfterCall(Last(calls'))]
  PROVE  SearchInv'
<1> DEFINE above == Above(Current)
<1>1. /\ onStack \subseteq Identifiers /\ Open \subseteq onStack
      /\ indices \in [Identifiers -> Nat] /\ lowLinks \in [Identifiers -> Nat]
      /\ Current \in Open /\ Current \in Identifiers /\ Current \in onStack
      /\ \A c \in Open : indices[c] < indices[Current] \/ c = Current
      /\ calls' \in Seq(Identifiers) /\ Increasing(calls, indices)'
      /\ Open' = Open \ {Current}
      /\ \A x, y : Reaches(x, y)' <=> Reaches(x, y)
      /\ \A x : IsVisited(x)' <=> IsVisited(x)
      /\ \A x : SeenBy(x)' = SeenBy(x)
      /\ SeenAreVisited'
  BY ReturnedCall
<1>2. /\ adjacency \in [Identifiers -> SUBSET Identifiers]
      /\ adjacency' = adjacency /\ phase' = "cycles" /\ indices' = indices /\ index' = index
      /\ rest' = rest /\ phase = "cycles"
      /\ calls' = WithoutLast(calls)
      /\ \A n \in onStack : IsVisited(n)
  BY DEF Returns, SearchInv, SearchTyped, NumberedInOrder
<1>3. /\ above = {m \in onStack : indices[Current] <= indices[m]}
      /\ above = CycleOf(Current, adjacency)
      /\ stack' \in Seq(Identifiers)
      /\ Increasing(stack', indices)
      /\ Elements(stack') = onStack'
      /\ \A m \in above : adjacency[m] \subseteq above \cup Complete
      /\ onStack' = onStack \ above
      /\ cycles' = cycles \cup {c \in {above} : IsCycle(c)}
  BY AboveIsComponent
<1> HIDE DEF above
<1>4. \A m \in onStack : m \in onStack' <=> indices[m] < indices[Current]
  <2>1. \A m \in onStack : indices[m] \in Nat /\ indices[Current] \in Nat
    BY <1>1
  <2> QED
    BY <1>3, <2>1
<1>5. Open' \subseteq onStack'
  BY <1>1, <1>4
<1>6. lowLinks' = lowLinks
  <2>1. CASE calls' = <<>>
    BY <2>1
  <2>2. CASE calls' # <<>>
    <3> DEFINE caller == Last(calls')
    <3>1. caller \in Open /\ indices[caller] < indices[Current]
      BY <1>2, <2>2, CurrentIsGreatest DEF Returns
    <3>2. caller \in Identifiers
      BY <1>1, <3>1
    <3>3. lowLinks[caller] <= indices[caller]
      BY <3>1 DEF SearchInv, LowLinkIsReached
    <3>4. /\ lowLinks[caller] \in Nat /\ indices[caller] \in Nat /\ indices[Current] \in Nat
      BY <1>1, <3>2
    <3>5. lowLinks[caller] < lowLinks[Current]
      BY <3>1, <3>3, <3>4
    <3>6. lowLinks' = [lowLinks EXCEPT ![caller] = Lower(lowLinks[caller], lowLinks[Current])]
      BY <2>2 DEF LowLinkAfterCall
    <3>7. Lower(lowLinks[caller], lowLinks[Current]) = lowLinks[caller]
      BY <3>5 DEF Lower
    <3> HIDE DEF caller
    <3> QED
      BY <1>1, <3>6, <3>7
  <2> QED
    BY <2>1, <2>2
<1>7. Complete' = Complete \cup above
  BY <1>1, <1>2, <1>3 DEF Complete
<1>8. SearchTyped'
  BY <1>1, <1>2, <1>3, <1>6 DEF SearchInv, SearchTyped
<1>9. NumberedInOrder'
  BY <1>1, <1>2, <1>3, <1>5 DEF SearchInv, NumberedInOrder, Increasing, Elements
<1>10. CompleteIsClosed'
  BY <1>2, <1>3, <1>7 DEF SearchInv, CompleteIsClosed
<1>11. StackIsConnected'
  <2> SUFFICES ASSUME NEW m \in onStack'
               PROVE  \E c \in Open' : indices[c] <= indices[m] /\ Reaches(m, c)
    BY <1>1, <1>2, <1>3 DEF SearchInv, StackIsConnected
  <2>1. m \in onStack /\ indices[m] < indices[Current]
    BY <1>3, <1>4
  <2>2. PICK o \in Open : indices[o] <= indices[m] /\ Reaches(m, o)
    BY <2>1 DEF SearchInv, StackIsConnected
  <2>3. o # Current
    <3>1. indices[m] \in Nat /\ indices[Current] \in Nat
      BY <1>1, <2>1
    <3> QED
      BY <2>1, <2>2, <3>1
  <2> QED
    BY <1>1, <2>2, <2>3
<1>12. LowLinkIsReached'
  <2> SUFFICES ASSUME NEW c \in Open'
               PROVE  /\ lowLinks[c] <= indices[c]
                      /\ \E m \in onStack' : indices[m] = lowLinks[c] /\ Reaches(c, m)
    BY <1>1, <1>2, <1>6 DEF LowLinkIsReached
  <2>1. c \in Open /\ indices[c] < indices[Current] /\ lowLinks[c] <= indices[c]
    BY <1>1 DEF SearchInv, LowLinkIsReached
  <2>2. PICK m \in onStack : indices[m] = lowLinks[c] /\ Reaches(c, m)
    BY <2>1 DEF SearchInv, LowLinkIsReached
  <2>3. indices[m] < indices[Current]
    <3>1. lowLinks[c] \in Nat /\ indices[c] \in Nat /\ indices[Current] \in Nat
      BY <1>1, <2>1
    <3> QED
      BY <2>1, <2>2, <3>1
  <2> QED
    BY <1>4, <2>1, <2>2, <2>3
<1>13. LowLinkIsLowest'
  <2> SUFFICES ASSUME NEW c \in Open', NEW m \in onStack', FoundBy(c, m)',
                      NEW d \in SeenBy(m) \cap onStack'
               PROVE  lowLinks[c] <= indices[d]
    BY <1>1, <1>2, <1>6 DEF LowLinkIsLowest
  <2>1. /\ c \in Open /\ m \in onStack /\ d \in onStack /\ indices[m] < indices[Current]
        /\ indices[m] \in Nat /\ indices[Current] \in Nat
    BY <1>1, <1>3, <1>4
  <2>2. FoundBy(c, m)
    BY <1>1, <1>2, <2>1 DEF FoundBy
  <2> QED
    BY <2>1, <2>2 DEF SearchInv, LowLinkIsLowest
<1>14. ReportedAreComplete'
  <2>1. {CycleOf(n, adjacency) : n \in above} = {above}
    <3>1. \A n \in above : CycleOf(n, adjacency) = above
      BY <1>1, <1>2, <1>3, CyclesAreDisjoint DEF IsAdjacency
    <3>2. Current \in above
      BY <1>1, <1>3
    <3> QED
      BY <3>1, <3>2
  <2>2. CyclesOf(Complete \cup above) = CyclesOf(Complete) \cup {c \in {above} : IsCycle(c)}
    BY <2>1 DEF CyclesOf
  <2>3. CyclesOf(Complete)' = CyclesOf(Complete')
    BY <1>2 DEF CyclesOf, IsCycle
  <2> QED
    BY <1>2, <1>3, <1>7, <2>2, <2>3 DEF SearchInv, ReportedAreComplete, CyclesOf, IsCycle
<1>15. AfterSearch'
  BY <1>2 DEF AfterSearch
<1> QED
  BY <1>1, <1>8, <1>9, <1>10, <1>11, <1>12, <1>13, <1>14, <1>15 DEF SearchInv

LEMMA ReturnKeepsInv ==
  ASSUME SearchInv, ReturnFromConnect
  PROVE  SearchInv'
<1>1. Returns
  BY DEF ReturnFromConnect, Returns
<1>2. CASE lowLinks[Current] = indices[Current]
  BY <1>1, <1>2, ReturnFromRootKeepsInv DEF ReturnFromConnect
<1>3. CASE lowLinks[Current] # indices[Current]
  BY <1>1, <1>3, ReturnToCallerKeepsInv DEF ReturnFromConnect
<1> QED
  BY <1>2, <1>3

-----------------------------------------------------------------------------
LEMMA SearchInvInit == Init => SearchInv
<1> SUFFICES ASSUME Init PROVE SearchInv
  OBVIOUS
<1> USE DEF Init, Adjacencies, IsVisited, Unvisited
<1>1. Elements(<<>>) = {} /\ Elements(stack) = {} /\ Open = {} /\ Complete = {}
  BY DEF Elements, Open, Complete
<1>2. SearchTyped
  BY DEF SearchTyped
<1>3. NumberedInOrder
  BY <1>1 DEF NumberedInOrder, Increasing
<1>4. SeenAreVisited /\ CompleteIsClosed /\ StackIsConnected /\ LowLinkIsReached /\ LowLinkIsLowest
  BY <1>1 DEF SeenAreVisited, CompleteIsClosed, StackIsConnected, LowLinkIsReached, LowLinkIsLowest
<1>5. ReportedAreComplete /\ AfterSearch
  BY <1>1 DEF ReportedAreComplete, CyclesOf, AfterSearch
<1> QED
  BY <1>2, <1>3, <1>4, <1>5 DEF SearchInv

(* Neither the walk nor what starts it touches the search's variables. *)
LEMMA WalkKeepsInv ==
  ASSUME SearchInv, UNCHANGED <<adjacency, connectVars>>, AfterSearch'
  PROVE  SearchInv'
<1>1. UNCHANGED <<adjacency, index, indices, lowLinks, stack, onStack, cycles, calls, rest>>
  BY DEF connectVars
<1>2. /\ Open' = Open /\ Complete' = Complete
      /\ \A x, y : Reaches(x, y)' <=> Reaches(x, y)
      /\ \A x, y : FoundBy(x, y)' <=> FoundBy(x, y)
      /\ \A x : IsVisited(x)' <=> IsVisited(x)
      /\ \A x : SeenBy(x)' = SeenBy(x)
  BY <1>1 DEF Open, Elements, Complete, IsVisited, Reaches, FoundBy, SeenBy
<1>3. SearchTyped' /\ NumberedInOrder'
  BY <1>1, <1>2 DEF SearchInv, SearchTyped, NumberedInOrder, Increasing, Elements
<1>4. SeenAreVisited' /\ CompleteIsClosed'
  BY <1>1, <1>2 DEF SearchInv, SeenAreVisited, CompleteIsClosed
<1>5. StackIsConnected' /\ LowLinkIsReached'
  BY <1>1, <1>2 DEF SearchInv, StackIsConnected, LowLinkIsReached
<1>6. LowLinkIsLowest'
  BY <1>1, <1>2 DEF SearchInv, LowLinkIsLowest
<1>7. ReportedAreComplete'
  BY <1>1, <1>2 DEF SearchInv, ReportedAreComplete, CyclesOf, IsCycle
<1> QED
  BY <1>3, <1>4, <1>5, <1>6, <1>7 DEF SearchInv

LEMMA SearchInvNext == SearchInv /\ [Next]_vars => SearchInv'
<1> SUFFICES ASSUME SearchInv, [Next]_vars PROVE SearchInv'
  OBVIOUS
<1>1. CASE ConnectRoot
  BY <1>1, ConnectRootKeepsInv
<1>2. CASE ConnectDependency
  BY <1>2, ConnectDependencyKeepsInv
<1>3. CASE SkipDependency
  BY <1>3, SkipDependencyKeepsInv
<1>4. CASE ReturnFromConnect
  BY <1>4, ReturnKeepsInv
<1>5. CASE StartReachable
  <2>1. AfterSearch'
    BY <1>5 DEF StartReachable, connectVars, AfterSearch, IsVisited
  <2> QED
    BY <1>5, <2>1, WalkKeepsInv DEF StartReachable
<1>6. CASE TakePending
  <2>1. UNCHANGED <<adjacency, phase, connectVars>>
    BY <1>6 DEF TakePending
  <2>2. AfterSearch'
    BY <2>1 DEF SearchInv, connectVars, AfterSearch, IsVisited
  <2> QED
    BY <2>1, <2>2, WalkKeepsInv
<1>7. CASE ReturnReachable
  <2>1. phase = "reachable" /\ UNCHANGED <<adjacency, connectVars>>
    BY <1>7 DEF ReturnReachable
  <2>2. AfterSearch'
    BY <2>1 DEF SearchInv, connectVars, AfterSearch, IsVisited
  <2> QED
    BY <2>1, <2>2, WalkKeepsInv
<1>8. CASE UNCHANGED vars
  <2>1. UNCHANGED <<adjacency, phase, connectVars>>
    BY <1>8 DEF vars
  <2>2. AfterSearch'
    BY <2>1 DEF SearchInv, connectVars, AfterSearch, IsVisited
  <2> QED
    BY <2>1, <2>2, WalkKeepsInv
<1> QED
  BY <1>1, <1>2, <1>3, <1>4, <1>5, <1>6, <1>7, <1>8 DEF Next

(* With no call open nothing is left on the stack, so all that was visited *)
(* is complete.                                                            *)
LEMMA SearchInvExact == SearchInv => CyclesAreExact
<1> SUFFICES ASSUME SearchInv, phase # "cycles"
             PROVE  cycles = Cycles(adjacency) /\ stack = <<>>
  BY DEF CyclesAreExact
<1>1. calls = <<>> /\ \A n \in Identifiers : IsVisited(n)
  BY DEF SearchInv, AfterSearch
<1>2. onStack = {}
  BY <1>1, NothingOpen
<1>3. stack = <<>>
  <2>1. stack \in Seq(Identifiers) /\ Elements(stack) = {}
    BY <1>2 DEF SearchInv, SearchTyped, NumberedInOrder
  <2>2. Len(stack) = 0
    <3>1. Len(stack) \in Nat /\ (Len(stack) # 0 => 1 \in 1 .. Len(stack))
      BY <2>1
    <3> QED
      BY <2>1, <3>1 DEF Elements
  <2> QED
    BY <2>1, <2>2
<1>4. Complete = Identifiers
  BY <1>1, <1>2 DEF Complete
<1>5. DOMAIN adjacency = Identifiers
  BY DEF SearchInv, SearchTyped
<1>6. cycles = Cycles(adjacency)
  BY <1>4, <1>5 DEF SearchInv, ReportedAreComplete, CyclesOf, Cycles, IsCycle
<1> QED
  BY <1>3, <1>6

(* stronglyConnectedComponents reports exactly the components of more than *)
(* one member, for every graph: the low links of connect are enough to     *)
(* tell a whole component from a part of one.                              *)
THEOREM CyclesCorrect == Spec => []CyclesAreExact
<1>1. Spec => []SearchInv
  BY SearchInvInit, SearchInvNext, PTL DEF Spec
<1> QED
  BY <1>1, SearchInvExact, PTL

=============================================================================
