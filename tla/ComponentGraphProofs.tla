-------------------------- MODULE ComponentGraphProofs --------------------------
(***************************************************************************)
(* Proofs about the component graph and about what the console derives from*)
(* it, for any repositories, classifications and policies.                 *)
(*                                                                         *)
(* The server.  FindingsAreAnnotated needs to know that a relationship is a*)
(* pair of components, so that a finding about components is about none.   *)
(* TestsChangeNothing compares two runs of the collection: Agrees says how *)
(* their accumulators differ, is kept file by file, and makes every metric,*)
(* cycle and rule come out the same, because the nodes that only tests     *)
(* know have no edges of production code (Padded).                         *)
(*                                                                         *)
(* The console.  A page computes from one received graph, so each property *)
(* follows from what is always true of the collected files (IsCounted) and *)
(* of the findings about them (ReportedInv).  Sorting: the comparisons are *)
(* lexicographic products of weak orders, which are strict as soon as the  *)
(* identifier decides ties; a strict order gives each member a place of its*)
(* own, so a sorted sequence has each of them once (SortedIsTotal).        *)
(* Counting: two sets have one size if a bijection joins them, and the     *)
(* sizes of disjoint sets add up (SameSize, SizesAddUp).  Rounding: what   *)
(* is measured lies between the doubles 0 and 1, where the buckets leave   *)
(* one gap (OneBucket).  Recursion: what it computes exists because layers *)
(* fall and paths grow, and is known by what fails last (LayersAreResolved,*)
(* NoneFails).                                                             *)
(***************************************************************************)
EXTENDS ConsoleReports, OrdersProofs, SequenceTheorems

(* Relationships are between components, with the files that show them.    *)
Referencing == [production : SUBSET Nat, test : SUBSET Nat]

IsGathered(data) ==
  /\ Relationships(data) \subseteq Components \X Components
  /\ \A e \in Relationships(data) : data.relationships[e] \in Referencing

(* Every component is described as a file may describe it. *)
IsDescription(d, c) == d \in Descriptors /\ (Len(c) = 1 => c = <<d.name>>)

IsDescribed(data) == \A c \in Known(data) : IsDescription(data.describe[c], c)

(* What a file adds to the accumulators. *)
LEMMA CollectedFile ==
  ASSUME NEW data, NEW file, NEW number
  PROVE  LET new == CollectFile(data, file, number) IN
           /\ Known(new) = Known(data) \cup {file.component} \cup Targets(file)
           /\ \A c \in Known(new) : new.describe[c] = DescriptionWith(data, file, c)
           /\ Relationships(new) = Relationships(data) \cup ({file.component} \X Targets(file))
           /\ \A c \in Known(new) : new.types[c] = TypesWith(data, file, c)
           /\ \A e \in Relationships(new) :
                new.relationships[e] = FilesWith(data, file, number, e)
BY DEF CollectFile, Mentioned, Known, Relationships

LEMMA CollectGathers ==
  ASSUME NEW data, IsGathered(data), NEW file \in Files, NEW number \in Nat
  PROVE  IsGathered(CollectFile(data, file, number))
<1> DEFINE new == CollectFile(data, file, number)
<1>1. /\ Relationships(new) = Relationships(data) \cup ({file.component} \X Targets(file))
      /\ \A e \in Relationships(new) : new.relationships[e] = FilesWith(data, file, number, e)
  BY CollectedFile
<1>2. file.component \in Components /\ Targets(file) \subseteq Components
  BY DEF Files, Targets
<1> HIDE DEF new
<1>3. ASSUME NEW e \in Relationships(new)
      PROVE  FilesWith(data, file, number, e) \in Referencing
  <2> DEFINE current == IF e \in Relationships(data) THEN data.relationships[e] ELSE NoFiles
  <2>1. current \in Referencing
    BY DEF IsGathered, NoFiles, Referencing
  <2> HIDE DEF current
  <2>2. /\ [current EXCEPT !.test = @ \cup {number}] \in Referencing
        /\ [current EXCEPT !.production = @ \cup {number}] \in Referencing
    BY <2>1 DEF Referencing
  <2> QED
    BY <2>1, <2>2 DEF FilesWith, current
<1>4. IsGathered(new)
  BY <1>1, <1>2, <1>3 DEF IsGathered
<1> QED
  BY <1>4 DEF new

(* The rules of the findings about a relationship. *)
About(findings, e) == {f.rule : f \in {g \in findings : <<g.source, g.target>> = e}}

LEMMA AnnotatedByGraph ==
  ASSUME NEW data, IsGathered(data), NEW describe, NEW e \in Relationships(data)
  PROVE  Graph(data, describe).violations[e] = About(Graph(data, describe).findings, e)
<1> DEFINE findings == Findings(data, describe)
<1>1. /\ Graph(data, describe).violations = Violations(data, findings)
      /\ Graph(data, describe).findings = findings
  BY DEF Graph
<1>2. e \in Components \X Components
  BY DEF IsGathered
<1>3. ASSUME NEW g \in findings, <<g.source, g.target>> = e
      PROVE  ~IsTestOnly(data, e)
  <2>1. CASE \E edge \in {x \in Relationships(data) : IsJudged(data, x)} : \E rule :
               g = RelationshipFinding(rule, "warning", edge)
    <3>1. PICK edge \in Relationships(data) :
            IsJudged(data, edge) /\ \E rule : g = RelationshipFinding(rule, "warning", edge)
      BY <2>1
    <3>2. edge = <<edge[1], edge[2]>> /\ g.source = edge[1] /\ g.target = edge[2]
      BY <3>1 DEF RelationshipFinding, IsGathered
    <3> QED
      BY <1>3, <3>1, <3>2 DEF IsJudged
  <2>2. CASE \E rule, severity, components : g = ComponentsFinding(rule, severity, components)
    <3>1. g.source = NoComponent
      BY <2>2 DEF ComponentsFinding
    <3> QED
      BY <1>2, <1>3, <3>1, ComponentAssumption
  <2> QED
    BY <2>1, <2>2 DEF Findings
<1> HIDE DEF findings
<1>4. Violations(data, findings)[e] = About(findings, e)
  BY <1>3 DEF Violations, About
<1> QED
  BY <1>1, <1>4

(* A policy adds its finding about a relationship exactly when it adds its *)
(* rule to the annotation.                                                 *)
LEMMA AnnotatedByPolicy ==
  ASSUME IsGathered(collected), graph = Graph(collected, collected.describe),
         NEW policy, NEW e \in Relationships(collected)
  PROVE  WithPolicy(policy).violations[e] = About(WithPolicy(policy).findings, e)
<1> DEFINE refused == {x \in Relationships(collected) : ~IsNoop(policy) /\ Refuses(policy, x)}
           configured(x) == {rule \in {"configured-dependency"} : x \in refused}
           violations == [x \in Relationships(collected) |-> graph.violations[x] \cup configured(x)]
           added == {RelationshipFinding("configured-dependency", "error", x) : x \in refused}
           findings == graph.findings \cup added
<1>1. /\ WithPolicy(policy).violations = violations
      /\ WithPolicy(policy).findings = findings
  <2>1. "violations" \in DOMAIN graph /\ "findings" \in DOMAIN graph
    BY DEF Graph
  <2> QED
    BY <2>1 DEF WithPolicy, Graph
<1>2. About(added, e) = configured(e)
  <2>1. \A x \in refused : x = <<x[1], x[2]>>
    BY DEF IsGathered
  <2>2. ASSUME NEW x \in refused
        PROVE  LET f == RelationshipFinding("configured-dependency", "error", x) IN
                 f.rule = "configured-dependency" /\ <<f.source, f.target>> = x
    BY <2>1 DEF RelationshipFinding
  <2> HIDE DEF refused
  <2>3. About(added, e) = {rule \in {"configured-dependency"} : e \in refused}
    BY <2>2 DEF About
  <2> QED
    BY <2>3
<1>3. graph.violations[e] = About(graph.findings, e)
  BY AnnotatedByGraph
<1>4. About(findings, e) = About(graph.findings, e) \cup About(added, e)
  BY DEF About
<1>5. violations[e] = graph.violations[e] \cup configured(e)
  OBVIOUS
<1> HIDE DEF violations, findings, added, configured
<1> QED
  BY <1>1, <1>2, <1>3, <1>4, <1>5

-----------------------------------------------------------------------------
(* What collection and judgement know of each other.                       *)
GraphInv ==
  /\ repository \in Repositories
  /\ read \in 0 .. Len(repository.files)
  /\ phase \in {"collecting", "built", "judged", "failed"}
  /\ IsGathered(collected)
  /\ phase = "built" =>
       /\ read = Len(repository.files)
       /\ graph = Graph(collected, collected.describe)
  /\ phase = "judged" => FindingsAreAnnotated

LEMMA FilesAreRead ==
  ASSUME repository \in Repositories
  PROVE  /\ Len(repository.files) \in Nat
         /\ \A i \in 1 .. Len(repository.files) : repository.files[i] \in Files
<1>1. repository.files \in Seq(Files)
  BY ComponentAssumption
<1> QED
  BY <1>1

LEMMA GraphInvInit == Init => GraphInv
<1> SUFFICES ASSUME Init PROVE GraphInv
  OBVIOUS
<1>1. 0 \in 0 .. Len(repository.files)
  BY FilesAreRead DEF Init
<1>2. IsGathered(NothingCollected)
  BY DEF IsGathered, Relationships, NothingCollected
<1> QED
  BY <1>1, <1>2 DEF Init, GraphInv

LEMMA GraphInvNext == GraphInv /\ [Next]_vars => GraphInv'
<1> SUFFICES ASSUME GraphInv, [Next]_vars PROVE GraphInv'
  OBVIOUS
<1>1. CASE Collect
  <2>1. /\ read' \in 1 .. Len(repository.files) /\ repository.files[read'] \in Files
        /\ repository' = repository /\ phase' = "collecting"
        /\ collected' = CollectFile(collected, repository.files[read'], read')
    BY <1>1, FilesAreRead DEF Collect, GraphInv
  <2>2. IsGathered(collected')
    BY <2>1, CollectGathers DEF GraphInv
  <2> QED
    BY <2>1, <2>2 DEF GraphInv, IsGathered
<1>2. CASE BuildGraph
  BY <1>2 DEF BuildGraph, GraphInv, IsGathered
<1>3. ASSUME NEW policy \in Policies, ApplyPolicy(policy)
      PROVE  GraphInv'
  <2>1. /\ UNCHANGED <<repository, read, collected>>
        /\ phase' \in {"judged", "failed"}
        /\ phase' = "judged" => graph' = WithPolicy(policy)
        /\ graph = Graph(collected, collected.describe)
    BY <1>3 DEF ApplyPolicy, GraphInv
  <2>2. ASSUME phase' = "judged" PROVE FindingsAreAnnotated'
    <3>1. DOMAIN WithPolicy(policy).violations = Relationships(collected)
      <4>1. "violations" \in DOMAIN graph
        BY <2>1 DEF Graph
      <4> QED
        BY <2>1, <4>1 DEF WithPolicy, Graph
    <3>2. \A e \in DOMAIN graph'.violations : graph'.violations[e] = About(graph'.findings, e)
      BY <2>1, <2>2, <3>1, AnnotatedByPolicy DEF GraphInv
    <3> QED
      BY <3>2 DEF FindingsAreAnnotated, About
  <2> QED
    BY <2>1, <2>2 DEF GraphInv, IsGathered, Relationships
<1>4. CASE UNCHANGED vars
  BY <1>4 DEF vars, GraphInv, IsGathered, Relationships, FindingsAreAnnotated, IsBuilt
<1> QED
  BY <1>1, <1>2, <1>3, <1>4 DEF Next

LEMMA GraphIsAnnotated == GraphInv => FindingsAreAnnotated
<1> SUFFICES ASSUME GraphInv, phase = "built" PROVE FindingsAreAnnotated
  BY DEF GraphInv, FindingsAreAnnotated, IsBuilt
<1>1. graph = Graph(collected, collected.describe)
  BY DEF GraphInv
<1>2. DOMAIN graph.violations = Relationships(collected)
  BY <1>1 DEF Graph, Violations
<1>3. \A e \in DOMAIN graph.violations : graph.violations[e] = About(graph.findings, e)
  BY <1>1, <1>2, AnnotatedByGraph DEF GraphInv
<1> QED
  BY <1>3 DEF FindingsAreAnnotated, About

(* Every finding about a relationship is annotated on it, and nothing else *)
(* is, for every repository and every policy.                              *)
THEOREM AnnotationsMatch == Spec => []FindingsAreAnnotated
BY GraphIsAnnotated, GraphInvInit, GraphInvNext, PTL DEF Spec

-----------------------------------------------------------------------------
(* What file n makes of what was collected before it, tests left out.      *)
After(before, n) ==
  IF repository.files[n].test THEN before ELSE CollectFile(before, repository.files[n], n)

(* WithoutTests is what its recursive definition says: a function that     *)
(* satisfies it exists for the first n files, whatever n is.               *)
LEMMA WithoutTestsIsDefined ==
  ASSUME repository \in Repositories
  PROVE  /\ WithoutTests[0] = NothingCollected
         /\ \A n \in 1 .. Len(repository.files) :
              WithoutTests[n] = After(WithoutTests[n - 1], n)
<1> DEFINE N == Len(repository.files)
           Defined(f, n) ==
             f = [m \in 0 .. n |-> IF m = 0 THEN NothingCollected ELSE After(f[m - 1], m)]
           undefined == {n \in Nat : n <= N /\ ~ \E f : Defined(f, n)}
<1>1. N \in Nat
  BY FilesAreRead
<1> HIDE DEF N
<1>2. undefined = {}
  <2> SUFFICES ASSUME undefined # {} PROVE FALSE
    OBVIOUS
  <2>1. PICK n \in undefined : \A m \in undefined : n <= m
    <3>1. undefined \in SUBSET Nat
      OBVIOUS
    <3> HIDE DEF undefined
    <3> QED
      BY <3>1, LeastNumber
  <2>2. n \in Nat /\ n <= N /\ ~ \E f : Defined(f, n)
    BY <2>1
  <2>3. CASE n = 0
    <3> DEFINE f == [m \in 0 .. 0 |-> NothingCollected]
    <3>1. Defined(f, 0)
      OBVIOUS
    <3> QED
      BY <2>2, <2>3, <3>1
  <2>4. CASE n # 0
    <3>1. n - 1 \in Nat /\ n - 1 <= N /\ ~(n <= n - 1)
      BY <1>1, <2>2, <2>4
    <3>2. n - 1 \notin undefined
      BY <2>1, <3>1
    <3>3. PICK g : Defined(g, n - 1)
      BY <3>1, <3>2
    <3> DEFINE f == [m \in 0 .. n |-> IF m = n THEN After(g[n - 1], n) ELSE g[m]]
    <3>4. ASSUME NEW m \in 0 .. n
          PROVE  f[m] = IF m = 0 THEN NothingCollected ELSE After(f[m - 1], m)
      <4>1. CASE m = n
        <5>1. n - 1 \in 0 .. n /\ n - 1 # n
          BY <2>2, <2>4
        <5>2. f[n - 1] = g[n - 1] /\ f[n] = After(g[n - 1], n)
          BY <2>2, <5>1
        <5> QED
          BY <2>4, <4>1, <5>2
      <4>2. CASE m # n
        <5>1. m \in 0 .. n - 1 /\ f[m] = g[m]
          BY <2>2, <4>2
        <5>2. g[m] = IF m = 0 THEN NothingCollected ELSE After(g[m - 1], m)
          BY <3>3, <5>1
        <5>3. m # 0 => m - 1 \in 0 .. n /\ m - 1 # n /\ f[m - 1] = g[m - 1]
          BY <2>2, <5>1
        <5> QED
          BY <5>1, <5>2, <5>3
      <4> QED
        BY <4>1, <4>2
    <3>5. f = [m \in 0 .. n |-> f[m]]
      OBVIOUS
    <3> HIDE DEF f
    <3>6. Defined(f, n)
      BY <3>4, <3>5
    <3> QED
      BY <2>2, <3>6
  <2> QED
    BY <2>3, <2>4
<1>3. \E f : Defined(f, N)
  BY <1>1, <1>2
<1>4. Defined(WithoutTests, N)
  <2>1. WithoutTests = CHOOSE f : Defined(f, N)
    BY DEF WithoutTests, After, N
  <2> QED
    BY <1>3, <2>1
<1>5. /\ 0 \in 0 .. N
      /\ \A n \in 1 .. N : n \in 0 .. N /\ n # 0
  BY <1>1
<1>6. \A n \in 0 .. N :
        WithoutTests[n] = IF n = 0 THEN NothingCollected ELSE After(WithoutTests[n - 1], n)
  <2> DEFINE W == WithoutTests
  <2>1. Defined(W, N)
    BY <1>4
  <2> HIDE DEF W
  <2>2. \A n \in 0 .. N : W[n] = IF n = 0 THEN NothingCollected ELSE After(W[n - 1], n)
    BY <2>1
  <2> QED
    BY <2>2 DEF W
<1> QED
  BY <1>5, <1>6 DEF N

-----------------------------------------------------------------------------
(* What was collected, next to what would be without the tests: the same   *)
(* relationships of production code, the same types, and else only         *)
(* components without types and relationships of tests.                    *)
Agrees(full, production) ==
  /\ IsGathered(full)
  /\ IsGathered(production)
  /\ Known(production) \subseteq Known(full)
  /\ Relationships(production) \subseteq Known(production) \X Known(production)
  /\ Relationships(production) = {e \in Relationships(full) : ~IsTestOnly(full, e)}
  /\ \A e \in Relationships(production) : ~IsTestOnly(production, e)
  /\ \A c \in Known(full) :
       full.types[c] = IF c \in Known(production) THEN production.types[c] ELSE NoTypes

(* A production file adds a relationship with at least one production file,*)
(* and leaves the others as they were.                                     *)
LEMMA ProductionFileShows ==
  ASSUME NEW data, IsGathered(data), NEW file \in Files, ~file.test, NEW number \in Nat,
         NEW e \in Relationships(CollectFile(data, file, number))
  PROVE  LET new == CollectFile(data, file, number) IN
           IF e \in {file.component} \X Targets(file) THEN ~IsTestOnly(new, e)
           ELSE e \in Relationships(data) /\ (IsTestOnly(new, e) <=> IsTestOnly(data, e))
<1> DEFINE new == CollectFile(data, file, number)
<1>1. /\ Relationships(new) = Relationships(data) \cup ({file.component} \X Targets(file))
      /\ new.relationships[e] = FilesWith(data, file, number, e)
  BY CollectedFile
<1>2. file.component \in Components /\ Targets(file) \subseteq Components
  BY DEF Files, Targets
<1>3. e \in Relationships(new)
  OBVIOUS
<1> HIDE DEF new
<1>4. e \in Components \X Components
  BY <1>1, <1>2, <1>3 DEF IsGathered
<1>5. e \in {file.component} \X Targets(file) <=> e[1] = file.component /\ e[2] \in Targets(file)
  BY <1>4
<1> DEFINE current == IF e \in Relationships(data) THEN data.relationships[e] ELSE NoFiles
<1>6. current \in Referencing
  BY DEF IsGathered, NoFiles, Referencing
<1>7. CASE e \in {file.component} \X Targets(file)
  <2>1. new.relationships[e] = [current EXCEPT !.production = @ \cup {number}]
    BY <1>1, <1>5, <1>7 DEF FilesWith
  <2> HIDE DEF current
  <2>2. number \in new.relationships[e].production
    BY <1>6, <2>1 DEF Referencing
  <2> QED
    BY <1>7, <2>2 DEF IsTestOnly, new
<1>8. CASE e \notin {file.component} \X Targets(file)
  <2>1. e \in Relationships(data) /\ new.relationships[e] = data.relationships[e]
    BY <1>1, <1>3, <1>5, <1>8 DEF FilesWith
  <2> QED
    BY <1>8, <2>1 DEF IsTestOnly, new
<1> QED
  BY <1>7, <1>8

(* A test adds no relationship of production code. *)
LEMMA TestFileShowsNothing ==
  ASSUME NEW data, IsGathered(data), NEW file \in Files, file.test, NEW number \in Nat,
         NEW e \in Relationships(CollectFile(data, file, number))
  PROVE  ~IsTestOnly(CollectFile(data, file, number), e)
           <=> e \in Relationships(data) /\ ~IsTestOnly(data, e)
<1> DEFINE new == CollectFile(data, file, number)
           current == IF e \in Relationships(data) THEN data.relationships[e] ELSE NoFiles
<1>1. new.relationships[e] = FilesWith(data, file, number, e)
  BY CollectedFile
<1>2. current \in Referencing
  BY DEF IsGathered, NoFiles, Referencing
<1>3. \/ new.relationships[e] = current
      \/ new.relationships[e] = [current EXCEPT !.test = @ \cup {number}]
  BY <1>1 DEF FilesWith
<1> HIDE DEF new, current
<1>4. new.relationships[e].production = current.production
  BY <1>2, <1>3 DEF Referencing
<1>5. current.production = {} <=> e \notin Relationships(data) \/ IsTestOnly(data, e)
  BY DEF current, IsTestOnly, NoFiles
<1> QED
  BY <1>4, <1>5 DEF IsTestOnly, new

LEMMA TestKeepsAgreement ==
  ASSUME NEW full, NEW production, Agrees(full, production),
         NEW file \in Files, file.test, NEW number \in Nat
  PROVE  Agrees(CollectFile(full, file, number), production)
<1> DEFINE new == CollectFile(full, file, number)
<1>1. /\ Known(new) = Known(full) \cup {file.component} \cup Targets(file)
      /\ Relationships(new) = Relationships(full) \cup ({file.component} \X Targets(file))
      /\ \A c \in Known(new) : new.types[c] = TypesWith(full, file, c)
  BY CollectedFile
<1>2. IsGathered(new)
  BY CollectGathers DEF Agrees
<1>3. \A e \in Relationships(new) :
        ~IsTestOnly(new, e) <=> e \in Relationships(full) /\ ~IsTestOnly(full, e)
  BY TestFileShowsNothing DEF Agrees
<1> HIDE DEF new
<1>4. \A c \in Known(new) :
        new.types[c] = IF c \in Known(production) THEN production.types[c] ELSE NoTypes
  BY <1>1 DEF Agrees, TypesWith
<1>5. Relationships(production) = {e \in Relationships(new) : ~IsTestOnly(new, e)}
  BY <1>1, <1>3 DEF Agrees
<1>6. Agrees(new, production)
  BY <1>1, <1>2, <1>4, <1>5 DEF Agrees
<1> QED
  BY <1>6 DEF new

LEMMA ProductionKeepsAgreement ==
  ASSUME NEW full, NEW production, Agrees(full, production),
         NEW file \in Files, ~file.test, NEW number \in Nat
  PROVE  Agrees(CollectFile(full, file, number), CollectFile(production, file, number))
<1> DEFINE new == CollectFile(full, file, number)
           without == CollectFile(production, file, number)
           added == {file.component} \X Targets(file)
<1>1. /\ Known(new) = Known(full) \cup {file.component} \cup Targets(file)
      /\ Relationships(new) = Relationships(full) \cup added
      /\ \A c \in Known(new) : new.types[c] = TypesWith(full, file, c)
  BY CollectedFile
<1>2. /\ Known(without) = Known(production) \cup {file.component} \cup Targets(file)
      /\ Relationships(without) = Relationships(production) \cup added
      /\ \A c \in Known(without) : without.types[c] = TypesWith(production, file, c)
  BY CollectedFile
<1>3. IsGathered(new) /\ IsGathered(without)
  BY CollectGathers DEF Agrees
<1>4. \A e \in Relationships(new) :
        IF e \in added THEN ~IsTestOnly(new, e)
        ELSE e \in Relationships(full) /\ (IsTestOnly(new, e) <=> IsTestOnly(full, e))
  BY ProductionFileShows DEF Agrees
<1>5. \A e \in Relationships(without) :
        IF e \in added THEN ~IsTestOnly(without, e)
        ELSE e \in Relationships(production)
             /\ (IsTestOnly(without, e) <=> IsTestOnly(production, e))
  BY ProductionFileShows DEF Agrees
<1> HIDE DEF new, without, added
<1>6. Relationships(without) = {e \in Relationships(new) : ~IsTestOnly(new, e)}
  BY <1>1, <1>2, <1>4 DEF Agrees
<1>7. \A e \in Relationships(without) : ~IsTestOnly(without, e)
  BY <1>5 DEF Agrees
<1>8. Relationships(without) \subseteq Known(without) \X Known(without)
  BY <1>2 DEF Agrees, added
<1>9. ASSUME NEW c \in Known(new)
      PROVE  new.types[c] = IF c \in Known(without) THEN without.types[c] ELSE NoTypes
  <2>1. CASE c \in Known(without)
    <3>1. (IF c \in Known(full) THEN full.types[c] ELSE NoTypes)
            = (IF c \in Known(production) THEN production.types[c] ELSE NoTypes)
      BY DEF Agrees
    <3>2. TypesWith(full, file, c) = TypesWith(production, file, c)
      BY <3>1 DEF TypesWith
    <3> QED
      BY <1>1, <1>2, <2>1, <3>2
  <2>2. CASE c \notin Known(without)
    <3>1. c \in Known(full) /\ c \notin Known(production) /\ c # file.component
      BY <1>1, <1>2, <2>2
    <3>2. new.types[c] = full.types[c]
      BY <1>1, <3>1 DEF TypesWith
    <3> QED
      BY <2>2, <3>1, <3>2 DEF Agrees
  <2> QED
    BY <2>1, <2>2
<1>10. Known(without) \subseteq Known(new)
  BY <1>1, <1>2 DEF Agrees
<1>11. Agrees(new, without)
  BY <1>3, <1>6, <1>7, <1>8, <1>9, <1>10 DEF Agrees
<1> QED
  BY <1>11 DEF new, without

-----------------------------------------------------------------------------
(* Nodes without edges change nothing that is reached and no cycle.        *)
Padded(a, N, b, M) ==
  /\ M \subseteq N
  /\ a \in [N -> SUBSET N]
  /\ b \in [M -> SUBSET M]
  /\ \A n \in N : a[n] = IF n \in M THEN b[n] ELSE {}

LEMMA PaddedReversed ==
  ASSUME NEW N, NEW M, NEW a, NEW b, Padded(a, N, b, M)
  PROVE  Padded(Reversed(a), N, Reversed(b), M)
<1>1. DOMAIN a = N /\ DOMAIN b = M
  BY DEF Padded
<1>2. /\ Reversed(a) = [n \in N |-> {m \in N : n \in a[m]}]
      /\ Reversed(b) = [n \in M |-> {m \in M : n \in b[m]}]
  BY <1>1 DEF Reversed
<1>3. ASSUME NEW n \in N
      PROVE  {m \in N : n \in a[m]} = IF n \in M THEN {m \in M : n \in b[m]} ELSE {}
  BY DEF Padded
<1> QED
  BY <1>2, <1>3 DEF Padded

LEMMA PaddedReachable ==
  ASSUME NEW N, NEW M, NEW a, NEW b, Padded(a, N, b, M), NEW n \in N
  PROVE  Reachable(n, a) = IF n \in M THEN Reachable(n, b) ELSE {}
<1>1. /\ DOMAIN a = N /\ DOMAIN b = M /\ M \subseteq N
      /\ \A m \in M : a[m] = b[m] /\ b[m] \subseteq M
      /\ \A m \in N : m \notin M => a[m] = {}
  BY DEF Padded
<1>2. CASE n \in M
  <2>1. ASSUME NEW x \in Reachable(n, a) PROVE x \in Reachable(n, b)
    <3>1. x \in N /\ x # n /\ \A S \in SUBSET N : Closed(S, n, a) => x \in S
      BY <1>1 DEF Reachable
    <3>2. Closed(M, n, a)
      BY <1>1, <1>2 DEF Closed
    <3>3. x \in M
      BY <1>1, <3>1, <3>2
    <3>4. ASSUME NEW S \in SUBSET M, Closed(S, n, b) PROVE x \in S
      <4>1. S \in SUBSET N /\ Closed(S, n, a)
        BY <1>1, <1>2, <3>4 DEF Closed
      <4> QED
        BY <3>1, <4>1
    <3> QED
      BY <1>1, <3>1, <3>3, <3>4 DEF Reachable
  <2>2. ASSUME NEW x \in Reachable(n, b) PROVE x \in Reachable(n, a)
    <3>1. x \in M /\ x # n /\ \A S \in SUBSET M : Closed(S, n, b) => x \in S
      BY <1>1 DEF Reachable
    <3>2. ASSUME NEW S \in SUBSET N, Closed(S, n, a) PROVE x \in S
      <4>1. S \cap M \in SUBSET M /\ Closed(S \cap M, n, b)
        BY <1>1, <1>2, <3>2 DEF Closed
      <4> QED
        BY <3>1, <4>1
    <3> QED
      BY <1>1, <3>1, <3>2 DEF Reachable
  <2> QED
    BY <1>2, <2>1, <2>2
<1>3. CASE n \notin M
  <2>1. Closed({}, n, a) /\ {} \in SUBSET N
    BY <1>1, <1>3 DEF Closed
  <2> QED
    BY <1>1, <1>3, <2>1 DEF Reachable
<1> QED
  BY <1>2, <1>3

LEMMA PaddedCycles ==
  ASSUME NEW N, NEW M, NEW a, NEW b, Padded(a, N, b, M)
  PROVE  Cycles(a) = Cycles(b)
<1>1. DOMAIN a = N /\ DOMAIN b = M /\ M \subseteq N
  BY DEF Padded
<1>2. ASSUME NEW n \in M PROVE CycleOf(n, a) = CycleOf(n, b)
  <2>1. Reachable(n, a) = Reachable(n, b) /\ Reachable(n, b) \subseteq M
    BY <1>1, PaddedReachable DEF Reachable
  <2>2. \A m \in Reachable(n, b) : Reachable(m, a) = Reachable(m, b)
    BY <1>1, <2>1, PaddedReachable
  <2> QED
    BY <2>1, <2>2 DEF CycleOf
<1>3. ASSUME NEW n \in N, n \notin M PROVE ~(Cardinality(CycleOf(n, a)) > 1)
  <2>1. CycleOf(n, a) = {n}
    BY <1>3, PaddedReachable DEF CycleOf
  <2>2. Cardinality({n}) = 1
    BY FS_Singleton
  <2> QED
    BY <2>1, <2>2
<1> QED
  BY <1>1, <1>2, <1>3 DEF Cycles

-----------------------------------------------------------------------------
(* So everything that is calculated agrees.                                *)
LEMMA DependenciesAgree ==
  ASSUME NEW full, NEW production, Agrees(full, production)
  PROVE  Padded(ProductionDependencies(full), Known(full),
                ProductionDependencies(production), Known(production))
<1>1. /\ Known(production) \subseteq Known(full)
      /\ Relationships(production) \subseteq Known(production) \X Known(production)
      /\ Relationships(production) = {e \in Relationships(full) : ~IsTestOnly(full, e)}
      /\ \A e \in Relationships(production) : ~IsTestOnly(production, e)
  BY DEF Agrees
<1>2. ASSUME NEW c \in Known(full)
      PROVE  {d \in Known(full) :
                <<c, d>> \in Relationships(full) /\ ~IsTestOnly(full, <<c, d>>)}
               = IF c \in Known(production)
                   THEN {d \in Known(production) :
                           /\ <<c, d>> \in Relationships(production)
                           /\ ~IsTestOnly(production, <<c, d>>)}
                   ELSE {}
  <2>1. \A d : <<c, d>> \in Relationships(full) /\ ~IsTestOnly(full, <<c, d>>)
                 <=> <<c, d>> \in Relationships(production)
    BY <1>1
  <2>2. \A d : <<c, d>> \in Relationships(production)
                 => /\ c \in Known(production) /\ d \in Known(production)
                    /\ ~IsTestOnly(production, <<c, d>>)
    BY <1>1
  <2> QED
    BY <1>1, <2>1, <2>2
<1> QED
  BY <1>1, <1>2 DEF ProductionDependencies, Padded

LEMMA MetricsAgree ==
  ASSUME NEW full, NEW production, Agrees(full, production), NEW c \in Known(full)
  PROVE  IF c \in Known(production)
           THEN /\ Afferent(full, c) = Afferent(production, c)
                /\ Instability(full, c) = Instability(production, c)
                /\ Abstractness(full, c) = Abstractness(production, c)
           ELSE Afferent(full, c) = 0
<1> DEFINE a == ProductionDependencies(full)
           b == ProductionDependencies(production)
<1>1. Padded(a, Known(full), b, Known(production))
  BY DependenciesAgree
<1>2. Padded(Reversed(a), Known(full), Reversed(b), Known(production))
  BY <1>1, PaddedReversed
<1>3. /\ a[c] = IF c \in Known(production) THEN b[c] ELSE {}
      /\ Reversed(a)[c] = IF c \in Known(production) THEN Reversed(b)[c] ELSE {}
  BY <1>1, <1>2 DEF Padded
<1>4. c \in Known(production) => full.types[c] = production.types[c]
  BY DEF Agrees
<1> HIDE DEF a, b
<1>5. /\ Afferent(full, c) = Cardinality(Reversed(a)[c])
      /\ Afferent(production, c) = Cardinality(Reversed(b)[c])
      /\ Efferent(full, c) = Cardinality(a[c])
      /\ Efferent(production, c) = Cardinality(b[c])
  BY DEF Afferent, Efferent, a, b
<1> QED
  BY <1>3, <1>4, <1>5, FS_EmptySet DEF Instability, Abstractness

LEMMA ApplicationsAgree ==
  ASSUME NEW full, NEW production, Agrees(full, production), NEW describe,
         NEW c \in Known(production)
  PROVE  UsingApplications(full, describe, c) = UsingApplications(production, describe, c)
<1>1. c \in Known(full)
  BY DEF Agrees
<1>2. Reachable(c, Reversed(ProductionDependencies(full)))
        = Reachable(c, Reversed(ProductionDependencies(production)))
  BY <1>1, DependenciesAgree, PaddedReversed, PaddedReachable
<1> QED
  BY <1>2 DEF UsingApplications

LEMMA FindingsAgree ==
  ASSUME NEW full, NEW production, Agrees(full, production), NEW describe
  PROVE  Findings(full, describe) = Findings(production, describe)
<1>1. Cycles(ProductionDependencies(full)) = Cycles(ProductionDependencies(production))
  BY DependenciesAgree, PaddedCycles
<1>2. {c \in Known(full) : IsStableWithLowAbstraction(full, c)}
        = {c \in Known(production) : IsStableWithLowAbstraction(production, c)}
  <2>1. Known(production) \subseteq Known(full)
    BY DEF Agrees
  <2>2. \A c \in Known(full) :
          IsStableWithLowAbstraction(full, c)
            <=> c \in Known(production) /\ IsStableWithLowAbstraction(production, c)
    <3> SUFFICES ASSUME NEW c \in Known(full)
                 PROVE  IsStableWithLowAbstraction(full, c)
                          <=> c \in Known(production) /\ IsStableWithLowAbstraction(production, c)
      OBVIOUS
    <3>1. CASE c \in Known(production)
      BY <3>1, MetricsAgree DEF IsStableWithLowAbstraction
    <3>2. CASE c \notin Known(production)
      BY <3>2, MetricsAgree DEF IsStableWithLowAbstraction
    <3> QED
      BY <3>1, <3>2
  <2> QED
    BY <2>1, <2>2
<1>3. {e \in Relationships(full) : IsJudged(full, e)}
        = {e \in Relationships(production) : IsJudged(production, e)}
  BY DEF Agrees, IsJudged
<1>4. ASSUME NEW e \in {x \in Relationships(production) : IsJudged(production, x)}
      PROVE  BrokenRules(full, describe, e) = BrokenRules(production, describe, e)
  <2>1. /\ e[1] \in Known(production) /\ e[2] \in Known(production)
        /\ e[1] \in Known(full) /\ e[2] \in Known(full)
    BY DEF Agrees
  <2>2. /\ Instability(full, e[1]) = Instability(production, e[1])
        /\ Instability(full, e[2]) = Instability(production, e[2])
    BY <2>1, MetricsAgree
  <2> QED
    BY <2>2 DEF BrokenRules
<1> DEFINE judged == {e \in Relationships(production) : IsJudged(production, e)}
<1>5. UNION {{RelationshipFinding(rule, "warning", edge) :
                rule \in BrokenRules(full, describe, edge)} : edge \in judged}
        = UNION {{RelationshipFinding(rule, "warning", edge) :
                    rule \in BrokenRules(production, describe, edge)} : edge \in judged}
  BY <1>4
<1> QED
  BY <1>1, <1>2, <1>3, <1>5 DEF Findings

-----------------------------------------------------------------------------
(* What has been collected agrees, file after file, with what would have   *)
(* been collected without the tests, and a component is described as it    *)
(* would have been, unless a test was the first to describe it.            *)
DescribedAs(production, c) ==
  \/ c \in Known(production) /\ collected.describe[c] = production.describe[c]
  \/ IsDescribedByTest(c)

AgreementInv ==
  /\ GraphInv
  /\ Agrees(collected, WithoutTests[read])
  /\ \A c \in Known(collected) : DescribedAs(WithoutTests[read], c)

LEMMA AgreementInit == Init => AgreementInv
<1> SUFFICES ASSUME Init PROVE AgreementInv
  OBVIOUS
<1>1. WithoutTests[0] = NothingCollected
  BY WithoutTestsIsDefined DEF Init
<1>2. Agrees(NothingCollected, NothingCollected)
  BY DEF Agrees, IsGathered, Known, Relationships, NothingCollected
<1> QED
  BY <1>1, <1>2, GraphInvInit DEF Init, AgreementInv, Known, NothingCollected

LEMMA AgreementNext == AgreementInv /\ [Next]_vars => AgreementInv'
<1> SUFFICES ASSUME AgreementInv, [Next]_vars PROVE AgreementInv'
  OBVIOUS
<1>1. GraphInv'
  BY GraphInvNext DEF AgreementInv
<1>2. repository' = repository
  BY DEF Next, Collect, BuildGraph, ApplyPolicy, vars
<1>3. WithoutTests' = WithoutTests
  BY <1>2 DEF WithoutTests
<1>4. ASSUME NEW full, NEW production, full = collected', production = WithoutTests[read'],
             Agrees(full, production)
      PROVE  Agrees(collected, WithoutTests[read])'
  BY <1>3, <1>4 DEF Agrees, IsGathered, Known, Relationships, IsTestOnly
<1>5. CASE Collect
  <2> DEFINE file == repository.files[read']
             before == WithoutTests[read]
             after == WithoutTests[read']
  <2>1. /\ read' \in 1 .. Len(repository.files) /\ read' \in Nat /\ read' - 1 = read
        /\ file \in Files
        /\ collected' = CollectFile(collected, file, read')
    BY <1>5, FilesAreRead DEF Collect, AgreementInv, GraphInv
  <2>2. after = After(before, read')
    BY <2>1, WithoutTestsIsDefined DEF AgreementInv, GraphInv
  <2>3. Agrees(collected, before)
    BY DEF AgreementInv
  <2>4. After(before, read') = IF file.test THEN before ELSE CollectFile(before, file, read')
    BY DEF After
  <2>5. Agrees(collected', after)
    <3> HIDE DEF file, before, after
    <3> QED
      BY <2>1, <2>2, <2>3, <2>4, TestKeepsAgreement, ProductionKeepsAgreement
  <2>6. ASSUME NEW c \in Known(collected')
        PROVE  \/ c \in Known(after) /\ collected'.describe[c] = after.describe[c]
               \/ IsDescribedByTest(c)'
    <3>1. c \in Known(collected) \/ c \in Mentioned(file)
      BY <2>1, CollectedFile DEF Mentioned
    <3>2. collected'.describe[c] = DescriptionWith(collected, file, c)
      BY <2>1, <2>6, CollectedFile
    <3>3. c \in Known(before) => /\ c \in Known(after)
                                 /\ after.describe[c] = before.describe[c]
      <4> HIDE DEF file, before, after
      <4> QED
        BY <2>2, <2>4, CollectedFile DEF DescriptionWith
    <3>4. CASE c \in Known(collected)
      <4>1. collected'.describe[c] = collected.describe[c]
        BY <3>2, <3>4 DEF DescriptionWith
      <4>2. DescribedAs(before, c)
        BY <3>4 DEF AgreementInv
      <4>3. CASE IsDescribedByTest(c)
        BY <1>2, <4>1, <4>3 DEF IsDescribedByTest, Mentioned, Targets
      <4>4. CASE c \in Known(before) /\ collected.describe[c] = before.describe[c]
        BY <3>3, <4>1, <4>4
      <4> QED
        BY <4>2, <4>3, <4>4 DEF DescribedAs
    <3>5. CASE c \notin Known(collected)
      <4>1. c \in Mentioned(file) /\ collected'.describe[c] = file.describe[c]
        BY <3>1, <3>2, <3>5 DEF DescriptionWith
      <4>2. CASE file.test
        <5>1. IsDescribedByTest(c)'
          BY <1>2, <2>1, <4>1, <4>2 DEF IsDescribedByTest, Mentioned, Targets
        <5> QED
          BY <5>1
      <4>3. CASE ~file.test
        <5>1. c \notin Known(before)
          BY <2>3, <3>5 DEF Agrees
        <5>2. c \in Known(after) /\ after.describe[c] = file.describe[c]
          <6> HIDE DEF file, before, after
          <6> QED
            BY <2>2, <2>4, <4>1, <4>3, <5>1, CollectedFile DEF DescriptionWith, Mentioned
        <5> QED
          BY <4>1, <5>2
      <4> QED
        BY <4>2, <4>3
    <3> QED
      BY <3>4, <3>5
  <2>7. WithoutTests[read]' = after
    BY <1>3
  <2>8. Agrees(collected, WithoutTests[read])'
    <3> HIDE DEF after
    <3> QED
      BY <1>4, <2>5 DEF after
  <2>9. (\A c \in Known(collected) : DescribedAs(WithoutTests[read], c))'
    <3> HIDE DEF after
    <3> QED
      BY <2>6, <2>7 DEF DescribedAs, Known
  <2> QED
    BY <1>1, <2>8, <2>9 DEF AgreementInv
<1>6. CASE UNCHANGED <<read, collected>>
  <2>1. \A c \in Known(collected) : DescribedAs(WithoutTests[read], c)
    BY DEF AgreementInv
  <2>2. (\A c \in Known(collected) : DescribedAs(WithoutTests[read], c))'
    BY <1>2, <1>3, <1>6, <2>1 DEF DescribedAs, IsDescribedByTest, Known, Mentioned, Targets
  <2> QED
    BY <1>1, <1>4, <1>6, <2>2 DEF AgreementInv
<1> QED
  BY <1>5, <1>6 DEF Next, BuildGraph, ApplyPolicy, vars

(* Annotations agree, and a relationship of tests alone has none.          *)
LEMMA AboutTestsIsNothing ==
  ASSUME NEW full, NEW production, Agrees(full, production), NEW describe,
         NEW e \in Relationships(full)
  PROVE  Violations(full, Findings(full, describe))[e] =
           IF e \in Relationships(production)
             THEN Violations(production, Findings(production, describe))[e] ELSE {}
<1>1. Findings(full, describe) = Findings(production, describe)
  BY FindingsAgree
<1>2. e \in Relationships(production) <=> ~IsTestOnly(full, e)
  BY DEF Agrees
<1>3. e \in Relationships(production) => ~IsTestOnly(production, e)
  BY DEF Agrees
<1> QED
  BY <1>1, <1>2, <1>3 DEF Violations

(* Tests change no cycle, no finding and no metric of production code, for *)
(* every repository, but by describing a component first; and a component  *)
(* whose description is not that of production code is described by a test.*)
THEOREM TestsAreIgnored == Spec => []TestsChangeNothing
<1>1. AgreementInv => TestsChangeNothing
  <2> SUFFICES ASSUME AgreementInv, phase = "built" PROVE TestsChangeNothing
    BY DEF TestsChangeNothing
  <2> DEFINE full == collected
             without == WithoutTests[read]
             describe == collected.describe
  <2>1. /\ graph = Graph(full, describe) /\ ProductionGraph = Graph(without, describe)
        /\ Agrees(full, without) /\ without = Production
    BY DEF AgreementInv, GraphInv, ProductionGraph, Production
  <2> HIDE DEF full, without, describe
  <2>2. /\ graph.cycles = Cycles(ProductionDependencies(full))
        /\ ProductionGraph.cycles = Cycles(ProductionDependencies(without))
        /\ graph.findings = Findings(full, describe)
        /\ ProductionGraph.findings = Findings(without, describe)
        /\ graph.violations = Violations(full, Findings(full, describe))
        /\ ProductionGraph.violations = Violations(without, Findings(without, describe))
        /\ graph.instability = [c \in Known(full) |-> Instability(full, c)]
        /\ ProductionGraph.instability = [c \in Known(without) |-> Instability(without, c)]
        /\ graph.applications = [c \in Known(full) |-> UsingApplications(full, describe, c)]
        /\ ProductionGraph.applications =
             [c \in Known(without) |-> UsingApplications(without, describe, c)]
    BY <2>1 DEF Graph
  <2>3. graph.cycles = ProductionGraph.cycles /\ graph.findings = ProductionGraph.findings
    BY <2>1, <2>2, DependenciesAgree, PaddedCycles, FindingsAgree
  <2>4. ASSUME NEW c \in DOMAIN ProductionGraph.instability
        PROVE  /\ graph.instability[c] = ProductionGraph.instability[c]
               /\ graph.applications[c] = ProductionGraph.applications[c]
               /\ collected.describe[c] = Production.describe[c] \/ IsDescribedByTest(c)
    <3>1. c \in Known(without) /\ c \in Known(full)
      BY <2>1, <2>2 DEF Agrees
    <3>2. Instability(full, c) = Instability(without, c)
      BY <2>1, <3>1, MetricsAgree
    <3>3. UsingApplications(full, describe, c) = UsingApplications(without, describe, c)
      BY <2>1, <3>1, ApplicationsAgree
    <3>4. collected.describe[c] = Production.describe[c] \/ IsDescribedByTest(c)
      BY <2>1, <3>1 DEF AgreementInv, DescribedAs, full, without
    <3> QED
      BY <2>2, <3>1, <3>2, <3>3, <3>4
  <2>5. ASSUME NEW e \in DOMAIN graph.violations
        PROVE  graph.violations[e] =
                 IF e \in DOMAIN ProductionGraph.violations
                   THEN ProductionGraph.violations[e] ELSE {}
    <3>1. /\ DOMAIN graph.violations = Relationships(full)
          /\ DOMAIN ProductionGraph.violations = Relationships(without)
      BY <2>2 DEF Violations
    <3> QED
      BY <2>1, <2>2, <3>1, AboutTestsIsNothing
  <2> QED
    BY <2>3, <2>4, <2>5 DEF TestsChangeNothing
<1> QED
  BY <1>1, AgreementInit, AgreementNext, PTL DEF Spec

-----------------------------------------------------------------------------
(* The zone of pain *)

(* What is known is finite, and what is counted are natural numbers. *)
IsCounted(data) ==
  /\ Known(data) \subseteq Components /\ IsFiniteSet(Known(data))
  /\ Relationships(data) \subseteq Known(data) \X Known(data)
  /\ \A c \in Known(data) : data.types[c] \in [abstract : Nat, concrete : Nat]
  /\ \A e \in Relationships(data) : /\ IsFiniteSet(data.relationships[e].production)
                                    /\ IsFiniteSet(data.relationships[e].test)

LEMMA CollectCounts ==
  ASSUME NEW data, IsGathered(data), IsCounted(data),
         NEW file \in Files, IsFiniteSet(file.imports), NEW number
  PROVE  IsCounted(CollectFile(data, file, number))
<1> DEFINE new == CollectFile(data, file, number)
           c0 == file.component
           targets == Targets(file)
<1>1. /\ Known(new) = Known(data) \cup {c0} \cup targets
      /\ Relationships(new) = Relationships(data) \cup ({c0} \X targets)
      /\ \A c \in Known(new) : new.types[c] = TypesWith(data, file, c)
      /\ \A e \in Relationships(new) : new.relationships[e] = FilesWith(data, file, number, e)
  BY CollectedFile
<1>2. c0 \in Components /\ targets \subseteq Components
  BY DEF Files, Targets
<1>3. IsFiniteSet(targets)
  BY FS_Subset DEF Targets
<1>4. IsFiniteSet(Known(data) \cup {c0} \cup targets)
  BY <1>3, FS_Union, FS_Singleton DEF IsCounted
<1>5. ASSUME NEW c \in Known(new)
      PROVE  TypesWith(data, file, c) \in [abstract : Nat, concrete : Nat]
  BY <1>5 DEF TypesWith, IsCounted, NoTypes, Files
<1>6. ASSUME NEW e \in Relationships(new)
      PROVE  LET with == FilesWith(data, file, number, e) IN
               IsFiniteSet(with.production) /\ IsFiniteSet(with.test)
  <2> DEFINE current == IF e \in Relationships(data) THEN data.relationships[e] ELSE NoFiles
  <2>1. /\ current \in Referencing
        /\ IsFiniteSet(current.production) /\ IsFiniteSet(current.test)
    BY FS_EmptySet DEF IsCounted, IsGathered, NoFiles, Referencing
  <2>2. /\ IsFiniteSet(current.production \cup {number}) /\ IsFiniteSet(current.test \cup {number})
    BY <2>1, FS_AddElement
  <2> HIDE DEF current
  <2>3. /\ [current EXCEPT !.test = @ \cup {number}].production = current.production
        /\ [current EXCEPT !.test = @ \cup {number}].test = current.test \cup {number}
        /\ [current EXCEPT !.production = @ \cup {number}].test = current.test
        /\ [current EXCEPT !.production = @ \cup {number}].production
             = current.production \cup {number}
    BY <2>1 DEF Referencing
  <2> QED
    BY <2>1, <2>2, <2>3 DEF FilesWith, current
<1> HIDE DEF new, c0, targets
<1>7. IsCounted(new)
  BY <1>1, <1>2, <1>4, <1>5, <1>6 DEF IsCounted
<1> QED
  BY <1>7 DEF new

LEMMA MetricsAreNumbers ==
  ASSUME NEW data, IsCounted(data), NEW c \in Known(data)
  PROVE  /\ Afferent(data, c) \in Nat /\ Efferent(data, c) \in Nat
         /\ Instability(data, c) \in Nat \X (Nat \ {0})
         /\ Abstractness(data, c) \in Nat \X (Nat \ {0})
<1> DEFINE a == ProductionDependencies(data)
<1>1. a[c] \subseteq Known(data) /\ Reversed(a)[c] \subseteq Known(data)
  BY DEF ProductionDependencies, Reversed
<1> HIDE DEF a
<1>2. Cardinality(a[c]) \in Nat /\ Cardinality(Reversed(a)[c]) \in Nat
  BY <1>1, FS_Subset, FS_CardinalityType DEF IsCounted
<1>3. Afferent(data, c) \in Nat /\ Efferent(data, c) \in Nat
  BY <1>2 DEF Afferent, Efferent, a
<1>4. ASSUME NEW part \in Nat, NEW rest \in Nat
      PROVE  Ratio(part, rest) \in Nat \X (Nat \ {0})
  BY DEF Ratio
<1>5. data.types[c].abstract \in Nat /\ data.types[c].concrete \in Nat
  BY DEF IsCounted
<1> QED
  BY <1>3, <1>4, <1>5 DEF Instability, Abstractness

-----------------------------------------------------------------------------
CountedInv == GraphInv /\ IsCounted(collected) /\ IsDescribed(collected)

LEMMA CollectDescribes ==
  ASSUME NEW r \in Repositories, NEW i \in 1 .. Len(r.files), r.files[i] \in Files,
         NEW data, IsDescribed(data), NEW number
  PROVE  IsDescribed(CollectFile(data, r.files[i], number))
<1> DEFINE file == r.files[i]
           new == CollectFile(data, file, number)
<1>1. /\ Known(new) = Known(data) \cup {file.component} \cup Targets(file)
      /\ \A c \in Known(new) : new.describe[c] = DescriptionWith(data, file, c)
  BY CollectedFile
<1>2. {file.component} \cup Targets(file) \subseteq Components
  BY DEF Files, Targets
<1>3. \A c \in Components : IsDescription(file.describe[c], c)
  BY NamesAssumption DEF IsDescription, Files
<1> HIDE DEF new, file
<1>4. IsDescribed(new)
  BY <1>1, <1>2, <1>3 DEF IsDescribed, DescriptionWith
<1> QED
  BY <1>4 DEF new, file

LEMMA CountedInvInit == Init => CountedInv
<1> SUFFICES ASSUME Init PROVE CountedInv
  OBVIOUS
<1>1. IsCounted(NothingCollected) /\ IsDescribed(NothingCollected)
  BY FS_EmptySet DEF IsCounted, IsDescribed, Known, Relationships, NothingCollected
<1> QED
  BY <1>1, GraphInvInit DEF Init, CountedInv

LEMMA CountedInvNext == CountedInv /\ [Next]_vars => CountedInv'
<1> SUFFICES ASSUME CountedInv, [Next]_vars PROVE CountedInv'
  OBVIOUS
<1>1. GraphInv'
  BY GraphInvNext DEF CountedInv
<1>2. CASE Collect
  <2>1. /\ read' \in 1 .. Len(repository.files) /\ repository \in Repositories
        /\ repository.files[read'] \in Files
        /\ collected' = CollectFile(collected, repository.files[read'], read')
    BY <1>2, FilesAreRead DEF Collect, CountedInv, GraphInv
  <2>2. IsFiniteSet(repository.files[read'].imports)
    BY <2>1, ComponentAssumption
  <2>3. IsCounted(CollectFile(collected, repository.files[read'], read'))
    BY <2>1, <2>2, CollectCounts DEF CountedInv, GraphInv
  <2>4. IsDescribed(collected')
    BY <2>1, CollectDescribes DEF CountedInv
  <2> QED
    BY <1>1, <2>1, <2>3, <2>4 DEF CountedInv, IsCounted, IsDescribed, Known, Relationships
<1>3. CASE UNCHANGED collected
  BY <1>1, <1>3 DEF CountedInv, IsCounted, IsDescribed, Known, Relationships
<1> QED
  BY <1>2, <1>3 DEF Next, BuildGraph, ApplyPolicy, vars

-----------------------------------------------------------------------------
(* The finding that says so is the only one of its rule about a component. *)
LEMMA StableIsFound ==
  ASSUME NEW data, NEW describe, NEW c \in Known(data)
  PROVE  (\E f \in Findings(data, describe) :
            f.rule = "stable-component-low-abstraction" /\ c \in f.components)
           <=> IsStableWithLowAbstraction(data, c)
<1>1. ASSUME IsStableWithLowAbstraction(data, c)
      PROVE  \E f \in Findings(data, describe) :
               f.rule = "stable-component-low-abstraction" /\ c \in f.components
  <2> DEFINE f == ComponentsFinding("stable-component-low-abstraction", "warning", {c})
  <2>1. f \in Findings(data, describe)
    BY <1>1 DEF Findings
  <2>2. f.rule = "stable-component-low-abstraction" /\ c \in f.components
    BY DEF ComponentsFinding
  <2> QED
    BY <2>1, <2>2
<1>2. ASSUME NEW f \in Findings(data, describe),
             f.rule = "stable-component-low-abstraction", c \in f.components
      PROVE  IsStableWithLowAbstraction(data, c)
  <2>1. CASE \E cycle : f = ComponentsFinding("dependency-cycle", "error", cycle)
    BY <1>2, <2>1 DEF ComponentsFinding
  <2>2. CASE \E d \in Known(data) :
               /\ IsStableWithLowAbstraction(data, d)
               /\ f = ComponentsFinding("stable-component-low-abstraction", "warning", {d})
    BY <1>2, <2>2 DEF ComponentsFinding
  <2>3. CASE \E rule, edge : f = RelationshipFinding(rule, "warning", edge)
    BY <1>2, <2>3 DEF RelationshipFinding
  <2> QED
    BY <2>1, <2>2, <2>3 DEF Findings
<1> QED
  BY <1>1, <1>2

(* The zone of pain is the rule, for metrics that are numbers.             *)
LEMMA PainIsStable ==
  ASSUME IsCounted(collected), NEW c \in Known(collected)
  PROVE  Weighed!readMetrics(ComponentMessage(c)) = "pain"
           <=> IsStableWithLowAbstraction(collected, c)
<1> DEFINE message == ComponentMessage(c)
           a == Afferent(collected, c)
           e == Efferent(collected, c)
           i == Instability(collected, c)
           t == Abstractness(collected, c)
<1>1. /\ message.afferentCoupling = a /\ message.efferentCoupling = e
      /\ message.instability = i /\ message.abstractness = t
  BY DEF ComponentMessage
<1>2. a \in Nat /\ e \in Nat /\ i \in Nat \X (Nat \ {0}) /\ t \in Nat \X (Nat \ {0})
  BY MetricsAreNumbers
<1>3. IsStableWithLowAbstraction(collected, c) <=>
        a > 0 /\ ~Below(OneFifth, i) /\ ~Below(OneFifth, t)
  BY DEF IsStableWithLowAbstraction
<1> HIDE DEF message, a, e, i, t
<1>4. \A q \in Nat \X (Nat \ {0}) : Weighed!AtMost(q, Weighed!ZONE_LIMIT) <=> ~Below(OneFifth, q)
  BY DEF Weighed!AtMost, Weighed!ZONE_LIMIT, Below, OneFifth
<1>5. Weighed!IsPainful(message) <=> ~Below(OneFifth, i) /\ ~Below(OneFifth, t)
  BY <1>1, <1>2, <1>4 DEF Weighed!IsPainful
<1>6. CASE a = 0
  <2>1. Weighed!readMetrics(message) \in {"isolated", "free"}
    <3>1. CASE Weighed!IsIsolated(message)
      BY <1>1, <1>6, <3>1 DEF Weighed!readMetrics
    <3>2. CASE ~Weighed!IsIsolated(message)
      BY <1>1, <1>6, <3>2 DEF Weighed!readMetrics
    <3> QED
      BY <3>1, <3>2
  <2> QED
    BY <1>3, <1>6, <2>1 DEF message
<1>7. CASE a > 0
  <2>1. ~Weighed!IsIsolated(message) /\ message.afferentCoupling # 0 /\ message.afferentCoupling > 0
    BY <1>1, <1>2, <1>7 DEF Weighed!IsIsolated
  <2>2. CASE Weighed!IsPainful(message)
    <3>1. Weighed!readMetrics(message) = "pain"
      BY <2>1, <2>2 DEF Weighed!readMetrics
    <3> QED
      BY <1>3, <1>5, <1>7, <2>2, <3>1 DEF message
  <2>3. CASE ~Weighed!IsPainful(message)
    <3>1. Weighed!readMetrics(message) \in {"useless", "balanced", "drifting"}
      BY <2>1, <2>3 DEF Weighed!readMetrics
    <3> QED
      BY <1>3, <1>5, <2>3, <3>1 DEF message
  <2> QED
    BY <2>2, <2>3
<1> QED
  BY <1>2, <1>6, <1>7

(* The zone of pain of the balance page and the server's rule agree, for   *)
(* every repository.                                                       *)
THEOREM PainIsTheRule == Spec => []PainIsFound
<1>1. CountedInv => PainIsFound
  <2> SUFFICES ASSUME CountedInv, phase = "built", NEW c \in Known(collected)
               PROVE  (Weighed!readMetrics(ComponentMessage(c)) = "pain") <=>
                        \E f \in graph.findings :
                          /\ f.rule = "stable-component-low-abstraction"
                          /\ ComponentMessage(c).id \in f.components
    <3>1. Received.components = {ComponentMessage(c) : c \in Known(collected)}
      BY DEF Received
    <3>2. Received.findings = graph.findings
      BY DEF Received
    <3> QED
      BY <3>1, <3>2 DEF PainIsFound
  <2>1. ComponentMessage(c).id = c
    BY DEF ComponentMessage
  <2>2. graph.findings = Findings(collected, collected.describe)
    BY DEF CountedInv, GraphInv, Graph
  <2> QED
    BY <2>1, <2>2, StableIsFound, PainIsStable DEF CountedInv
<1> QED
  BY <1>1, CountedInvInit, CountedInvNext, PTL DEF Spec

-----------------------------------------------------------------------------
(* Orders by several keys *)

IsWeakOrder(S, less) ==
  /\ \A a, b \in S : <<a, b>> \in less => <<b, a>> \notin less
  /\ \A a, b, c \in S : <<a, b>> \in less => <<a, c>> \in less \/ <<c, b>> \in less

Backwards(S, less) == {p \in S \X S : <<p[2], p[1]>> \in less}

(* Before in less, or equal and before in tie. *)
Lexicographic(S, less, tie) ==
  {p \in S \X S : p \in less \/ (p \notin Backwards(S, less) /\ p \in tie)}

LEMMA LexicographicIsStrict ==
  ASSUME NEW S, NEW less, NEW tie, IsWeakOrder(S, less), IsStrictOrder(S, tie)
  PROVE  IsStrictOrder(S, Lexicographic(S, less, tie))
<1> DEFINE both == Lexicographic(S, less, tie)
<1>1. \A a, b \in S : <<a, b>> \in both <=>
        <<a, b>> \in less \/ (<<b, a>> \notin less /\ <<a, b>> \in tie)
  BY DEF Lexicographic, Backwards
<1> HIDE DEF both
<1>2. \A a, b \in S : a # b => (<<a, b>> \in both <=> <<b, a>> \notin both)
  BY <1>1 DEF IsWeakOrder, IsStrictOrder
<1>3. \A a \in S : <<a, a>> \notin both
  BY <1>1 DEF IsWeakOrder, IsStrictOrder
<1>4. \A a, b, c \in S : <<a, b>> \in both /\ <<b, c>> \in both => <<a, c>> \in both
  BY <1>1 DEF IsWeakOrder, IsStrictOrder
<1>5. IsStrictOrder(S, both)
  BY <1>2, <1>3, <1>4 DEF IsStrictOrder
<1> QED
  BY <1>5 DEF both

LEMMA BackwardsIsWeak ==
  ASSUME NEW S, NEW less, IsWeakOrder(S, less)
  PROVE  IsWeakOrder(S, Backwards(S, less))
<1>1. \A a, b \in S : <<a, b>> \in Backwards(S, less) <=> <<b, a>> \in less
  BY DEF Backwards
<1> QED
  BY <1>1 DEF IsWeakOrder

Smaller(p, q) == p[1] * q[2] < q[1] * p[2]

Quotients == Nat \X (Nat \ {0})

LEMMA ProductsAreMonotone ==
  ASSUME NEW a \in Nat, NEW b \in Nat, NEW k \in Nat, a <= b
  PROVE  a * k <= b * k
<1>1. PICK d \in Nat : b = a + d
  <2>1. b - a \in Nat /\ b = a + (b - a)
    OBVIOUS
  <2> QED
    BY <2>1
<1>2. b * k = a * k + d * k
  BY <1>1
<1>3. d * k \in Nat
  OBVIOUS
<1> QED
  BY <1>2, <1>3

LEMMA ProductsAreStrict ==
  ASSUME NEW a \in Nat, NEW b \in Nat, NEW k \in Nat \ {0}, a < b
  PROVE  a * k < b * k
<1>1. (a + 1) * k <= b * k
  BY ProductsAreMonotone
<1>2. (a + 1) * k = a * k + k
  OBVIOUS
<1>3. a * k \in Nat /\ b * k \in Nat
  OBVIOUS
<1> QED
  BY <1>1, <1>2, <1>3

LEMMA SmallerIsWeak ==
  /\ \A p, q \in Quotients : Smaller(p, q) => ~Smaller(q, p)
  /\ \A p, q, r \in Quotients : Smaller(p, q) => Smaller(p, r) \/ Smaller(r, q)
<1>1. \A p, q \in Quotients : Smaller(p, q) => ~Smaller(q, p)
  <2> SUFFICES ASSUME NEW p \in Quotients, NEW q \in Quotients PROVE Smaller(p, q) => ~Smaller(q, p)
    OBVIOUS
  <2>1. p[1] * q[2] \in Nat /\ q[1] * p[2] \in Nat
    BY DEF Quotients
  <2> QED
    BY <2>1 DEF Smaller
<1>2. ASSUME NEW p \in Quotients, NEW q \in Quotients, NEW r \in Quotients,
             ~Smaller(p, r), ~Smaller(r, q)
      PROVE  ~Smaller(p, q)
  <2> DEFINE p1 == p[1]  p2 == p[2]  q1 == q[1]  q2 == q[2]  r1 == r[1]  r2 == r[2]
  <2>1. /\ p1 \in Nat /\ q1 \in Nat /\ r1 \in Nat
        /\ p2 \in Nat \ {0} /\ q2 \in Nat \ {0} /\ r2 \in Nat \ {0}
    BY DEF Quotients
  <2>2. ~(p1 * r2 < r1 * p2) /\ ~(r1 * q2 < q1 * r2)
    BY <1>2 DEF Smaller
  <2> HIDE DEF p1, p2, q1, q2, r1, r2
  <2>3. p1 * r2 \in Nat /\ r1 * p2 \in Nat /\ r1 * q2 \in Nat /\ q1 * r2 \in Nat
    BY <2>1
  <2>4. r1 * p2 <= p1 * r2 /\ q1 * r2 <= r1 * q2
    BY <2>2, <2>3
  <2>5. (r1 * p2) * q2 <= (p1 * r2) * q2 /\ (q1 * r2) * p2 <= (r1 * q2) * p2
    BY <2>1, <2>3, <2>4, ProductsAreMonotone
  <2>6. /\ (r1 * p2) * q2 = (r1 * q2) * p2
        /\ (p1 * r2) * q2 = (p1 * q2) * r2
        /\ (q1 * r2) * p2 = (q1 * p2) * r2
    BY <2>1
  <2>7. (q1 * p2) * r2 <= (p1 * q2) * r2
    <3>1. /\ (r1 * p2) * q2 \in Nat /\ (p1 * r2) * q2 \in Nat /\ (q1 * r2) * p2 \in Nat
          /\ (r1 * q2) * p2 \in Nat
      BY <2>1, <2>3
    <3> QED
      BY <2>5, <2>6, <3>1
  <2>8. p1 * q2 \in Nat /\ q1 * p2 \in Nat
    BY <2>1
  <2>9. ~(p1 * q2 < q1 * p2)
    <3>1. p1 * q2 < q1 * p2 => (p1 * q2) * r2 < (q1 * p2) * r2
      BY <2>1, <2>8, ProductsAreStrict
    <3>2. (p1 * q2) * r2 \in Nat /\ (q1 * p2) * r2 \in Nat
      BY <2>1, <2>8
    <3> QED
      BY <2>7, <3>1, <3>2
  <2> QED
    BY <2>9 DEF Smaller, p1, p2, q1, q2, r1, r2
<1> QED
  BY <1>1, <1>2

LEMMA QuotientsAreOrdered ==
  ASSUME NEW S, NEW key \in [S -> Quotients]
  PROVE  IsWeakOrder(S, {p \in S \X S : Smaller(key[p[1]], key[p[2]])})
BY SmallerIsWeak DEF IsWeakOrder

LEMMA WordsAreOrdered ==
  ASSUME NEW S, NEW W, NEW word \in [S -> W], IsStrictOrder(W, Alphabetical(W))
  PROVE  IsWeakOrder(S, {p \in S \X S : Precedes(word[p[1]], word[p[2]])})
<1> DEFINE less == {p \in S \X S : Precedes(word[p[1]], word[p[2]])}
<1>1. \A a, b \in S : <<a, b>> \in less <=> <<word[a], word[b]>> \in Alphabetical(W)
  BY DEF Alphabetical
<1> HIDE DEF less
<1>2. \A a \in S : word[a] \in W
  OBVIOUS
<1>3. IsWeakOrder(S, less)
  BY <1>1, <1>2 DEF IsWeakOrder, IsStrictOrder
<1> QED
  BY <1>3 DEF less

Sent == {ComponentMessage(c) : c \in Known(collected)}

LEMMA MessageFields ==
  ASSUME CountedInv, NEW m \in Sent
  PROVE  /\ m = ComponentMessage(m.id) /\ m.id \in Known(collected) /\ m.id \in Components
         /\ m.name \in Names /\ m.role \in Roles
         /\ m.afferentCoupling \in Nat /\ m.efferentCoupling \in Nat
         /\ m.instability \in Quotients /\ m.abstractness \in Quotients
         /\ m.mainSequenceDistance.exact \in Quotients
<1>1. PICK c \in Known(collected) : m = ComponentMessage(c)
  BY DEF Sent
<1>2. c \in Components
  BY DEF CountedInv, IsCounted
<1> DEFINE i == Instability(collected, c)
           t == Abstractness(collected, c)
           described == collected.describe[c]
<1>3. /\ m.id = c /\ m.name = described.name /\ m.role = described.role
      /\ m.afferentCoupling = Afferent(collected, c)
      /\ m.efferentCoupling = Efferent(collected, c)
      /\ m.instability = i /\ m.abstractness = t
      /\ m.mainSequenceDistance = Distance(t, i)
  BY <1>1 DEF ComponentMessage
<1>4. described.name \in Names /\ described.role \in Roles
  BY NamesAssumption, ComponentAssumption DEF CountedInv, IsDescribed, IsDescription
<1>5. /\ Afferent(collected, c) \in Nat /\ Efferent(collected, c) \in Nat
      /\ i \in Nat \X (Nat \ {0}) /\ t \in Nat \X (Nat \ {0})
  BY MetricsAreNumbers DEF CountedInv
<1> HIDE DEF i, t, described
<1>6. Distance(t, i).exact \in Quotients
  <2> DEFINE whole == t[2] * i[2]
             sum == t[1] * i[2] + i[1] * t[2]
  <2>1. whole \in Nat \ {0} /\ sum \in Nat
    BY <1>5
  <2>2. Distance(t, i).exact = <<IF sum < whole THEN whole - sum ELSE sum - whole, whole>>
    BY DEF Distance, Exact
  <2> HIDE DEF whole, sum
  <2>3. (IF sum < whole THEN whole - sum ELSE sum - whole) \in Nat
    BY <2>1
  <2> QED
    BY <2>1, <2>2, <2>3 DEF Quotients
<1> QED
  BY <1>1, <1>2, <1>3, <1>4, <1>5, <1>6 DEF Quotients

(* No two components have one identifier, so that identifiers order them.  *)
LEMMA IdentifiersDecide ==
  ASSUME CountedInv
  PROVE  LET S == Sent IN
           IsStrictOrder(S, {p \in S \X S : Precedes(p[1].id, p[2].id)})
<1> DEFINE S == Sent
           tie == {p \in S \X S : Precedes(p[1].id, p[2].id)}
<1>1. IsStrictOrder(Components, Alphabetical(Components))
  BY OrderAssumption
<1>2. \A a \in S : a.id \in Components
  BY MessageFields
<1>3. \A a, b \in S : <<a, b>> \in tie <=> <<a.id, b.id>> \in Alphabetical(Components)
  BY <1>2 DEF Alphabetical
<1>4. \A a, b \in S : a.id = b.id => a = b
  BY MessageFields
<1> HIDE DEF S, tie
<1>5. IsStrictOrder(S, tie)
  BY <1>1, <1>2, <1>3, <1>4 DEF IsStrictOrder
<1> QED
  BY <1>5 DEF S, tie

LEMMA SameStrictOrder ==
  ASSUME NEW S, NEW a, NEW b, IsStrictOrder(S, a),
         \A p \in S, q \in S : <<p, q>> \in a <=> <<p, q>> \in b
  PROVE  IsStrictOrder(S, b)
BY DEF IsStrictOrder

LEMMA RiskIsStrict ==
  ASSUME CountedInv
  PROVE  IsStrictOrder(Sent, Weighed!ByRisk(Sent))
<1> DEFINE S == Sent
           tie == {p \in S \X S : Precedes(p[1].id, p[2].id)}
           key == [m \in S |-> Weighed!Risk(m)]
           less == {p \in S \X S : Smaller(key[p[1]], key[p[2]])}
<1>1. ASSUME NEW m \in S PROVE Weighed!Risk(m) \in Quotients
  <2>1. m.afferentCoupling \in Nat /\ m.mainSequenceDistance.exact \in Quotients
    BY MessageFields
  <2> QED
    BY <2>1 DEF Weighed!Risk, Quotients
<1>2. key \in [S -> Quotients]
  BY <1>1
<1>3. \A m \in S : key[m] = Weighed!Risk(m)
  OBVIOUS
<1> HIDE DEF key, S
<1>4. IsWeakOrder(S, Backwards(S, less))
  BY <1>2, QuotientsAreOrdered, BackwardsIsWeak
<1>5. IsStrictOrder(S, tie)
  BY IdentifiersDecide DEF S
<1>6. ASSUME NEW a \in S, NEW b \in S
      PROVE  <<a, b>> \in Lexicographic(S, Backwards(S, less), tie)
               <=> <<a, b>> \in Weighed!ByRisk(S)
  <2>1. <<a, b>> \in Lexicographic(S, Backwards(S, less), tie) <=>
          \/ Smaller(key[b], key[a])
          \/ (~Smaller(key[a], key[b]) /\ Precedes(a.id, b.id))
    BY DEF Lexicographic, Backwards
  <2> DEFINE p == Weighed!Risk(a)
             q == Weighed!Risk(b)
  <2>2. p \in Quotients /\ q \in Quotients
    BY <1>1
  <2>3. <<a, b>> \in Weighed!ByRisk(S) <=>
          \/ ~Weighed!AtMost(p, q)
          \/ (Weighed!AtMost(q, p) /\ Precedes(a.id, b.id))
    BY DEF Weighed!ByRisk, Weighed!Riskier
  <2> HIDE DEF p, q
  <2>4. p[1] * q[2] \in Nat /\ q[1] * p[2] \in Nat
    BY <2>2 DEF Quotients
  <2>5. (~Weighed!AtMost(p, q) <=> Smaller(q, p)) /\ (Weighed!AtMost(q, p) <=> ~Smaller(p, q))
    BY <2>4 DEF Weighed!AtMost, Smaller
  <2> QED
    BY <1>3, <2>1, <2>3, <2>5 DEF p, q
<1> HIDE DEF less, tie
<1>7. IsStrictOrder(S, Weighed!ByRisk(S))
  BY <1>4, <1>5, <1>6, LexicographicIsStrict, SameStrictOrder
<1> QED
  BY <1>7 DEF S

LEMMA CouplingIsStrict ==
  ASSUME CountedInv
  PROVE  IsStrictOrder(Sent, Mapped!ByCoupling(Sent))
<1> DEFINE S == Sent
           tie == {p \in S \X S : Precedes(p[1].id, p[2].id)}
           key == [m \in S |-> <<Mapped!Coupling(m), 1>>]
           less == {p \in S \X S : Smaller(key[p[1]], key[p[2]])}
<1>1. ASSUME NEW m \in S PROVE Mapped!Coupling(m) \in Nat
  BY MessageFields DEF Mapped!Coupling
<1>2. key \in [S -> Quotients]
  BY <1>1 DEF Quotients
<1>3. \A m \in S : key[m][1] = Mapped!Coupling(m) /\ key[m][2] = 1
  OBVIOUS
<1> HIDE DEF key, S
<1>4. IsWeakOrder(S, Backwards(S, less))
  BY <1>2, QuotientsAreOrdered, BackwardsIsWeak
<1>5. IsStrictOrder(S, tie)
  BY IdentifiersDecide DEF S
<1>6. ASSUME NEW a \in S, NEW b \in S
      PROVE  <<a, b>> \in Lexicographic(S, Backwards(S, less), tie)
               <=> <<a, b>> \in Mapped!ByCoupling(S)
  <2>1. <<a, b>> \in Lexicographic(S, Backwards(S, less), tie) <=>
          \/ Smaller(key[b], key[a])
          \/ (~Smaller(key[a], key[b]) /\ Precedes(a.id, b.id))
    BY DEF Lexicographic, Backwards
  <2>2. <<a, b>> \in Mapped!ByCoupling(S) <=>
          \/ Mapped!Coupling(a) > Mapped!Coupling(b)
          \/ (Mapped!Coupling(a) = Mapped!Coupling(b) /\ Precedes(a.id, b.id))
    BY DEF Mapped!ByCoupling, Mapped!MoreCoupled
  <2>3. Mapped!Coupling(a) \in Nat /\ Mapped!Coupling(b) \in Nat
    BY <1>1
  <2>4. /\ Smaller(key[b], key[a]) <=> Mapped!Coupling(b) < Mapped!Coupling(a)
        /\ Smaller(key[a], key[b]) <=> Mapped!Coupling(a) < Mapped!Coupling(b)
    BY <1>3, <2>3 DEF Smaller
  <2> QED
    BY <2>1, <2>2, <2>3, <2>4
<1> HIDE DEF less, tie
<1>7. IsStrictOrder(S, Mapped!ByCoupling(S))
  BY <1>4, <1>5, <1>6, LexicographicIsStrict, SameStrictOrder
<1> QED
  BY <1>7 DEF S

LEMMA ColumnsAreWeak ==
  ASSUME CountedInv, NEW column \in Columns
  PROVE  IsWeakOrder(Sent, {p \in Sent \X Sent : Mapped!Less(p[1], p[2], column)})
<1> DEFINE S == Sent
           less == {p \in S \X S : Mapped!Less(p[1], p[2], column)}
<1>1. CASE column \in Mapped!TextColumns
  <2> DEFINE word == [m \in S |-> <<m[column]>>]
  <2>1. \A a, b \in S : <<a, b>> \in less <=> Precedes(word[a], word[b])
    BY <1>1 DEF Mapped!Less
  <2>2. \A m \in S : m.name \in Names /\ m.role \in Roles
    BY MessageFields
  <2>3. column \in {"name", "role"}
    BY <1>1 DEF Mapped!TextColumns
  <2> DEFINE W == IF column = "name" THEN {<<name>> : name \in Names}
                  ELSE {<<role>> : role \in Roles}
  <2>4. word \in [S -> W]
    <3>1. CASE column = "name"
      BY <2>2, <3>1
    <3>2. CASE column = "role"
      BY <2>2, <3>2
    <3> QED
      BY <2>3, <3>1, <3>2
  <2>5. IsStrictOrder(W, Alphabetical(W))
    BY OrderAssumption
  <2> DEFINE precedes == {p \in S \X S : Precedes(word[p[1]], word[p[2]])}
  <2> HIDE DEF W, word
  <2>6. IsWeakOrder(S, precedes)
    BY <2>4, <2>5, WordsAreOrdered
  <2>7. \A a, b \in S : <<a, b>> \in precedes <=> <<a, b>> \in less
    BY <2>1
  <2> HIDE DEF precedes, less, S
  <2> QED
    BY <2>6, <2>7 DEF IsWeakOrder, S, less
<1>2. CASE column \in Mapped!NumericColumns
  <2> DEFINE key == [m \in S |-> Mapped!Number(m, column)]
  <2>1. column \in {"afferentCoupling", "efferentCoupling", "instability", "mainSequenceDistance"}
    BY <1>2 DEF Mapped!NumericColumns
  <2>2. ASSUME NEW m \in S PROVE Mapped!Number(m, column) \in Quotients
    <3>1. /\ m.afferentCoupling \in Nat /\ m.efferentCoupling \in Nat
          /\ m.instability \in Quotients /\ m.mainSequenceDistance.exact \in Quotients
      BY MessageFields
    <3>2. CASE column = "afferentCoupling"
      BY <3>1, <3>2 DEF Mapped!Number, Quotients
    <3>3. CASE column = "efferentCoupling"
      BY <3>1, <3>3 DEF Mapped!Number, Quotients
    <3>4. CASE column = "instability"
      BY <3>1, <3>4 DEF Mapped!Number
    <3>5. CASE column = "mainSequenceDistance"
      BY <3>1, <3>5 DEF Mapped!Number
    <3> QED
      BY <2>1, <3>2, <3>3, <3>4, <3>5
  <2>3. key \in [S -> Quotients]
    BY <2>2
  <2>4. column \notin Mapped!TextColumns
    BY <2>1 DEF Mapped!TextColumns
  <2>5. ASSUME NEW a \in S, NEW b \in S
        PROVE  <<a, b>> \in less <=> Smaller(key[a], key[b])
    <3>1. key[a] = Mapped!Number(a, column) /\ key[b] = Mapped!Number(b, column)
      OBVIOUS
    <3>2. <<a, b>> \in less <=> Mapped!Less(a, b, column)
      OBVIOUS
    <3> HIDE DEF key, less
    <3> QED
      BY <2>4, <3>1, <3>2 DEF Mapped!Less, Smaller
  <2> DEFINE smaller == {p \in S \X S : Smaller(key[p[1]], key[p[2]])}
  <2> HIDE DEF key
  <2>6. IsWeakOrder(S, smaller)
    BY <2>3, QuotientsAreOrdered
  <2>7. \A a, b \in S : <<a, b>> \in smaller <=> <<a, b>> \in less
    BY <2>5
  <2> HIDE DEF smaller, less, S
  <2> QED
    BY <2>6, <2>7 DEF IsWeakOrder, S, less
<1> QED
  BY <1>1, <1>2 DEF Columns

LEMMA SortsAreKnown ==
  ASSUME NEW sort \in Sorts
  PROVE  sort.column \in Columns
<1>1. PICK column \in Columns :
        \/ sort = Mapped!toggleSort(Mapped!DEFAULT_COMPONENT_SORT, column)
        \/ sort = Mapped!toggleSort(
                    Mapped!toggleSort(Mapped!DEFAULT_COMPONENT_SORT, column), column)
  BY DEF Sorts
<1>2. \A other : Mapped!toggleSort(other, column).column = column
  BY DEF Mapped!toggleSort
<1> QED
  BY <1>1, <1>2

LEMMA TableIsStrict ==
  ASSUME CountedInv, NEW sort \in Sorts
  PROVE  IsStrictOrder(Sent, Mapped!InOrder(Sent, sort))
<1> DEFINE S == Sent
           column == sort.column
           rising == sort.direction = "ascending"
           tie == {p \in S \X S : Precedes(p[1].id, p[2].id)}
           less == {p \in S \X S : Mapped!Less(p[1], p[2], column)}
           first == IF rising THEN less ELSE Backwards(S, less)
<1>1. column \in Columns
  BY SortsAreKnown
<1>2. IsWeakOrder(S, less)
  BY <1>1, ColumnsAreWeak
<1>3. IsStrictOrder(S, tie)
  BY IdentifiersDecide
<1> HIDE DEF S
<1>4. IsWeakOrder(S, first)
  <2> HIDE DEF less, rising
  <2> QED
    BY <1>2, BackwardsIsWeak
<1>5. ASSUME NEW a \in S, NEW b \in S
      PROVE  <<a, b>> \in Lexicographic(S, first, tie) <=> <<a, b>> \in Mapped!InOrder(S, sort)
  <2>1. /\ <<a, b>> \in less <=> Mapped!Less(a, b, column)
        /\ <<b, a>> \in less <=> Mapped!Less(b, a, column)
        /\ <<a, b>> \in tie <=> Precedes(a.id, b.id)
    OBVIOUS
  <2>2. <<a, b>> \in Mapped!InOrder(S, sort) <=>
          \/ IF rising THEN Mapped!Less(a, b, column) ELSE Mapped!Less(b, a, column)
          \/ /\ ~Mapped!Less(a, b, column)
             /\ ~Mapped!Less(b, a, column)
             /\ Precedes(a.id, b.id)
    BY DEF Mapped!InOrder, Mapped!ComesFirst
  <2>3. <<a, b>> \in Lexicographic(S, first, tie) <=>
          \/ <<a, b>> \in first
          \/ (<<b, a>> \notin first /\ <<a, b>> \in tie)
    <3> HIDE DEF first, tie
    <3> QED
      BY DEF Lexicographic, Backwards
  <2>4. /\ <<a, b>> \in first <=> IF rising THEN <<a, b>> \in less ELSE <<b, a>> \in less
        /\ <<b, a>> \in first <=> IF rising THEN <<b, a>> \in less ELSE <<a, b>> \in less
    <3> HIDE DEF less, rising
    <3> QED
      BY DEF Backwards
  <2> HIDE DEF first, less, tie, rising, column
  <2> QED
    BY <2>1, <2>2, <2>3, <2>4
<1> HIDE DEF first, tie
<1>6. IsStrictOrder(S, Mapped!InOrder(S, sort))
  BY <1>3, <1>4, <1>5, LexicographicIsStrict, SameStrictOrder
<1> QED
  BY <1>6 DEF S

(* The table by every column, the ranking and the map have one order only, *)
(* whatever metrics and names the components share.                        *)
THEOREM SortsAreTotal == Spec => []OrdersAreTotal
<1>1. CountedInv => OrdersAreTotal
  <2>1. Received.components = Sent
    BY DEF Received, Sent
  <2> QED
    BY <2>1, RiskIsStrict, CouplingIsStrict, TableIsStrict DEF OrdersAreTotal
<1> QED
  BY <1>1, CountedInvInit, CountedInvNext, PTL DEF Spec

-----------------------------------------------------------------------------
(* The map and the drawer *)

(* The modules of the pages sort and count as this one does. *)
LEMMA CountedAlike ==
  ASSUME NEW S
  PROVE  /\ Weighed!Cardinality(S) = Cardinality(S)
         /\ Mapped!Cardinality(S) = Cardinality(S)
         /\ Mined!Cardinality(S) = Cardinality(S)
BY DEF Weighed!Cardinality, Mapped!Cardinality, Mined!Cardinality, Cardinality

LEMMA SortedAlike ==
  ASSUME NEW S, NEW before, NEW limit
  PROVE  /\ Weighed!Top(S, before, limit) = Top(S, before, limit)
         /\ Mapped!Top(S, before, limit) = Top(S, before, limit)
         /\ Mined!Sorted(S, before) = Sorted(S, before)
<1>1. \A x : /\ Weighed!Before(S, before, x) = Before(S, before, x)
             /\ Mapped!Before(S, before, x) = Before(S, before, x)
             /\ Mined!Before(S, before, x) = Before(S, before, x)
  BY DEF Weighed!Before, Mapped!Before, Mined!Before, Before
<1>2. /\ Weighed!Sorted(S, before) = Sorted(S, before)
      /\ Mapped!Sorted(S, before) = Sorted(S, before)
      /\ Mined!Sorted(S, before) = Sorted(S, before)
  BY <1>1, CountedAlike DEF Weighed!Sorted, Mapped!Sorted, Mined!Sorted, Sorted
<1> QED
  BY <1>2, CountedAlike DEF Weighed!Top, Mapped!Top, Top

LEMMA TopIsFirst ==
  ASSUME NEW S, IsFiniteSet(S), NEW before, IsStrictOrder(S, before), NEW limit \in Nat
  PROVE  LET top == Top(S, before, limit)
             m == Least(limit, Cardinality(S)) IN
           /\ m \in Nat /\ Len(top) = m /\ DOMAIN top = 1 .. m /\ top \in [1 .. m -> S]
           /\ \A i, j \in 1 .. m : top[i] = top[j] => i = j
<1> DEFINE s == Sorted(S, before)
           n == Cardinality(S)
           m == Least(limit, n)
           top == SubSeq(s, 1, m)
<1>1. /\ n \in Nat /\ s \in Seq(S) /\ Len(s) = n
      /\ \A i \in 1 .. n : s[i] \in S
      /\ \A i, j \in 1 .. n : s[i] = s[j] => i = j
  BY SortedIsTotal
<1>2. Top(S, before, limit) = top
  BY DEF Top, Least
<1> HIDE DEF s, n
<1>3. m \in Nat /\ m <= n
  BY <1>1 DEF Least
<1> HIDE DEF m
<1>4. Len(top) = m /\ DOMAIN top = 1 .. m /\ \A i \in 1 .. m : top[i] = s[i] /\ i \in 1 .. n
  BY <1>1, <1>3
<1> HIDE DEF top
<1>5. top = [i \in 1 .. m |-> top[i]]
  BY <1>1, <1>3 DEF top
<1> QED
  BY <1>1, <1>2, <1>3, <1>4, <1>5 DEF m, n

SentRelationships == {RelationshipMessage(e) : e \in Relationships(collected)}

LEMMA SentIsFinite ==
  ASSUME CountedInv
  PROVE  IsFiniteSet(Sent) /\ Cardinality(Sent) = Cardinality(Known(collected))
<1> DEFINE f == [c \in Known(collected) |-> ComponentMessage(c)]
<1>1. f \in [Known(collected) -> Sent]
  BY DEF Sent
<1>2. \A c \in Known(collected) : f[c] = ComponentMessage(c) /\ ComponentMessage(c).id = c
  BY DEF ComponentMessage
<1>3. \A m \in Sent : \E c \in Known(collected) : f[c] = m
  BY DEF Sent
<1> HIDE DEF f
<1>4. \A c, d \in Known(collected) : f[c] = f[d] => c = d
  BY <1>2
<1> QED
  BY <1>1, <1>3, <1>4, SameSize DEF CountedInv, IsCounted

LEMMA LinksJoin ==
  ASSUME CountedInv, NEW limit \in Nat
  PROVE  LET drawn == Mapped!createDependencyMapDiagram(
                        Mapped!buildGraphLayout(Sent, SentRelationships, limit), NoComponent)
             ids == {n.id : n \in drawn.nodes} IN
           /\ Cardinality(ids) = Least(limit, Cardinality(Sent))
           /\ \A link \in drawn.links : {link.source, link.target} \subseteq ids
<1> DEFINE top == Top(Sent, Mapped!ByCoupling(Sent), limit)
           m == Least(limit, Cardinality(Sent))
           layout == Mapped!buildGraphLayout(Sent, SentRelationships, limit)
           drawn == Mapped!createDependencyMapDiagram(layout, NoComponent)
           ids == {n.id : n \in drawn.nodes}
           nodes == Mapped!Positioned(Sent, limit)
<1>1. /\ m \in Nat /\ DOMAIN top = 1 .. m /\ top \in [1 .. m -> Sent]
      /\ \A i, j \in 1 .. m : top[i] = top[j] => i = j
  BY SentIsFinite, CouplingIsStrict, TopIsFirst
<1>2. \A i \in 1 .. m : \A j \in 1 .. m : top[i].id = top[j].id => i = j
  <2>1. \A x \in Sent, y \in Sent : x.id = y.id => x = y
    BY MessageFields
  <2>2. \A i \in 1 .. m : top[i] \in Sent
    BY <1>1
  <2> HIDE DEF m, top
  <2> QED
    BY <1>1, <2>1, <2>2
<1>3. {n.id : n \in nodes} = {top[i].id : i \in 1 .. m}
  <2>1. Mapped!Top(Sent, Mapped!ByCoupling(Sent), limit) = top
    BY SortedAlike
  <2> DEFINE spot(i) == [id |-> top[i].id, angle |-> <<i - 1, Mapped!Sets!Max({Len(top), 1})>>,
                         radius |-> IF Len(top) < 8 THEN 33 ELSE 39]
  <2>2. nodes = {spot(i) : i \in 1 .. m}
    BY <1>1, <2>1 DEF Mapped!Positioned
  <2>3. \A i : spot(i).id = top[i].id
    OBVIOUS
  <2> HIDE DEF spot, nodes, top, m
  <2> QED
    BY <2>2, <2>3
<1>4. layout.nodes = nodes
      /\ layout.edges = {r \in SentRelationships : Mapped!Joins(r, {n.id : n \in nodes})}
  BY DEF Mapped!buildGraphLayout
<1> HIDE DEF layout, nodes, m, top
<1>5. ids = {n.id : n \in layout.nodes}
  <2>1. drawn.nodes = {Mapped!buildNode(n, NoComponent) : n \in layout.nodes}
    BY DEF Mapped!createDependencyMapDiagram
  <2>2. \A n : Mapped!buildNode(n, NoComponent).id = n.id
    BY DEF Mapped!buildNode
  <2> HIDE DEF drawn
  <2> QED
    BY <2>1, <2>2
<1>6. drawn.links = {Mapped!buildLink(r) : r \in layout.edges}
  BY DEF Mapped!createDependencyMapDiagram
<1> HIDE DEF drawn
<1>7. ids = {top[i].id : i \in 1 .. m}
  BY <1>3, <1>4, <1>5
<1> HIDE DEF ids
<1>8. Cardinality(ids) = m
  <2> DEFINE f == [i \in 1 .. m |-> top[i].id]
  <2>1. f \in [1 .. m -> ids]
    BY <1>7
  <2>2. \A i, j \in 1 .. m : f[i] = f[j] => i = j
    BY <1>2
  <2>3. \A id \in ids : \E i \in 1 .. m : f[i] = id
    BY <1>7
  <2> HIDE DEF f
  <2>4. IsFiniteSet(1 .. m) /\ Cardinality(1 .. m) = m
    <3>1. IsFiniteSet(1 .. m) /\ Cardinality(1 .. m) = IF 1 > m THEN 0 ELSE m - 1 + 1
      BY <1>1, FS_Interval
    <3> QED
      BY <1>1, <3>1
  <2>5. Cardinality(ids) = Cardinality(1 .. m)
    <3> DEFINE places == 1 .. m
    <3>1. /\ f \in [places -> ids] /\ IsFiniteSet(places)
          /\ \A i, j \in places : f[i] = f[j] => i = j
          /\ \A id \in ids : \E i \in places : f[i] = id
      BY <2>1, <2>2, <2>3, <2>4
    <3> HIDE DEF places
    <3>2. Cardinality(ids) = Cardinality(places)
      BY <3>1, SameSize
    <3> QED
      BY <3>2 DEF places
  <2> QED
    BY <2>4, <2>5
<1>9. ASSUME NEW link \in drawn.links
      PROVE  {link.source, link.target} \subseteq ids
  <2>1. PICK r \in layout.edges : link = Mapped!buildLink(r)
    BY <1>6
  <2>2. {r.source, r.target} \subseteq ids
    BY <1>3, <1>4, <1>7, <2>1 DEF Mapped!Joins
  <2> QED
    BY <2>1, <2>2 DEF Mapped!buildLink
<1> QED
  BY <1>8, <1>9 DEF drawn, ids, layout, m

LEMMA RelationshipFields ==
  ASSUME CountedInv, NEW r \in SentRelationships
  PROVE  /\ <<r.source, r.target>> \in Relationships(collected)
         /\ r = RelationshipMessage(<<r.source, r.target>>)
         /\ r.testOnly = IsTestOnly(collected, <<r.source, r.target>>)
         /\ r.source \in Known(collected) /\ r.target \in Known(collected)
<1>1. PICK e \in Relationships(collected) : r = RelationshipMessage(e)
  BY DEF SentRelationships
<1>2. e \in Known(collected) \X Known(collected)
  BY DEF CountedInv, IsCounted
<1>3. r.source = e[1] /\ r.target = e[2] /\ r.testOnly = IsTestOnly(collected, e)
  BY <1>1 DEF RelationshipMessage
<1>4. e = <<e[1], e[2]>> /\ e[1] \in Known(collected) /\ e[2] \in Known(collected)
  BY <1>2
<1> QED
  BY <1>1, <1>3, <1>4

LEMMA EveryRelationshipIsSent ==
  ASSUME CountedInv, NEW c, NEW d, <<c, d>> \in Relationships(collected)
  PROVE  \E r \in SentRelationships :
           r.source = c /\ r.target = d /\ r.testOnly = IsTestOnly(collected, <<c, d>>)
<1> DEFINE r == RelationshipMessage(<<c, d>>)
<1>1. r \in SentRelationships
  BY DEF SentRelationships
<1>2. r.source = c /\ r.target = d /\ r.testOnly = IsTestOnly(collected, <<c, d>>)
  BY DEF RelationshipMessage
<1> QED
  BY <1>1, <1>2

LEMMA SelectedAreNamed ==
  ASSUME CountedInv, NEW c \in Known(collected)
  PROVE  Mapped!selectedRelationships(SentRelationships, c) =
           {r \in SentRelationships : c \in {r.source, r.target}}
<1>1. c # <<>>
  BY ComponentAssumption, PathAssumption DEF CountedInv, IsCounted
<1> QED
  BY <1>1 DEF Mapped!selectedRelationships

LEMMA NeighboursAreKnown ==
  ASSUME CountedInv, NEW c \in Known(collected), NEW testOnly
  PROVE  Mapped!neighbor(Sent, c, testOnly) = [id |-> c, known |-> TRUE, testOnly |-> testOnly]
<1>1. \E m \in Sent : m.id = c
  <2>1. ComponentMessage(c) \in Sent /\ ComponentMessage(c).id = c
    BY DEF Sent, ComponentMessage
  <2> QED
    BY <2>1
<1> QED
  BY <1>1 DEF Mapped!neighbor

(* As many neighbours that are not of tests alone as there are identifiers.*)
LEMMA NeighboursOf ==
  ASSUME CountedInv, NEW N \in SUBSET Known(collected), NEW drawn,
         drawn = {Mapped!neighbor(Sent, d, FALSE) : d \in N}
  PROVE  Cardinality(drawn) = Cardinality(N)
<1> DEFINE f == [d \in N |-> Mapped!neighbor(Sent, d, FALSE)]
<1>1. \A d \in N : f[d] = [id |-> d, known |-> TRUE, testOnly |-> FALSE]
  BY NeighboursAreKnown
<1>2. f \in [N -> drawn] /\ \A n \in drawn : \E d \in N : f[d] = n
  OBVIOUS
<1> HIDE DEF f
<1>3. \A d, e \in N : f[d] = f[e] => d = e
  <2>1. ASSUME NEW d \in N PROVE f[d].id = d
    <3>1. f[d] = [id |-> d, known |-> TRUE, testOnly |-> FALSE]
      BY <1>1
    <3> QED
      BY <3>1
  <2> QED
    BY <2>1
<1>4. IsFiniteSet(N)
  BY FS_Subset DEF CountedInv, IsCounted
<1> QED
  BY <1>2, <1>3, <1>4, SameSize

LEMMA ImportersAreListed ==
  ASSUME CountedInv, NEW c \in Known(collected)
  PROVE  LET listed == Mapped!importers(Sent, SentRelationships, c) IN
           /\ Cardinality({n \in listed : ~n.testOnly}) = Afferent(collected, c)
           /\ \A n \in listed : n.known
<1> DEFINE listed == Mapped!importers(Sent, SentRelationships, c)
           counting == {n \in listed : ~n.testOnly}
           N == Reversed(ProductionDependencies(collected))[c]
<1>1. N = {d \in Known(collected) : <<d, c>> \in Relationships(collected)
                                    /\ ~IsTestOnly(collected, <<d, c>>)}
  BY DEF Reversed, ProductionDependencies
<1>2. listed = {Mapped!neighbor(Sent, r.source, r.testOnly) :
                  r \in {s \in SentRelationships : s.target = c}}
  <2>1. {s \in Mapped!selectedRelationships(SentRelationships, c) : s.target = c}
          = {s \in SentRelationships : s.target = c}
    BY SelectedAreNamed
  <2> QED
    BY <2>1 DEF Mapped!importers
<1> HIDE DEF listed, N
<1>3. ASSUME NEW n \in listed
      PROVE  \E d \in Known(collected) :
               /\ n = Mapped!neighbor(Sent, d, n.testOnly) /\ n.known
               /\ <<d, c>> \in Relationships(collected)
               /\ n.testOnly = IsTestOnly(collected, <<d, c>>)
  <2>1. PICK r \in SentRelationships :
          r.target = c /\ n = Mapped!neighbor(Sent, r.source, r.testOnly)
    BY <1>2
  <2>2. /\ r.source \in Known(collected) /\ <<r.source, c>> \in Relationships(collected)
        /\ r.testOnly = IsTestOnly(collected, <<r.source, c>>)
    BY <2>1, RelationshipFields
  <2>3. n.testOnly = r.testOnly /\ n.known
    BY <2>1, <2>2, NeighboursAreKnown
  <2> QED
    BY <2>1, <2>2, <2>3
<1>4. counting = {Mapped!neighbor(Sent, d, FALSE) : d \in N}
  <2>1. ASSUME NEW n \in counting
        PROVE  \E d \in N : n = Mapped!neighbor(Sent, d, FALSE)
    <3>1. PICK d \in Known(collected) :
            /\ n = Mapped!neighbor(Sent, d, n.testOnly)
            /\ <<d, c>> \in Relationships(collected)
            /\ n.testOnly = IsTestOnly(collected, <<d, c>>)
      BY <1>3
    <3>2. n.testOnly = FALSE
      BY <3>1 DEF IsTestOnly
    <3> QED
      BY <1>1, <3>1, <3>2
  <2>2. ASSUME NEW d \in N
        PROVE  Mapped!neighbor(Sent, d, FALSE) \in counting
    <3>1. /\ d \in Known(collected) /\ <<d, c>> \in Relationships(collected)
          /\ IsTestOnly(collected, <<d, c>>) = FALSE
      BY <1>1 DEF IsTestOnly
    <3>2. PICK r \in SentRelationships : r.source = d /\ r.target = c /\ r.testOnly = FALSE
      BY <3>1, EveryRelationshipIsSent
    <3>3. Mapped!neighbor(Sent, d, FALSE) \in listed
      BY <1>2, <3>2
    <3>4. ~Mapped!neighbor(Sent, d, FALSE).testOnly
      BY DEF Mapped!neighbor
    <3> QED
      BY <3>3, <3>4
  <2> QED
    BY <2>1, <2>2
<1>5. N \in SUBSET Known(collected)
  BY <1>1
<1> HIDE DEF counting
<1>6. Cardinality(counting) = Cardinality(N)
  BY <1>4, <1>5, NeighboursOf
<1> QED
  BY <1>3, <1>6 DEF Afferent, N, counting, listed

LEMMA DependenciesAreListed ==
  ASSUME CountedInv, NEW c \in Known(collected)
  PROVE  LET listed == Mapped!dependencies(Sent, SentRelationships, c) IN
           /\ Cardinality({n \in listed : ~n.testOnly}) = Efferent(collected, c)
           /\ \A n \in listed : n.known
<1> DEFINE listed == Mapped!dependencies(Sent, SentRelationships, c)
           counting == {n \in listed : ~n.testOnly}
           N == ProductionDependencies(collected)[c]
<1>1. N = {d \in Known(collected) : <<c, d>> \in Relationships(collected)
                                    /\ ~IsTestOnly(collected, <<c, d>>)}
  BY DEF ProductionDependencies
<1>2. listed = {Mapped!neighbor(Sent, r.target, r.testOnly) :
                  r \in {s \in SentRelationships : s.source = c}}
  <2>1. {s \in Mapped!selectedRelationships(SentRelationships, c) : s.source = c}
          = {s \in SentRelationships : s.source = c}
    BY SelectedAreNamed
  <2> QED
    BY <2>1 DEF Mapped!dependencies
<1> HIDE DEF listed, N
<1>3. ASSUME NEW n \in listed
      PROVE  \E d \in Known(collected) :
               /\ n = Mapped!neighbor(Sent, d, n.testOnly) /\ n.known
               /\ <<c, d>> \in Relationships(collected)
               /\ n.testOnly = IsTestOnly(collected, <<c, d>>)
  <2>1. PICK r \in SentRelationships :
          r.source = c /\ n = Mapped!neighbor(Sent, r.target, r.testOnly)
    BY <1>2
  <2>2. /\ r.target \in Known(collected) /\ <<c, r.target>> \in Relationships(collected)
        /\ r.testOnly = IsTestOnly(collected, <<c, r.target>>)
    BY <2>1, RelationshipFields
  <2>3. n.testOnly = r.testOnly /\ n.known
    BY <2>1, <2>2, NeighboursAreKnown
  <2> QED
    BY <2>1, <2>2, <2>3
<1>4. counting = {Mapped!neighbor(Sent, d, FALSE) : d \in N}
  <2>1. ASSUME NEW n \in counting
        PROVE  \E d \in N : n = Mapped!neighbor(Sent, d, FALSE)
    <3>1. PICK d \in Known(collected) :
            /\ n = Mapped!neighbor(Sent, d, n.testOnly)
            /\ <<c, d>> \in Relationships(collected)
            /\ n.testOnly = IsTestOnly(collected, <<c, d>>)
      BY <1>3
    <3>2. n.testOnly = FALSE
      BY <3>1 DEF IsTestOnly
    <3> QED
      BY <1>1, <3>1, <3>2
  <2>2. ASSUME NEW d \in N
        PROVE  Mapped!neighbor(Sent, d, FALSE) \in counting
    <3>1. /\ d \in Known(collected) /\ <<c, d>> \in Relationships(collected)
          /\ IsTestOnly(collected, <<c, d>>) = FALSE
      BY <1>1 DEF IsTestOnly
    <3>2. PICK r \in SentRelationships : r.source = c /\ r.target = d /\ r.testOnly = FALSE
      BY <3>1, EveryRelationshipIsSent
    <3>3. Mapped!neighbor(Sent, d, FALSE) \in listed
      BY <1>2, <3>2
    <3>4. ~Mapped!neighbor(Sent, d, FALSE).testOnly
      BY DEF Mapped!neighbor
    <3> QED
      BY <3>3, <3>4
  <2> QED
    BY <2>1, <2>2
<1>5. N \in SUBSET Known(collected)
  BY <1>1
<1> HIDE DEF counting
<1>6. Cardinality(counting) = Cardinality(N)
  BY <1>4, <1>5, NeighboursOf
<1> QED
  BY <1>3, <1>6 DEF Efferent, N, counting, listed

(* Links of the map join what is drawn, and the drawer lists and knows as  *)
(* many neighbours as the couplings count, for every graph.                *)
THEOREM MapsAreClosed == Spec => []MapIsClosed
<1>1. CountedInv => MapIsClosed
  <2> SUFFICES ASSUME CountedInv PROVE MapIsClosed
    OBVIOUS
  <2>1. Received.components = Sent /\ Received.relationships = SentRelationships
    BY DEF Received, Sent, SentRelationships
  <2>2. \A limit \in {1, 2, Mapped!GRAPH_LAYOUT_LIMIT} : limit \in Nat
    BY DEF Mapped!GRAPH_LAYOUT_LIMIT
  <2>3. \A m \in Sent : /\ m.id \in Known(collected)
                        /\ m.afferentCoupling = Afferent(collected, m.id)
                        /\ m.efferentCoupling = Efferent(collected, m.id)
    BY DEF Sent, ComponentMessage
  <2> QED
    BY <2>1, <2>2, <2>3, LinksJoin, ImportersAreListed, DependenciesAreListed DEF MapIsClosed
<1> QED
  BY <1>1, CountedInvInit, CountedInvNext, PTL DEF Spec

-----------------------------------------------------------------------------
(* Sums of sizes *)

(* The sizes of disjoint sets add up to the size of their union. *)
LEMMA SizesAddUp ==
  ASSUME NEW T, IsFiniteSet(T), NEW F, NEW values,
         \A t \in T : IsFiniteSet(F[t]) /\ values[t] = 1 .. Cardinality(F[t]),
         \A s, t \in T : \A x \in F[s] \cap F[t] : s = t,
         NEW all, \A t \in T : F[t] \subseteq all, \A x \in all : \E t \in T : x \in F[t]
  PROVE  IsFiniteSet(all) /\ Total(values, T) = Cardinality(all)
<1> DEFINE pairs == {pair \in T \X UNION {values[t] : t \in T} : pair[2] \in values[pair[1]]}
           places(t) == CHOOSE b : b \in Bijection(values[t], F[t])
           f == [pair \in pairs |-> places(pair[1])[pair[2]]]
<1>1. ASSUME NEW t \in T
      PROVE  /\ places(t) \in Bijection(values[t], F[t]) /\ IsFiniteSet(values[t])
  <2>1. Cardinality(F[t]) \in Nat /\ ExistsBijection(1 .. Cardinality(F[t]), F[t])
    BY FS_CardinalityType
  <2>2. \E b : b \in Bijection(values[t], F[t])
    BY <2>1 DEF ExistsBijection
  <2>3. IsFiniteSet(1 .. Cardinality(F[t]))
    BY <2>1, FS_Interval
  <2> QED
    BY <2>2, <2>3
<1>2. ASSUME NEW t \in T
      PROVE  /\ places(t) \in [values[t] -> F[t]]
             /\ \A i, j \in values[t] : places(t)[i] = places(t)[j] => i = j
             /\ \A x \in F[t] : \E i \in values[t] : places(t)[i] = x
  <2> DEFINE b == places(t)
  <2>1. b \in Bijection(values[t], F[t])
    BY <1>1
  <2> HIDE DEF b
  <2>2. b \in Injection(values[t], F[t]) /\ b \in Surjection(values[t], F[t])
    BY <2>1 DEF Bijection
  <2>3. /\ b \in [values[t] -> F[t]]
        /\ \A i, j \in values[t] : b[i] = b[j] => i = j
        /\ \A x \in F[t] : \E i \in values[t] : b[i] = x
    BY <2>2 DEF Injection, Surjection, IsInjective
  <2> QED
    BY <2>3 DEF b
<1> HIDE DEF places
<1>3. \A pair \in pairs : /\ pair = <<pair[1], pair[2]>> /\ pair[1] \in T
                         /\ pair[2] \in values[pair[1]]
  OBVIOUS
<1>4. \A t \in T : \A i \in values[t] : <<t, i>> \in pairs
  OBVIOUS
<1>5. f \in [pairs -> all]
  BY <1>2, <1>3
<1>6. \A t \in T : \A i \in values[t] : f[<<t, i>>] = places(t)[i]
  BY <1>4
<1>7. IsFiniteSet(pairs)
  <2>1. IsFiniteSet(UNION {values[t] : t \in T})
    <3> DEFINE family == {values[t] : t \in T}
               g == [t \in T |-> values[t]]
    <3>1. g \in Surjection(T, family)
      BY Fun_IsSurj
    <3>2. IsFiniteSet(family)
      BY <3>1, FS_Surjection
    <3>3. \A v \in family : IsFiniteSet(v)
      BY <1>1
    <3> HIDE DEF family
    <3>4. IsFiniteSet(UNION family)
      BY <3>2, <3>3, FS_UNION
    <3> QED
      BY <3>4 DEF family
  <2>2. IsFiniteSet(T \X UNION {values[t] : t \in T})
    BY <2>1, FS_Product
  <2> QED
    BY <2>2, FS_Subset
<1> HIDE DEF pairs, f
<1>8. ASSUME NEW p \in pairs, NEW q \in pairs, f[p] = f[q] PROVE p = q
  <2>1. /\ p[1] \in T /\ q[1] \in T /\ p[2] \in values[p[1]] /\ q[2] \in values[q[1]]
        /\ f[p] = places(p[1])[p[2]] /\ f[q] = places(q[1])[q[2]]
    BY <1>3, <1>6
  <2>2. f[p] \in F[p[1]] /\ f[q] \in F[q[1]]
    BY <1>2, <2>1
  <2>3. p[1] = q[1]
    BY <1>8, <2>1, <2>2
  <2> DEFINE t == p[1]
  <2>4. t \in T /\ p[2] \in values[t] /\ q[2] \in values[t]
    BY <2>1, <2>3
  <2>5. places(t)[p[2]] = places(t)[q[2]]
    BY <1>8, <2>1, <2>3
  <2>6. p[2] = q[2]
    <3> HIDE DEF t
    <3> QED
      BY <1>2, <2>4, <2>5
  <2> QED
    BY <1>3, <2>3, <2>6
<1>9. ASSUME NEW x \in all PROVE \E p \in pairs : f[p] = x
  <2>1. PICK t \in T : x \in F[t]
    OBVIOUS
  <2>2. PICK i \in values[t] : places(t)[i] = x
    BY <1>2, <2>1
  <2> QED
    BY <1>4, <1>6, <2>2
<1>10. \A p, q \in pairs : f[p] = f[q] => p = q
  BY <1>8
<1>11. IsFiniteSet(all) /\ Cardinality(all) = Cardinality(pairs)
  BY <1>5, <1>7, <1>9, <1>10, SameSize
<1> QED
  BY <1>11 DEF Total, pairs

-----------------------------------------------------------------------------
(* What a graph reports, also after a policy *)

Severity(rule) == IF rule = "configured-dependency" THEN "error" ELSE "warning"

(* What every finding is, whoever reported it. *)
IsFound(f) ==
  \/ \E e \in Relationships(collected), rule \in RuleIdentifiers :
       f = RelationshipFinding(rule, Severity(rule), e)
  \/ \E rule \in RuleIdentifiers, components \in SUBSET Known(collected),
        severity \in {"error", "warning"} :
       f = ComponentsFinding(rule, severity, components)

JudgedInv ==
  IsBuilt =>
    /\ DOMAIN graph.violations = Relationships(collected)
    /\ graph.summary = Summary(graph.violations, graph.findings)
    /\ graph.cycles = Cycles(ProductionDependencies(collected))
    /\ graph.applications =
         [c \in Known(collected) |-> UsingApplications(collected, collected.describe, c)]
    /\ IsFiniteSet(graph.findings) /\ \A f \in graph.findings : IsFound(f)

ReportedInv == CountedInv /\ JudgedInv

LEMMA RelationshipsAreFinite ==
  ASSUME NEW data, IsCounted(data)
  PROVE  IsFiniteSet(Relationships(data))
BY FS_Product, FS_Subset DEF IsCounted

LEMMA CyclesAreFinite ==
  ASSUME NEW data, IsCounted(data)
  PROVE  LET cycles == Cycles(ProductionDependencies(data)) IN
           cycles \subseteq SUBSET Known(data) /\ IsFiniteSet(cycles)
<1> DEFINE cycles == Cycles(ProductionDependencies(data))
<1>1. DOMAIN ProductionDependencies(data) = Known(data)
  BY DEF ProductionDependencies
<1>2. cycles \subseteq SUBSET Known(data)
  BY <1>1 DEF Cycles, CycleOf, Reachable
<1>3. IsFiniteSet(SUBSET Known(data))
  BY FS_SUBSET DEF IsCounted
<1> QED
  BY <1>2, <1>3, FS_Subset

LEMMA RulesAreIdentified ==
  ASSUME NEW data, NEW describe, NEW edge
  PROVE  /\ BrokenRules(data, describe, edge) \subseteq RuleIdentifiers
         /\ "configured-dependency" \notin BrokenRules(data, describe, edge)
BY DEF BrokenRules, RuleIdentifiers

LEMMA FindingsAreFound ==
  ASSUME IsCounted(collected), NEW describe
  PROVE  LET findings == Findings(collected, describe) IN
           IsFiniteSet(findings) /\ \A f \in findings : IsFound(f)
<1> DEFINE K == Known(collected)
           cycles == Cycles(ProductionDependencies(collected))
           ofCycles == {ComponentsFinding("dependency-cycle", "error", cycle) : cycle \in cycles}
           stable == {d \in K : IsStableWithLowAbstraction(collected, d)}
           ofStable == {ComponentsFinding("stable-component-low-abstraction", "warning", {c}) :
                          c \in stable}
           judged == {e \in Relationships(collected) : IsJudged(collected, e)}
           of(edge) == {RelationshipFinding(rule, "warning", edge) :
                          rule \in BrokenRules(collected, describe, edge)}
           ofEdges == UNION {of(edge) : edge \in judged}
<1>1. Findings(collected, describe) = ofCycles \cup ofStable \cup ofEdges
  BY DEF Findings
<1>2. IsFiniteSet(ofCycles)
  <2> DEFINE f == [cycle \in cycles |-> ComponentsFinding("dependency-cycle", "error", cycle)]
  <2>1. IsFiniteSet(cycles)
    BY CyclesAreFinite
  <2>2. DOMAIN f = cycles /\ ofCycles = {f[cycle] : cycle \in cycles}
    OBVIOUS
  <2> HIDE DEF f, cycles, ofCycles
  <2> QED
    BY <2>1, <2>2, ImageIsFinite
<1>3. IsFiniteSet(ofStable)
  <2> DEFINE f == [c \in stable |->
                     ComponentsFinding("stable-component-low-abstraction", "warning", {c})]
  <2>1. IsFiniteSet(stable)
    BY FS_Subset DEF IsCounted
  <2>2. DOMAIN f = stable /\ ofStable = {f[c] : c \in stable}
    OBVIOUS
  <2> HIDE DEF f, stable, ofStable
  <2> QED
    BY <2>1, <2>2, ImageIsFinite
<1>4. IsFiniteSet(RuleIdentifiers)
  <2>1. /\ IsFiniteSet({"dependency-cycle"}) /\ IsFiniteSet({"stable-component-low-abstraction"})
        /\ IsFiniteSet({"stable-dependency-principle"})
        /\ IsFiniteSet({"production-imports-development"})
        /\ IsFiniteSet({"library-imports-feature"})
        /\ IsFiniteSet({"shared-component-imports-application"})
        /\ IsFiniteSet({"cross-application-module-import"})
        /\ IsFiniteSet({"configured-dependency"})
    BY FS_Singleton
  <2> DEFINE a == {"dependency-cycle"} \cup {"stable-component-low-abstraction"}
             b == {"stable-dependency-principle"} \cup {"production-imports-development"}
             c == {"library-imports-feature"} \cup {"shared-component-imports-application"}
             d == {"cross-application-module-import"} \cup {"configured-dependency"}
  <2>2. IsFiniteSet(a) /\ IsFiniteSet(b) /\ IsFiniteSet(c) /\ IsFiniteSet(d)
    BY <2>1, FS_Union
  <2>3. RuleIdentifiers = (a \cup b) \cup (c \cup d)
    BY DEF RuleIdentifiers
  <2> HIDE DEF a, b, c, d
  <2> QED
    BY <2>2, <2>3, FS_Union
<1>5. ASSUME NEW edge PROVE IsFiniteSet(of(edge))
  <2> DEFINE rules == BrokenRules(collected, describe, edge)
             f == [rule \in rules |-> RelationshipFinding(rule, "warning", edge)]
  <2>1. IsFiniteSet(rules)
    BY <1>4, RulesAreIdentified, FS_Subset
  <2>2. DOMAIN f = rules /\ of(edge) = {f[rule] : rule \in rules}
    OBVIOUS
  <2> HIDE DEF f, rules, of
  <2> QED
    BY <2>1, <2>2, ImageIsFinite
<1>6. IsFiniteSet(ofEdges)
  <2> DEFINE family == {of(edge) : edge \in judged}
             f == [edge \in judged |-> of(edge)]
  <2>1. IsFiniteSet(judged)
    BY RelationshipsAreFinite, FS_Subset
  <2>2. DOMAIN f = judged /\ family = {f[edge] : edge \in judged}
    OBVIOUS
  <2> HIDE DEF f, judged, family
  <2>3. IsFiniteSet(family)
    BY <2>1, <2>2, ImageIsFinite
  <2>4. \A T \in family : IsFiniteSet(T)
    BY <1>5 DEF family
  <2>5. IsFiniteSet(UNION family)
    BY <2>3, <2>4, FS_UNION
  <2> QED
    BY <2>5 DEF family
<1>7. ASSUME NEW f \in ofCycles PROVE IsFound(f)
  <2>1. PICK cycle \in cycles : f = ComponentsFinding("dependency-cycle", "error", cycle)
    OBVIOUS
  <2>2. cycle \in SUBSET K
    BY CyclesAreFinite
  <2>3. "dependency-cycle" \in RuleIdentifiers
    BY DEF RuleIdentifiers
  <2> QED
    BY <2>1, <2>2, <2>3 DEF IsFound
<1>8. ASSUME NEW f \in ofStable PROVE IsFound(f)
  <2>1. PICK c \in K : f = ComponentsFinding("stable-component-low-abstraction", "warning", {c})
    OBVIOUS
  <2>2. {c} \in SUBSET K
    OBVIOUS
  <2>3. "stable-component-low-abstraction" \in RuleIdentifiers
    BY DEF RuleIdentifiers
  <2> QED
    BY <2>1, <2>2, <2>3 DEF IsFound
<1>9. ASSUME NEW f \in ofEdges PROVE IsFound(f)
  <2>1. PICK e \in Relationships(collected) :
          \E rule \in BrokenRules(collected, describe, e) :
            f = RelationshipFinding(rule, "warning", e)
    OBVIOUS
  <2>2. PICK rule \in BrokenRules(collected, describe, e) :
          f = RelationshipFinding(rule, "warning", e)
    BY <2>1
  <2>3. rule \in RuleIdentifiers /\ Severity(rule) = "warning"
    BY RulesAreIdentified DEF Severity
  <2> QED
    BY <2>2, <2>3 DEF IsFound
<1> HIDE DEF ofCycles, ofStable, ofEdges
<1>10. IsFiniteSet(ofCycles \cup ofStable \cup ofEdges)
  BY <1>2, <1>3, <1>6, FS_Union
<1> QED
  BY <1>1, <1>7, <1>8, <1>9, <1>10

LEMMA JudgedByGraph ==
  ASSUME CountedInv, phase = "built" PROVE JudgedInv
<1>1. graph = Graph(collected, collected.describe)
  BY DEF CountedInv, GraphInv
<1>2. /\ DOMAIN graph.violations = Relationships(collected)
      /\ graph.summary = Summary(graph.violations, graph.findings)
      /\ graph.cycles = Cycles(ProductionDependencies(collected))
      /\ graph.applications =
           [c \in Known(collected) |-> UsingApplications(collected, collected.describe, c)]
      /\ graph.findings = Findings(collected, collected.describe)
  BY <1>1 DEF Graph, Violations
<1> QED
  BY <1>2, FindingsAreFound DEF JudgedInv, CountedInv

LEMMA JudgedByPolicy ==
  ASSUME CountedInv, phase = "built", NEW policy
  PROVE  LET new == WithPolicy(policy) IN
           /\ DOMAIN new.violations = Relationships(collected)
           /\ new.summary = Summary(new.violations, new.findings)
           /\ new.cycles = graph.cycles /\ new.applications = graph.applications
           /\ IsFiniteSet(new.findings) /\ \A f \in new.findings : IsFound(f)
<1> DEFINE new == WithPolicy(policy)
           refused == {e \in Relationships(collected) : ~IsNoop(policy) /\ Refuses(policy, e)}
           added == {RelationshipFinding("configured-dependency", "error", e) : e \in refused}
<1>1. graph = Graph(collected, collected.describe)
  BY DEF CountedInv, GraphInv
<1>2. /\ DOMAIN new.violations = Relationships(collected)
      /\ new.summary = Summary(new.violations, new.findings)
      /\ new.cycles = graph.cycles /\ new.applications = graph.applications
      /\ new.findings = graph.findings \cup added
  BY <1>1 DEF WithPolicy, Graph, SummaryAfter
<1>3. IsFiniteSet(graph.findings) /\ \A f \in graph.findings : IsFound(f)
  BY JudgedByGraph DEF JudgedInv, IsBuilt
<1> HIDE DEF new
<1>4. IsFiniteSet(added)
  <2> DEFINE f == [e \in refused |-> RelationshipFinding("configured-dependency", "error", e)]
  <2>1. IsFiniteSet(refused)
    BY RelationshipsAreFinite, FS_Subset DEF CountedInv
  <2>2. DOMAIN f = refused /\ added = {f[e] : e \in refused}
    OBVIOUS
  <2> HIDE DEF f, refused, added
  <2> QED
    BY <2>1, <2>2, ImageIsFinite
<1>5. ASSUME NEW f \in added PROVE IsFound(f)
  <2>1. PICK e \in Relationships(collected) :
          f = RelationshipFinding("configured-dependency", "error", e)
    OBVIOUS
  <2>2. "configured-dependency" \in RuleIdentifiers /\ Severity("configured-dependency") = "error"
    BY DEF RuleIdentifiers, Severity
  <2> QED
    BY <2>1, <2>2 DEF IsFound
<1> HIDE DEF added
<1>6. IsFiniteSet(graph.findings \cup added)
  BY <1>3, <1>4, FS_Union
<1> QED
  BY <1>2, <1>3, <1>5, <1>6 DEF new

LEMMA ReportedInvInit == Init => ReportedInv
BY CountedInvInit DEF Init, ReportedInv, JudgedInv, IsBuilt

LEMMA ReportedInvNext == ReportedInv /\ [Next]_vars => ReportedInv'
<1> SUFFICES ASSUME ReportedInv, [Next]_vars PROVE ReportedInv'
  OBVIOUS
<1>1. CountedInv'
  BY CountedInvNext DEF ReportedInv
<1>2. CASE Collect
  BY <1>1, <1>2 DEF Collect, ReportedInv, JudgedInv, IsBuilt
<1>3. CASE BuildGraph
  <2>1. phase' = "built"
    BY <1>3 DEF BuildGraph
  <2>2. (CountedInv /\ phase = "built" => JudgedInv)'
    BY JudgedByGraph, PTL
  <2> QED
    BY <1>1, <2>1, <2>2 DEF ReportedInv
<1>4. ASSUME NEW policy \in Policies, ApplyPolicy(policy)
      PROVE  ReportedInv'
  <2>1. /\ phase = "built" /\ UNCHANGED <<repository, read, collected>>
        /\ phase' \in {"judged", "failed"}
        /\ phase' = "judged" => graph' = WithPolicy(policy)
    BY <1>4 DEF ApplyPolicy
  <2>2. CASE phase' = "failed"
    BY <1>1, <2>2 DEF ReportedInv, JudgedInv, IsBuilt
  <2>3. CASE phase' = "judged"
    <3>1. JudgedInv'
      <4>1. CountedInv /\ JudgedInv /\ IsBuilt
        BY <2>1 DEF ReportedInv, IsBuilt
      <4>2. \A f : IsFound(f)' <=> IsFound(f)
        BY <2>1 DEF IsFound, Known, Relationships
      <4> QED
        BY <2>1, <2>3, <4>1, <4>2, JudgedByPolicy DEF JudgedInv, Known, Relationships
    <3> QED
      BY <1>1, <3>1 DEF ReportedInv
  <2> QED
    BY <2>1, <2>2, <2>3
<1>5. CASE UNCHANGED vars
  <2>1. JudgedInv'
    BY <1>5 DEF vars, ReportedInv, JudgedInv, IsBuilt, IsFound, Known, Relationships
  <2> QED
    BY <1>1, <2>1 DEF ReportedInv
<1> QED
  BY <1>2, <1>3, <1>4, <1>5 DEF Next

-----------------------------------------------------------------------------
(* The numbers of the pages *)

(* Annotations and findings about relationships are one and the same count,*)
(* because a finding is determined by its rule and its relationship.       *)
LEMMA AnnotationsAreCounted ==
  ASSUME ReportedInv, IsBuilt
  PROVE  LET about == {f \in graph.findings : f.source # NoComponent} IN
           graph.summary.relationshipRuleViolations = Cardinality(about)
<1> DEFINE about == {f \in graph.findings : f.source # NoComponent}
           violations == graph.violations
           edges == DOMAIN violations
           pairs == {pair \in edges \X UNION {violations[e] : e \in edges} :
                       pair[2] \in violations[pair[1]]}
           relate == [f \in about |-> <<<<f.source, f.target>>, f.rule>>]
<1>1. /\ edges = Relationships(collected) /\ graph.summary = Summary(violations, graph.findings)
      /\ IsFiniteSet(graph.findings) /\ \A f \in graph.findings : IsFound(f)
  BY DEF ReportedInv, JudgedInv
<1>2. edges \subseteq Components \X Components
  BY <1>1 DEF ReportedInv, CountedInv, IsCounted
<1>3. \A e \in edges :
        violations[e] = {f.rule : f \in {g \in graph.findings : <<g.source, g.target>> = e}}
  BY GraphIsAnnotated DEF ReportedInv, CountedInv, FindingsAreAnnotated
<1>4. graph.summary.relationshipRuleViolations = Cardinality(pairs)
  BY <1>1 DEF Summary, Total
<1>5. ASSUME NEW f \in about
      PROVE  /\ <<f.source, f.target>> \in edges
             /\ f = RelationshipFinding(f.rule, Severity(f.rule), <<f.source, f.target>>)
  <2>1. CASE \E e \in Relationships(collected), rule \in RuleIdentifiers :
               f = RelationshipFinding(rule, Severity(rule), e)
    <3>1. PICK e \in Relationships(collected), rule \in RuleIdentifiers :
                 f = RelationshipFinding(rule, Severity(rule), e)
      BY <2>1
    <3>2. e = <<e[1], e[2]>> /\ f.rule = rule /\ f.source = e[1] /\ f.target = e[2]
      BY <1>1, <1>2, <3>1 DEF RelationshipFinding
    <3> QED
      BY <1>1, <3>1, <3>2
  <2>2. CASE \E rule, components, severity : f = ComponentsFinding(rule, severity, components)
    BY <2>2 DEF ComponentsFinding
  <2> QED
    BY <1>1, <2>1, <2>2 DEF IsFound
<1> HIDE DEF violations, edges
<1>6. ASSUME NEW f \in about PROVE relate[f] \in pairs
  <2>1. f \in graph.findings /\ relate[f] = <<<<f.source, f.target>>, f.rule>>
    OBVIOUS
  <2>2. <<f.source, f.target>> \in edges /\ f.rule \in violations[<<f.source, f.target>>]
    BY <1>3, <1>5, <2>1
  <2> QED
    BY <2>1, <2>2
<1>7. ASSUME NEW pair \in pairs PROVE \E f \in about : relate[f] = pair
  <2>1. pair[1] \in edges /\ pair[2] \in violations[pair[1]] /\ pair = <<pair[1], pair[2]>>
    OBVIOUS
  <2>2. PICK f \in graph.findings : <<f.source, f.target>> = pair[1] /\ f.rule = pair[2]
    BY <1>3, <2>1
  <2>3. f.source # NoComponent
    BY <1>2, <2>1, <2>2, ComponentAssumption
  <2>4. f \in about /\ relate[f] = <<<<f.source, f.target>>, f.rule>>
    BY <2>2, <2>3
  <2> QED
    BY <2>1, <2>2, <2>4
<1>8. ASSUME NEW f \in about, NEW g \in about, relate[f] = relate[g] PROVE f = g
  <2>1. <<f.source, f.target>> = <<g.source, g.target>> /\ f.rule = g.rule
    BY <1>8
  <2> QED
    BY <1>5, <2>1
<1>9. IsFiniteSet(about)
  BY <1>1, FS_Subset
<1>10. relate \in [about -> pairs]
  BY <1>6
<1> HIDE DEF relate, pairs, about
<1>11. Cardinality(pairs) = Cardinality(about)
  BY <1>7, <1>8, <1>9, <1>10, SameSize
<1> QED
  BY <1>4, <1>11 DEF about

(* The zones are told apart, and a count of some of them is a count of     *)
(* their components.                                                       *)
LEMMA ZonesAddUp ==
  ASSUME CountedInv, NEW named \in SUBSET Weighed!Zones
  PROVE  LET zones == Range(Weighed!summarizeZones(Sent)) IN
           Total([z \in zones |-> 1 .. z.count], {z \in zones : z.zone \in named})
             = Cardinality(Weighed!In(named, Sent))
<1> DEFINE zones == Range(Weighed!summarizeZones(Sent))
           summarized(zone) == [zone |-> zone, count |-> Cardinality(Weighed!In({zone}, Sent))]
           values == [z \in zones |-> 1 .. z.count]
           some == {z \in zones : z.zone \in named}
           F == [z \in zones |-> Weighed!In({z.zone}, Sent)]
<1>1. zones = {summarized(zone) : zone \in Weighed!Zones}
  <2>1. DOMAIN Weighed!summarizeZones(Sent) = 1 .. Len(Weighed!ZONE_ORDER)
    BY DEF Weighed!summarizeZones
  <2>2. \A z \in 1 .. Len(Weighed!ZONE_ORDER) :
          Weighed!summarizeZones(Sent)[z] = summarized(Weighed!ZONE_ORDER[z])
    BY CountedAlike DEF Weighed!summarizeZones
  <2> HIDE DEF summarized
  <2> QED
    BY <2>1, <2>2 DEF Range, Weighed!Zones
<1>2. \A zone : summarized(zone).zone = zone
                /\ summarized(zone).count = Cardinality(Weighed!In({zone}, Sent))
  OBVIOUS
<1> HIDE DEF summarized
<1>3. \A z \in zones : z.zone \in Weighed!Zones /\ z = summarized(z.zone)
  BY <1>1, <1>2
<1>4. IsFiniteSet(zones)
  <2> DEFINE places == 1 .. Len(Weighed!ZONE_ORDER)
             f == [i \in places |-> Weighed!summarizeZones(Sent)[i]]
  <2>1. IsFiniteSet(places)
    <3>1. places = 1 .. 6
      BY DEF Weighed!ZONE_ORDER
    <3>2. IsFiniteSet(1 .. 6)
      BY IntervalIsFinite
    <3> QED
      BY <3>1, <3>2
  <2>2. DOMAIN f = places /\ zones = {f[i] : i \in places}
    BY DEF Range, Weighed!summarizeZones
  <2> HIDE DEF f, places, zones
  <2> QED
    BY <2>1, <2>2, ImageIsFinite
<1> HIDE DEF zones
<1>5. \A z \in some : F[z] = Weighed!In({z.zone}, Sent) /\ F[z] \subseteq Sent
                      /\ values[z] = 1 .. z.count
  BY DEF Weighed!In
<1>6. \A z \in some : IsFiniteSet(F[z]) /\ values[z] = 1 .. Cardinality(F[z])
  BY <1>2, <1>3, <1>5, SentIsFinite, FS_Subset
<1>7. ASSUME NEW z \in some, NEW y \in some, NEW m \in F[z] \cap F[y] PROVE z = y
  <2>1. Weighed!readMetrics(m) = z.zone /\ Weighed!readMetrics(m) = y.zone
    BY <1>5 DEF Weighed!In
  <2> QED
    BY <1>3, <2>1
<1>8. /\ \A z \in some : F[z] \subseteq Weighed!In(named, Sent)
      /\ \A m \in Weighed!In(named, Sent) : \E z \in some : m \in F[z]
  <2>1. ASSUME NEW m \in Weighed!In(named, Sent) PROVE \E z \in some : m \in F[z]
    <3> DEFINE zone == Weighed!readMetrics(m)
    <3>1. m \in Sent /\ zone \in named
      BY DEF Weighed!In
    <3>2. summarized(zone) \in zones /\ summarized(zone).zone = zone
      BY <1>1, <1>2, <3>1
    <3>3. summarized(zone) \in some
      BY <3>1, <3>2
    <3>4. m \in F[summarized(zone)]
      BY <1>5, <3>1, <3>2, <3>3 DEF Weighed!In
    <3> QED
      BY <3>3, <3>4
  <2>2. ASSUME NEW z \in some, NEW m \in F[z] PROVE m \in Weighed!In(named, Sent)
    BY <1>5 DEF Weighed!In
  <2> HIDE DEF some, F
  <2> QED
    BY <2>1, <2>2
<1>9. IsFiniteSet(some)
  BY <1>4, FS_Subset
<1> HIDE DEF some, F, values
<1>10. Total(values, some) = Cardinality(Weighed!In(named, Sent))
  BY <1>6, <1>7, <1>8, <1>9, SizesAddUp
<1> QED
  BY <1>10 DEF some, values, zones

(* Every component is in one of the zones. *)
LEMMA EveryZoneIsNamed ==
  ASSUME CountedInv, NEW m \in Sent
  PROVE  /\ Weighed!readMetrics(m) \in Weighed!Zones
         /\ Weighed!readMetrics(m) \in Weighed!Unbalanced => m.afferentCoupling > 0
<1>1. m.afferentCoupling \in Nat
  BY MessageFields
<1>2. Weighed!Zones = {"pain", "useless", "drifting", "balanced", "free", "isolated"}
  <2>1. 1 .. Len(Weighed!ZONE_ORDER) = {1, 2, 3, 4, 5, 6}
    BY DEF Weighed!ZONE_ORDER
  <2> QED
    BY <2>1 DEF Weighed!Zones, Weighed!ZONE_ORDER
<1>3. CASE Weighed!IsIsolated(m)
  <2>1. Weighed!readMetrics(m) = "isolated"
    <3>1. m.afferentCoupling = 0
      BY <1>3, MessageFields DEF Weighed!IsIsolated
    <3> QED
      BY <1>3, <3>1 DEF Weighed!readMetrics
  <2> QED
    BY <1>2, <2>1 DEF Weighed!Unbalanced
<1>4. CASE ~Weighed!IsIsolated(m) /\ m.afferentCoupling = 0
  <2>1. Weighed!readMetrics(m) = "free"
    BY <1>4 DEF Weighed!readMetrics
  <2> QED
    BY <1>2, <2>1 DEF Weighed!Unbalanced
<1>5. CASE ~Weighed!IsIsolated(m) /\ m.afferentCoupling > 0
  <2>1. Weighed!readMetrics(m) \in {"pain", "useless", "balanced", "drifting"}
    <3>1. CASE Weighed!IsPainful(m)
      BY <1>5, <3>1 DEF Weighed!readMetrics
    <3>2. CASE ~Weighed!IsPainful(m)
      BY <1>5, <3>2 DEF Weighed!readMetrics
    <3> QED
      BY <3>1, <3>2
  <2> QED
    BY <1>2, <1>5, <2>1
<1> QED
  BY <1>1, <1>3, <1>4, <1>5

(* The ranking lists different components, all of them out of balance. *)
LEMMA RankingIsOfUnbalanced ==
  ASSUME CountedInv
  PROVE  LET out == Weighed!In(Weighed!Unbalanced, Sent)
             ranked == Weighed!Ranked(Sent, Weighed!RANKING_LIMIT)
             m == Least(Weighed!RANKING_LIMIT, Cardinality(out)) IN
           /\ m \in Nat /\ DOMAIN ranked = 1 .. m
           /\ \A i \in 1 .. m : /\ ranked[i] \in Sent
                                /\ Weighed!readMetrics(ranked[i]) \in Weighed!Unbalanced
           /\ \A i, j \in 1 .. m : ranked[i].id = ranked[j].id => i = j
<1> DEFINE out == Weighed!In(Weighed!Unbalanced, Sent)
           before == Weighed!ByRisk(Sent)
           limit == Weighed!RANKING_LIMIT
           top == Top(out, before, limit)
           m == Least(limit, Cardinality(out))
<1>1. out \subseteq Sent /\ \A x \in out : Weighed!readMetrics(x) \in Weighed!Unbalanced
  BY DEF Weighed!In
<1>2. IsFiniteSet(out)
  BY <1>1, SentIsFinite, FS_Subset
<1>3. limit \in Nat
  BY DEF Weighed!RANKING_LIMIT
<1>4. Weighed!Ranked(Sent, limit) = top
  BY SortedAlike DEF Weighed!Ranked
<1> HIDE DEF out, before, limit
<1>5. IsStrictOrder(out, before)
  <2>1. IsStrictOrder(Sent, before)
    BY RiskIsStrict DEF before
  <2> QED
    BY <1>1, <2>1 DEF IsStrictOrder
<1>6. /\ m \in Nat /\ DOMAIN top = 1 .. m /\ top \in [1 .. m -> out]
      /\ \A i, j \in 1 .. m : top[i] = top[j] => i = j
  BY <1>2, <1>3, <1>5, TopIsFirst
<1> HIDE DEF top, m
<1>7. \A i \in 1 .. m : top[i] \in out /\ top[i] \in Sent
  BY <1>1, <1>6
<1>8. \A i, j \in 1 .. m : top[i].id = top[j].id => i = j
  <2>1. \A x, y \in Sent : x.id = y.id => x = y
    BY MessageFields
  <2> QED
    BY <1>6, <1>7, <2>1
<1> QED
  BY <1>1, <1>4, <1>6, <1>7, <1>8 DEF out, m, limit

(* A component that is named like no other of the ranking has its name as  *)
(* a label, which the identifier of another can only be if it is also its  *)
(* name.                                                                   *)
LEMMA LabelsDiffer ==
  ASSUME CountedInv,
         NEW m \in Nat, NEW ranked, DOMAIN ranked = 1 .. m,
         \A i \in 1 .. m : ranked[i] \in Sent,
         \A i, j \in 1 .. m : ranked[i].id = ranked[j].id => i = j,
         NEW i \in 1 .. m, NEW j \in 1 .. m, Weighed!Label(ranked, i) = Weighed!Label(ranked, j)
  PROVE  i = j
<1> DEFINE shared(k) == \E l \in DOMAIN ranked \ {k} : ranked[l].name = ranked[k].name
<1>1. ASSUME NEW k \in 1 .. m
      PROVE  Weighed!Label(ranked, k) = IF shared(k) THEN ranked[k].id ELSE <<ranked[k].name>>
  BY DEF Weighed!Label
<1>2. ASSUME NEW k \in 1 .. m
      PROVE  /\ ranked[k].id \in Components /\ ranked[k].id \in Seq(STRING)
             /\ Len(ranked[k].id) = 1 => ranked[k].id = <<ranked[k].name>>
  <2> DEFINE c == ranked[k].id
  <2>1. c \in Components /\ c \in Known(collected) /\ ranked[k] = ComponentMessage(c)
    BY MessageFields
  <2>2. ranked[k].name = collected.describe[c].name
    BY <2>1 DEF ComponentMessage
  <2> HIDE DEF c
  <2>4. Len(c) = 1 => c = <<collected.describe[c].name>>
    BY <2>1 DEF CountedInv, IsDescribed, IsDescription
  <2>5. c \in Seq(STRING)
    BY <2>1, PathAssumption
  <2> QED
    BY <2>1, <2>2, <2>4, <2>5 DEF c
<1>3. ASSUME NEW k \in 1 .. m, NEW l \in 1 .. m, shared(k), ~shared(l),
             Weighed!Label(ranked, k) = Weighed!Label(ranked, l)
      PROVE  FALSE
  <2>1. ranked[k].id = <<ranked[l].name>>
    BY <1>1, <1>3
  <2>2. Len(ranked[k].id) = 1
    BY <2>1
  <2>3. <<ranked[k].name>> = <<ranked[l].name>>
    BY <1>2, <2>1, <2>2
  <2>4. ranked[k].name = ranked[l].name /\ k # l
    BY <1>3, <2>3
  <2> QED
    BY <1>3, <2>4
<1>4. CASE shared(i) /\ shared(j)
  BY <1>1, <1>4
<1>5. CASE ~shared(i) /\ ~shared(j)
  <2>1. <<ranked[i].name>> = <<ranked[j].name>>
    BY <1>1, <1>5
  <2>2. ranked[i].name = ranked[j].name
    BY <2>1
  <2> QED
    BY <1>5, <2>2
<1> QED
  BY <1>3, <1>4, <1>5

(* Every entry has a bar of its own. *)
LEMMA BarsAreTheirOwn ==
  ASSUME CountedInv
  PROVE  LET out == Weighed!In(Weighed!Unbalanced, Sent)
             entries == Weighed!rankOffenders(Sent, Weighed!RANKING_LIMIT)
             bars == Weighed!createBalanceRankingChart(entries) IN
           /\ \A i \in DOMAIN entries : Weighed!IsBalanceEntry(entries[i])
           /\ Len(entries) = Least(Weighed!RANKING_LIMIT, Cardinality(out))
           /\ UNION Range(bars) =
                {[length |-> entries[i].dependents, selects |-> entries[i].id] :
                   i \in DOMAIN entries}
           /\ \A category \in DOMAIN bars : Cardinality(bars[category]) = 1
<1> DEFINE out == Weighed!In(Weighed!Unbalanced, Sent)
           ranked == Weighed!Ranked(Sent, Weighed!RANKING_LIMIT)
           m == Least(Weighed!RANKING_LIMIT, Cardinality(out))
           entries == Weighed!rankOffenders(Sent, Weighed!RANKING_LIMIT)
           bars == Weighed!createBalanceRankingChart(entries)
           bar(i) == [length |-> entries[i].dependents, selects |-> entries[i].id]
           of(category) == {bar(i) : i \in {j \in DOMAIN entries : entries[j].label = category}}
<1>1. /\ m \in Nat /\ DOMAIN ranked = 1 .. m
      /\ \A i \in 1 .. m : /\ ranked[i] \in Sent
                           /\ Weighed!readMetrics(ranked[i]) \in Weighed!Unbalanced
      /\ \A i, j \in 1 .. m : ranked[i].id = ranked[j].id => i = j
  BY RankingIsOfUnbalanced
<1>2. entries = [i \in 1 .. m |->
                   [id |-> ranked[i].id, label |-> Weighed!Label(ranked, i),
                    zone |-> Weighed!readMetrics(ranked[i]),
                    distance |-> ranked[i].mainSequenceDistance,
                    dependents |-> ranked[i].afferentCoupling]]
  BY <1>1 DEF Weighed!rankOffenders
<1>3. bars = [category \in {entries[i].label : i \in DOMAIN entries} |-> of(category)]
  BY DEF Weighed!createBalanceRankingChart
<1> HIDE DEF entries, ranked, m, bars
<1>4. DOMAIN entries = 1 .. m /\ Len(entries) = m
  BY <1>1, <1>2
<1>5. ASSUME NEW i \in 1 .. m
      PROVE  /\ entries[i].zone = Weighed!readMetrics(ranked[i])
             /\ entries[i].dependents = ranked[i].afferentCoupling
             /\ entries[i].label = Weighed!Label(ranked, i)
  BY <1>2
<1>6. ASSUME NEW i \in 1 .. m PROVE Weighed!IsBalanceEntry(entries[i])
  <2>1. ranked[i].afferentCoupling \in Nat /\ ranked[i].afferentCoupling > 0
    BY <1>1, MessageFields, EveryZoneIsNamed
  <2> QED
    BY <1>1, <1>5, <2>1 DEF Weighed!IsBalanceEntry
<1>7. UNION Range(bars) = {bar(i) : i \in DOMAIN entries}
  <2> HIDE DEF bar
  <2>1. Range(bars) = {of(category) : category \in {entries[i].label : i \in DOMAIN entries}}
    BY <1>3 DEF Range
  <2> QED
    BY <2>1
<1>8. ASSUME NEW category \in DOMAIN bars PROVE Cardinality(bars[category]) = 1
  <2>1. PICK i \in 1 .. m : entries[i].label = category
    BY <1>3, <1>4
  <2>2. \A j \in 1 .. m : entries[j].label = category => j = i
    BY <1>1, <1>5, <2>1, LabelsDiffer
  <2>3. bars[category] = {bar(i)}
    <3> HIDE DEF bar
    <3> QED
      BY <1>3, <1>4, <2>1, <2>2
  <2> QED
    BY <2>3, FS_Singleton
<1> QED
  BY <1>4, <1>6, <1>7, <1>8 DEF entries, bars, m

(* The counters of the overview, the findings and the balance page agree.  *)
THEOREM CountersAgree == Spec => []PagesAgree
<1>1. ReportedInv => PagesAgree
  <2> SUFFICES ASSUME ReportedInv, IsBuilt PROVE PagesAgree
    BY DEF PagesAgree
  <2> DEFINE S == Sent
             summary == Received.summary
             found(severity) == Cardinality(Mapped!filterFindings(graph.findings, severity))
             listed(role) == Cardinality(Mapped!filterComponents(S, role, Components))
             zones == Range(Weighed!summarizeZones(S))
             counted(named) ==
               Total([z \in zones |-> 1 .. z.count], {z \in zones : z.zone \in named})
  <2>1. /\ Received.components = S /\ Received.findings = graph.findings
        /\ summary = SummaryMessage(S, SentRelationships)
    BY DEF Received, Sent, SentRelationships
  <2>2. graph.summary = Summary(graph.violations, graph.findings) /\ CountedInv
    BY DEF ReportedInv, JudgedInv
  <2>3. /\ summary.findings = graph.summary.findings /\ summary.errors = graph.summary.errors
        /\ summary.warnings = graph.summary.warnings
        /\ summary.relationshipRuleViolations = graph.summary.relationshipRuleViolations
        /\ summary.components = Cardinality(S)
        /\ summary.applications = Count(S, "role", "application")
        /\ summary.stableLowAbstractionComponents = Count(S, "isStableWithLowAbstraction", TRUE)
    BY <2>1 DEF SummaryMessage
  <2>4. /\ graph.summary.findings = Cardinality(graph.findings)
        /\ graph.summary.errors = Cardinality({f \in graph.findings : f.severity = "error"})
        /\ graph.summary.warnings = Cardinality({f \in graph.findings : f.severity = "warning"})
    BY <2>2 DEF Summary
  <2> HIDE DEF summary, S
  <2>5. /\ summary.findings = found(Mapped!EVERY_SEVERITY)
        /\ summary.errors = found("error")
        /\ summary.warnings = found("warning")
    <3>1. Mapped!filterFindings(graph.findings, Mapped!EVERY_SEVERITY) = graph.findings
      BY DEF Mapped!filterFindings
    <3>2. ASSUME NEW severity \in {"error", "warning"}
          PROVE  Mapped!filterFindings(graph.findings, severity)
                   = {f \in graph.findings : f.severity = severity}
      BY DEF Mapped!filterFindings, Mapped!EVERY_SEVERITY
    <3> QED
      BY <2>3, <2>4, <3>1, <3>2
  <2>6. /\ summary.components = listed(Mapped!EVERY_ROLE)
        /\ summary.applications = listed("application")
    <3>1. \A m \in S : m.id \in Components
      BY <2>2, MessageFields DEF S
    <3>2. Mapped!filterComponents(S, Mapped!EVERY_ROLE, Components) = S
      BY <3>1 DEF Mapped!filterComponents
    <3>3. Mapped!filterComponents(S, "application", Components)
            = {m \in S : m["role"] = "application"}
      BY <3>1 DEF Mapped!filterComponents, Mapped!EVERY_ROLE
    <3> QED
      BY <2>3, <3>2, <3>3 DEF Count
  <2>7. summary.relationshipRuleViolations =
          Cardinality({f \in graph.findings : f.source # NoComponent})
    BY <2>3, AnnotationsAreCounted
  <2>8. \A named \in SUBSET Weighed!Zones : counted(named) = Cardinality(Weighed!In(named, S))
    BY <2>2, ZonesAddUp DEF S
  <2>9. zones \subseteq Weighed!ZoneSummary
    <3>1. ASSUME NEW i \in 1 .. Len(Weighed!ZONE_ORDER)
          PROVE  Weighed!summarizeZones(S)[i] \in Weighed!ZoneSummary
      <4> DEFINE zone == Weighed!ZONE_ORDER[i]
      <4>1. zone \in Weighed!Zones
        BY DEF Weighed!Zones
      <4>2. Cardinality(Weighed!In({zone}, S)) \in Nat
        BY <2>2, SentIsFinite, FS_Subset, FS_CardinalityType DEF Weighed!In, S
      <4>3. Weighed!summarizeZones(S)[i]
              = [zone |-> zone, count |-> Cardinality(Weighed!In({zone}, S))]
        BY CountedAlike DEF Weighed!summarizeZones
      <4> QED
        BY <4>1, <4>2, <4>3 DEF Weighed!ZoneSummary
    <3>2. DOMAIN Weighed!summarizeZones(S) = 1 .. Len(Weighed!ZONE_ORDER)
      BY DEF Weighed!summarizeZones
    <3> QED
      BY <3>1, <3>2 DEF Range
  <2>10. counted(Weighed!Zones) = summary.components
    <3>1. Weighed!In(Weighed!Zones, S) = S
      BY <2>2, EveryZoneIsNamed DEF Weighed!In, S
    <3> QED
      BY <2>3, <2>8, <3>1
  <2>11. counted({"pain"}) = summary.stableLowAbstractionComponents
    <3>1. "pain" \in Weighed!Zones
      BY DEF Weighed!Zones, Weighed!ZONE_ORDER
    <3>2. ASSUME NEW m \in S
          PROVE  Weighed!readMetrics(m) = "pain" <=> m["isStableWithLowAbstraction"] = TRUE
      <4>1. m = ComponentMessage(m.id) /\ m.id \in Known(collected)
        BY <2>2, MessageFields DEF S
      <4>2. m.isStableWithLowAbstraction = IsStableWithLowAbstraction(collected, m.id)
        BY <4>1 DEF ComponentMessage
      <4>3. IsStableWithLowAbstraction(collected, m.id) \in BOOLEAN
        BY DEF IsStableWithLowAbstraction
      <4> QED
        BY <2>2, <4>1, <4>2, <4>3, PainIsStable DEF CountedInv
    <3>3. Weighed!In({"pain"}, S) = {m \in S : m["isStableWithLowAbstraction"] = TRUE}
      BY <3>2 DEF Weighed!In
    <3> QED
      BY <2>3, <2>8, <3>1, <3>3 DEF Count
  <2>12. Weighed!Unbalanced \in SUBSET Weighed!Zones
    <3>1. 1 .. Len(Weighed!ZONE_ORDER) = {1, 2, 3, 4, 5, 6}
      BY DEF Weighed!ZONE_ORDER
    <3> QED
      BY <3>1 DEF Weighed!Unbalanced, Weighed!Zones, Weighed!ZONE_ORDER
  <2>13. counted(Weighed!Unbalanced) = Cardinality(Weighed!In(Weighed!Unbalanced, S))
    BY <2>8, <2>12
  <2> HIDE DEF found, listed, counted
  <2> QED
    BY <2>1, <2>2, <2>5, <2>6, <2>7, <2>9, <2>10, <2>11, <2>13, BarsAreTheirOwn
       DEF PagesAgree, found, listed, counted, summary, S
<1> QED
  BY <1>1, ReportedInvInit, ReportedInvNext, PTL DEF Spec

-----------------------------------------------------------------------------
(* The cells of the matrix *)

LEMMA SentRelationshipsAreFinite ==
  ASSUME CountedInv
  PROVE  IsFiniteSet(SentRelationships)
<1> DEFINE edges == Relationships(collected)
           f == [e \in edges |-> RelationshipMessage(e)]
<1>1. IsFiniteSet(edges)
  BY RelationshipsAreFinite DEF CountedInv
<1>2. DOMAIN f = edges /\ SentRelationships = {f[e] : e \in edges}
  BY DEF SentRelationships
<1> HIDE DEF f, edges
<1> QED
  BY <1>1, <1>2, ImageIsFinite

(* A group has a name, so that a focus on two groups is none on one. *)
LEMMA GroupsAreNamed ==
  ASSUME CountedInv, NEW r \in SentRelationships
  PROVE  Mined!GroupOf(r.source) # <<>> /\ Mined!GroupOf(r.target) # <<>>
<1>1. ASSUME NEW c \in Components PROVE Mined!GroupOf(c) # <<>>
  <2>1. c # <<>> /\ c \in Seq(STRING)
    BY ComponentAssumption, PathAssumption
  <2>2. CASE Len(c) > 2
    <3>1. Len(SubSeq(c, 1, 2)) = 2
      BY <2>1, <2>2
    <3> QED
      BY <2>2, <3>1 DEF Mined!GroupOf
  <2> QED
    BY <2>1, <2>2 DEF Mined!GroupOf
<1>2. r.source \in Components /\ r.target \in Components
  BY RelationshipFields DEF CountedInv, IsCounted
<1> QED
  BY <1>1, <1>2

(* What is behind a pair of groups is what a focus on it lists. *)
LEMMA FocusIsBehind ==
  ASSUME CountedInv, NEW pair \in Mined!GroupEdges(SentRelationships)
  PROVE  /\ Mined!focusedRelationships(SentRelationships, [source |-> pair[1], target |-> pair[2]])
              = Mined!Behind(SentRelationships, pair)
         /\ pair = <<pair[1], pair[2]>> /\ pair[1] # pair[2]
<1>1. PICK s \in SentRelationships :
        Mined!Counts(s) /\ pair = <<Mined!GroupOf(s.source), Mined!GroupOf(s.target)>>
  BY DEF Mined!GroupEdges
<1>2. pair = <<pair[1], pair[2]>> /\ pair[1] # pair[2] /\ pair[2] # <<>>
  BY <1>1, GroupsAreNamed DEF Mined!Counts
<1> DEFINE focus == [source |-> pair[1], target |-> pair[2]]
<1>3. ASSUME NEW r \in SentRelationships
      PROVE  (/\ ~r.testOnly
              /\ Mined!GroupOf(r.source) = focus.source
              /\ Mined!GroupOf(r.target) # focus.source
              /\ focus.target \in {<<>>, Mined!GroupOf(r.target)})
             <=> (/\ Mined!Counts(r)
                  /\ <<Mined!GroupOf(r.source), Mined!GroupOf(r.target)>> = pair)
  <2>1. focus.source = pair[1] /\ focus.target = pair[2]
    OBVIOUS
  <2> HIDE DEF focus
  <2>2. <<Mined!GroupOf(r.source), Mined!GroupOf(r.target)>> = pair
          <=> Mined!GroupOf(r.source) = pair[1] /\ Mined!GroupOf(r.target) = pair[2]
    BY <1>2
  <2> QED
    BY <1>2, <2>1, <2>2 DEF Mined!Counts
<1> HIDE DEF focus
<1>4. Mined!focusedRelationships(SentRelationships, focus) = Mined!Behind(SentRelationships, pair)
  BY <1>3 DEF Mined!focusedRelationships, Mined!Behind
<1> QED
  BY <1>2, <1>4 DEF focus

(* A cell stands for one pair of groups, and weighs what is behind it. *)
LEMMA CellsArePairs ==
  ASSUME CountedInv
  PROVE  LET report == Mined!buildStrategyReport(Sent, SentRelationships)
             cells == Mined!createStrategyMatrix(report)
             pairs == Mined!GroupEdges(SentRelationships)
             of(cell) == <<cell.focuses.source, cell.focuses.target>> IN
           /\ IsFiniteSet(cells)
           /\ \A cell \in cells :
                /\ of(cell) \in pairs
                /\ cell.focuses = [source |-> of(cell)[1], target |-> of(cell)[2]]
                /\ cell.weight = Cardinality(Mined!Behind(SentRelationships, of(cell)))
           /\ \A a, b \in cells : of(a) = of(b) => a = b
           /\ \A pair \in pairs : \E cell \in cells : of(cell) = pair
<1> DEFINE report == Mined!buildStrategyReport(Sent, SentRelationships)
           cells == Mined!createStrategyMatrix(report)
           pairs == Mined!GroupEdges(SentRelationships)
           of(cell) == <<cell.focuses.source, cell.focuses.target>>
           order == Mined!matrixOrder(report)
           place(group) == CHOOSE i \in DOMAIN order : order[i] = group
           units == Mined!stronglyConnected(Mined!Dependencies(Mined!Groups(Sent), pairs))
           cyclic(e) == /\ e[2] \in Mined!UnitOf(units, e[1])
                        /\ Mined!Cardinality(Mined!UnitOf(units, e[1])) > 1
           edge(e) == [source |-> e[1], target |-> e[2],
                       weight |-> Mined!Cardinality(Mined!Behind(SentRelationships, e)),
                       cyclic |-> cyclic(e)]
           drawn(x) == [row |-> place(x.source), column |-> place(x.target),
                        weight |-> x.weight, cyclic |-> x.cyclic,
                        focuses |-> [source |-> x.source, target |-> x.target]]
           cellOf == [e \in pairs |-> drawn(edge(e))]
<1>1. report.edges = {edge(e) : e \in pairs}
  BY DEF Mined!buildStrategyReport
<1>2. cells = {drawn(x) : x \in report.edges}
  BY DEF Mined!createStrategyMatrix
<1> HIDE DEF report, cells, order, units, pairs, cyclic, place
<1>3. cells = {cellOf[e] : e \in pairs}
  <2> HIDE DEF edge, drawn
  <2> QED
    BY <1>1, <1>2
<1>4. ASSUME NEW e \in pairs
      PROVE  /\ of(cellOf[e]) = e
             /\ cellOf[e].focuses = [source |-> e[1], target |-> e[2]]
             /\ cellOf[e].weight = Cardinality(Mined!Behind(SentRelationships, e))
  <2>1. e = <<e[1], e[2]>>
    BY FocusIsBehind DEF pairs
  <2>2. /\ edge(e).source = e[1] /\ edge(e).target = e[2]
        /\ edge(e).weight = Cardinality(Mined!Behind(SentRelationships, e))
    BY CountedAlike
  <2> HIDE DEF edge
  <2>3. /\ cellOf[e].focuses = [source |-> e[1], target |-> e[2]]
        /\ cellOf[e].weight = Cardinality(Mined!Behind(SentRelationships, e))
    BY <2>2
  <2> HIDE DEF cellOf
  <2> QED
    BY <2>1, <2>3
<1>5. IsFiniteSet(pairs)
  <2> DEFINE counting == {s \in SentRelationships : Mined!Counts(s)}
             f == [s \in counting |-> <<Mined!GroupOf(s.source), Mined!GroupOf(s.target)>>]
  <2>1. IsFiniteSet(counting)
    BY SentRelationshipsAreFinite, FS_Subset
  <2>2. DOMAIN f = counting /\ pairs = {f[s] : s \in counting}
    BY DEF pairs, Mined!GroupEdges
  <2> HIDE DEF f, counting
  <2> QED
    BY <2>1, <2>2, ImageIsFinite
<1>6. DOMAIN cellOf = pairs
  OBVIOUS
<1> HIDE DEF cellOf
<1>7. IsFiniteSet(cells)
  BY <1>3, <1>5, <1>6, ImageIsFinite
<1>8. ASSUME NEW cell \in cells PROVE of(cell) \in pairs /\ cell = cellOf[of(cell)]
  BY <1>3, <1>4
<1> HIDE DEF of
<1>9. \A cell \in cells :
        /\ of(cell) \in pairs
        /\ cell.focuses = [source |-> of(cell)[1], target |-> of(cell)[2]]
        /\ cell.weight = Cardinality(Mined!Behind(SentRelationships, of(cell)))
  BY <1>4, <1>8
<1>10. \A a, b \in cells : of(a) = of(b) => a = b
  BY <1>8
<1>11. \A pair \in pairs : \E cell \in cells : of(cell) = pair
  BY <1>3, <1>4
<1> QED
  BY <1>7, <1>9, <1>10, <1>11 DEF cells, report, pairs, of

(* What a group depends on is divided among the cells of its row. *)
LEMMA RowsAddUp ==
  ASSUME CountedInv, NEW group
  PROVE  LET report == Mined!buildStrategyReport(Sent, SentRelationships)
             cells == Mined!createStrategyMatrix(report)
             focus == [source |-> group, target |-> <<>>] IN
           Cardinality(Mined!focusedRelationships(SentRelationships, focus)) =
             Total([c \in cells |-> 1 .. c.weight], {c \in cells : c.focuses.source = group})
<1> DEFINE cells == Mined!createStrategyMatrix(Mined!buildStrategyReport(Sent, SentRelationships))
           pairs == Mined!GroupEdges(SentRelationships)
           of(cell) == <<cell.focuses.source, cell.focuses.target>>
           focus == [source |-> group, target |-> <<>>]
           all == Mined!focusedRelationships(SentRelationships, focus)
           row == {c \in cells : c.focuses.source = group}
           F == [c \in cells |-> Mined!Behind(SentRelationships, of(c))]
           weights == [c \in cells |-> 1 .. c.weight]
<1>1. /\ IsFiniteSet(cells)
      /\ \A cell \in cells :
           /\ of(cell) \in pairs
           /\ cell.weight = Cardinality(Mined!Behind(SentRelationships, of(cell)))
      /\ \A a, b \in cells : of(a) = of(b) => a = b
      /\ \A pair \in pairs : \E cell \in cells : of(cell) = pair
  BY CellsArePairs
<1>2. all = {r \in SentRelationships : Mined!Counts(r) /\ Mined!GroupOf(r.source) = group}
  BY DEF Mined!focusedRelationships, Mined!Counts
<1> HIDE DEF cells, pairs, all
<1>3. IsFiniteSet(row)
  BY <1>1, FS_Subset
<1>4. \A c \in row : /\ c \in cells /\ of(c)[1] = group
                     /\ F[c] = Mined!Behind(SentRelationships, of(c)) /\ weights[c] = 1 .. c.weight
  OBVIOUS
<1>5. \A c \in row : IsFiniteSet(F[c]) /\ weights[c] = 1 .. Cardinality(F[c])
  BY <1>1, <1>4, SentRelationshipsAreFinite, FS_Subset DEF Mined!Behind
<1>6. ASSUME NEW c \in row, NEW d \in row, NEW r \in F[c] \cap F[d] PROVE c = d
  <2>1. of(c) = of(d)
    BY <1>4, <1>6 DEF Mined!Behind
  <2> QED
    BY <1>1, <1>4, <2>1
<1>7. ASSUME NEW c \in row PROVE F[c] \subseteq all
  <2>1. ASSUME NEW r \in F[c] PROVE r \in all
    <3>1. /\ r \in SentRelationships /\ Mined!Counts(r)
          /\ <<Mined!GroupOf(r.source), Mined!GroupOf(r.target)>> = of(c)
      BY <1>4, <2>1 DEF Mined!Behind
    <3>2. Mined!GroupOf(r.source) = group
      BY <1>4, <3>1
    <3> QED
      BY <1>2, <3>1, <3>2
  <2> QED
    BY <2>1
<1>8. ASSUME NEW r \in all PROVE \E c \in row : r \in F[c]
  <2> DEFINE pair == <<Mined!GroupOf(r.source), Mined!GroupOf(r.target)>>
  <2>1. /\ r \in SentRelationships /\ Mined!Counts(r) /\ Mined!GroupOf(r.source) = group
    BY <1>2
  <2>2. pair \in pairs
    BY <2>1 DEF pairs, Mined!GroupEdges
  <2>3. PICK c \in cells : of(c) = pair
    BY <1>1, <2>2
  <2>4. c \in row
    BY <2>1, <2>3
  <2>5. r \in F[c]
    BY <1>4, <2>1, <2>3, <2>4 DEF Mined!Behind
  <2> QED
    BY <2>4, <2>5
<1> HIDE DEF row, F, weights
<1>9. Total(weights, row) = Cardinality(all)
  BY <1>3, <1>5, <1>6, <1>7, <1>8, SizesAddUp
<1> QED
  BY <1>9 DEF all, weights, row, cells

(* The lists of the strategy page are as long as its numbers say. *)
THEOREM NumbersAreListed == Spec => []CellsAreExplained
<1>1. CountedInv => CellsAreExplained
  <2> SUFFICES ASSUME CountedInv, phase = "built" PROVE CellsAreExplained
    BY DEF CellsAreExplained
  <2> DEFINE report == Mined!buildStrategyReport(Sent, SentRelationships)
             cells == Mined!createStrategyMatrix(report)
             weights == [c \in cells |-> 1 .. c.weight]
             listed(focus) == Cardinality(Mined!focusedRelationships(SentRelationships, focus))
  <2>1. Received.components = Sent /\ Received.relationships = SentRelationships
    BY DEF Received, Sent, SentRelationships
  <2>2. ASSUME NEW cell \in cells PROVE listed(cell.focuses) = cell.weight
    <3> DEFINE pair == <<cell.focuses.source, cell.focuses.target>>
    <3>1. /\ pair \in Mined!GroupEdges(SentRelationships)
          /\ cell.focuses = [source |-> pair[1], target |-> pair[2]]
          /\ cell.weight = Cardinality(Mined!Behind(SentRelationships, pair))
      BY CellsArePairs
    <3> HIDE DEF pair, cells
    <3>2. Mined!focusedRelationships(SentRelationships, cell.focuses)
            = Mined!Behind(SentRelationships, pair)
      BY <3>1, FocusIsBehind
    <3> QED
      BY <3>1, <3>2
  <2>3. ASSUME NEW node \in Mined!createStrategyMap(report).nodes
        PROVE  listed(node.focuses) = Total(weights, {c \in cells : c.focuses.source = node.id})
    <3>1. node.focuses = [source |-> node.id, target |-> <<>>]
      <4>1. node \in Mined!DrawnGroups(report)
        BY DEF Mined!createStrategyMap
      <4>2. \E id, x, y : node = [id |-> id, focuses |-> [source |-> id, target |-> <<>>],
                                 x |-> x, y |-> y]
        <5> HIDE DEF report
        <5> QED
          BY <4>1 DEF Mined!DrawnGroups
      <4> QED
        BY <4>2
    <3> QED
      BY <3>1, RowsAddUp
  <2> HIDE DEF listed, cells, report, weights
  <2> QED
    BY <2>1, <2>2, <2>3 DEF CellsAreExplained, listed, cells, report, weights
<1> QED
  BY <1>1, CountedInvInit, CountedInvNext, PTL DEF Spec

-----------------------------------------------------------------------------
(* The layers of the groups *)

(* By dependencies, from a to b. *)
Leads(a, b, dependencies) ==
  /\ b \in DOMAIN dependencies
  /\ \A S \in SUBSET DOMAIN dependencies : Mined!Closed(S, a, dependencies) => b \in S

LEMMA LeadsOn ==
  ASSUME NEW ids, NEW dependencies \in [ids -> SUBSET ids], NEW a \in ids
  PROVE  /\ \A b \in dependencies[a] : Leads(a, b, dependencies)
         /\ \A b, c \in ids :
              Leads(a, b, dependencies) /\ Leads(b, c, dependencies) => Leads(a, c, dependencies)
<1>1. DOMAIN dependencies = ids
  OBVIOUS
<1>2. ASSUME NEW b \in dependencies[a] PROVE Leads(a, b, dependencies)
  BY <1>1 DEF Leads, Mined!Closed
<1>3. ASSUME NEW b \in ids, NEW c \in ids, Leads(a, b, dependencies), Leads(b, c, dependencies)
      PROVE  Leads(a, c, dependencies)
  <2>1. ASSUME NEW S \in SUBSET ids, Mined!Closed(S, a, dependencies) PROVE c \in S
    <3>1. b \in S
      BY <1>1, <1>3, <2>1 DEF Leads
    <3>2. Mined!Closed(S, b, dependencies)
      BY <2>1, <3>1 DEF Mined!Closed
    <3> QED
      BY <1>1, <1>3, <3>2 DEF Leads
  <2> QED
    BY <1>1, <2>1 DEF Leads
<1> QED
  BY <1>2, <1>3

(* Groups that lead to each other are one unit. *)
LEMMA UnitOfLeads ==
  ASSUME NEW ids, NEW dependencies \in [ids -> SUBSET ids], NEW a \in ids, NEW b
  PROVE  b \in Mined!CycleOf(a, dependencies) <=>
           b = a \/ (b \in ids /\ Leads(a, b, dependencies) /\ Leads(b, a, dependencies))
<1>1. DOMAIN dependencies = ids
  OBVIOUS
<1>2. ASSUME NEW c \in ids, NEW d \in ids, c # d
      PROVE  d \in Mined!Reachable(c, dependencies) <=> Leads(c, d, dependencies)
  BY <1>1, <1>2 DEF Mined!Reachable, Leads
<1>3. CASE b = a
  BY <1>3 DEF Mined!CycleOf
<1>4. CASE b # a
  <2>1. b \in Mined!CycleOf(a, dependencies) <=>
          b \in Mined!Reachable(a, dependencies) /\ a \in Mined!Reachable(b, dependencies)
    BY <1>4 DEF Mined!CycleOf
  <2>2. b \in Mined!Reachable(a, dependencies) => b \in ids
    BY <1>1 DEF Mined!Reachable
  <2> QED
    BY <1>2, <1>4, <2>1, <2>2
<1> QED
  BY <1>3, <1>4

(* Every group is in one unit. *)
IsDivision(units, ids) ==
  /\ units \subseteq SUBSET ids
  /\ \A unit \in units : unit # {}
  /\ \A id \in ids : id \in Mined!UnitOf(units, id) /\ Mined!UnitOf(units, id) \in units
  /\ \A unit \in units : \A id \in unit : Mined!UnitOf(units, id) = unit

LEMMA UnitsDivide ==
  ASSUME NEW ids, NEW dependencies \in [ids -> SUBSET ids]
  PROVE  LET units == Mined!stronglyConnected(dependencies) IN
           /\ IsDivision(units, ids)
           /\ \A a, b \in ids :
                b \in Mined!UnitOf(units, a) <=>
                  b = a \/ (Leads(a, b, dependencies) /\ Leads(b, a, dependencies))
<1> DEFINE units == Mined!stronglyConnected(dependencies)
           cycle(a) == Mined!CycleOf(a, dependencies)
<1>1. units = {cycle(a) : a \in ids}
  BY DEF Mined!stronglyConnected
<1>2. \A a \in ids : \A b :
        b \in cycle(a) <=>
          b = a \/ (b \in ids /\ Leads(a, b, dependencies) /\ Leads(b, a, dependencies))
  BY UnitOfLeads
<1>3. \A a, b, c \in ids :
        Leads(a, b, dependencies) /\ Leads(b, c, dependencies) => Leads(a, c, dependencies)
  BY LeadsOn
<1> HIDE DEF units, cycle
<1>4. ASSUME NEW a \in ids, NEW b \in cycle(a) PROVE cycle(a) = cycle(b) /\ b \in ids
  <2>1. b \in ids /\ a \in cycle(b)
    BY <1>2
  <2>2. \A c : c \in cycle(a) => c \in cycle(b)
    BY <1>2, <1>3, <2>1
  <2>3. \A c : c \in cycle(b) => c \in cycle(a)
    BY <1>2, <1>3, <2>1
  <2> QED
    BY <2>1, <2>2, <2>3
<1>5. ASSUME NEW a \in ids PROVE Mined!UnitOf(units, a) = cycle(a) /\ a \in cycle(a)
  <2>1. a \in cycle(a) /\ cycle(a) \in units
    BY <1>1, <1>2
  <2>2. \A unit \in units : a \in unit => unit = cycle(a)
    BY <1>1, <1>4
  <2> QED
    BY <2>1, <2>2 DEF Mined!UnitOf
<1>6. IsDivision(units, ids)
  BY <1>1, <1>4, <1>5 DEF IsDivision
<1>7. \A a, b \in ids :
        b \in Mined!UnitOf(units, a) <=>
          b = a \/ (Leads(a, b, dependencies) /\ Leads(b, a, dependencies))
  BY <1>2, <1>5
<1> QED
  BY <1>6, <1>7 DEF units

(* Below a unit are fewer units than above it: there is a measure that     *)
(* decreases along the dependencies of units.                              *)
Descends(below, units, rank) ==
  /\ rank \in [units -> Nat]
  /\ \A unit \in units : \A b \in below[unit] : b \in units /\ rank[b] < rank[unit]

LEMMA UnitsDescend ==
  ASSUME NEW ids, IsFiniteSet(ids), NEW pairs \in SUBSET (ids \X ids)
  PROVE  LET units == Mined!stronglyConnected(Mined!Dependencies(ids, pairs))
             below == [unit \in units |-> Mined!BelowUnit(units, unit, pairs)] IN
           \E rank : Descends(below, units, rank)
<1> DEFINE dependencies == Mined!Dependencies(ids, pairs)
           units == Mined!stronglyConnected(dependencies)
           below == [unit \in units |-> Mined!BelowUnit(units, unit, pairs)]
           leads(a, b) == Leads(a, b, dependencies)
           under(u) == {v \in units : v # u /\ \E a \in u, b \in v : leads(a, b)}
           rank == [u \in units |-> Cardinality(under(u))]
<1>1. /\ dependencies \in [ids -> SUBSET ids]
      /\ \A e \in pairs : e[1] \in ids /\ e[2] \in ids /\ e[2] \in dependencies[e[1]]
  BY DEF Mined!Dependencies
<1> HIDE DEF dependencies
<1>2. /\ IsDivision(units, ids)
      /\ \A a, b \in ids :
           b \in Mined!UnitOf(units, a) <=> b = a \/ (leads(a, b) /\ leads(b, a))
  BY <1>1, UnitsDivide
<1>3. /\ \A e \in pairs : leads(e[1], e[2])
      /\ \A a, b, c \in ids : leads(a, b) /\ leads(b, c) => leads(a, c)
  BY <1>1, LeadsOn
<1>4. IsFiniteSet(units)
  <2>1. IsFiniteSet(SUBSET ids)
    BY FS_SUBSET
  <2> QED
    BY <1>2, <2>1, FS_Subset DEF IsDivision
<1> HIDE DEF units, leads
<1>5. ASSUME NEW u \in units
      PROVE  IsFiniteSet(under(u)) /\ Cardinality(under(u)) \in Nat
  BY <1>4, FS_Subset, FS_CardinalityType
<1>6. ASSUME NEW u \in units, NEW v \in below[u]
      PROVE  /\ v \in units /\ v # u
             /\ \E a \in u, b \in v : a \in ids /\ b \in ids /\ leads(a, b)
  <2>1. v \in Mined!BelowUnit(units, u, pairs)
    OBVIOUS
  <2>2. PICK e \in pairs : e[1] \in u /\ v = Mined!UnitOf(units, e[2]) /\ v # u
    BY <2>1 DEF Mined!BelowUnit
  <2>3. e[1] \in ids /\ e[2] \in ids /\ v \in units /\ e[2] \in v
    BY <1>1, <1>2, <2>2 DEF IsDivision
  <2> QED
    BY <1>3, <2>2, <2>3
<1>7. ASSUME NEW u \in units, NEW a \in u, NEW b
      PROVE  /\ a \in ids
             /\ b \in u <=> b = a \/ (b \in ids /\ leads(a, b) /\ leads(b, a))
  <2>1. a \in ids /\ u \subseteq ids /\ Mined!UnitOf(units, a) = u
    BY <1>2 DEF IsDivision
  <2> QED
    BY <1>2, <2>1
<1>8. ASSUME NEW u \in units, NEW v \in below[u]
      PROVE  v \in units /\ rank[v] < rank[u]
  <2>1. v \in units /\ v # u
    BY <1>6
  <2>2. PICK a \in u, b \in v : a \in ids /\ b \in ids /\ leads(a, b)
    BY <1>6
  <2>3. ASSUME NEW w \in under(v) PROVE w \in under(u)
    <3>1. w \in units /\ w # v
      OBVIOUS
    <3>2. PICK c \in v, d \in w : leads(c, d)
      OBVIOUS
    <3>3. c \in ids /\ d \in ids
      BY <1>7, <2>1, <3>1
    <3>4. leads(b, d)
      BY <1>3, <1>7, <2>1, <2>2, <3>2, <3>3
    <3>5. leads(a, d)
      BY <1>3, <2>2, <3>3, <3>4
    <3>6. w # u
      <4> SUFFICES ASSUME w = u PROVE FALSE
        OBVIOUS
      <4>1. d = a \/ leads(d, a)
        BY <1>7, <3>3
      <4>2. leads(b, a)
        BY <1>3, <2>2, <3>3, <3>4, <4>1
      <4>3. b \in u
        BY <1>7, <2>2, <4>2
      <4>4. Mined!UnitOf(units, b) = u /\ Mined!UnitOf(units, b) = v
        BY <1>2, <2>1, <2>2, <4>3 DEF IsDivision
      <4> QED
        BY <2>1, <4>4
    <3> QED
      BY <3>1, <3>5, <3>6
  <2>4. v \in under(u) /\ v \notin under(v)
    BY <2>1, <2>2
  <2>5. under(v) \subseteq under(u) /\ under(v) # under(u)
    BY <2>3, <2>4
  <2> HIDE DEF under
  <2>6. /\ Cardinality(under(v)) <= Cardinality(under(u))
        /\ Cardinality(under(v)) # Cardinality(under(u))
    BY <1>5, <2>1, <2>5, FS_Subset
  <2>7. Cardinality(under(v)) \in Nat /\ Cardinality(under(u)) \in Nat
    BY <1>5, <2>1
  <2> QED
    BY <2>1, <2>6, <2>7
<1>9. rank \in [units -> Nat]
  BY <1>5
<1> HIDE DEF rank, below, under
<1>10. Descends(below, units, rank)
  BY <1>8, <1>9 DEF Descends
<1> QED
  BY <1>10 DEF below, units, dependencies

LEMMA OneAbove ==
  ASSUME NEW layers \in SUBSET Nat, IsFiniteSet(layers)
  PROVE  /\ Mined!AboveAll(layers) \in Nat
         /\ layers = {} => Mined!AboveAll(layers) = 0
         /\ \A layer \in layers : layer < Mined!AboveAll(layers)
         /\ layers # {} => \E layer \in layers : Mined!AboveAll(layers) = layer + 1
<1>1. CASE layers = {}
  BY <1>1 DEF Mined!AboveAll
<1>2. CASE layers # {}
  <2>1. layers \in SUBSET Int
    OBVIOUS
  <2>2. \E n \in layers : \A m \in layers : n >= m
    BY <1>2, <2>1, GreatestNumber
  <2> DEFINE max == CHOOSE n \in layers : \A m \in layers : n >= m
  <2>3. Mined!AboveAll(layers) = max + 1
    BY <1>2 DEF Mined!AboveAll, Mined!Sets!Max
  <2>4. max \in layers /\ \A m \in layers : max >= m
    BY <2>2
  <2> HIDE DEF max
  <2>5. max \in Nat /\ \A m \in layers : m \in Nat /\ m < max + 1
    BY <2>4
  <2> QED
    BY <1>2, <2>3, <2>4, <2>5
<1> QED
  BY <1>1, <1>2

(* What one visit makes of the visits below it. *)
Resolved(units, pairs, g, visit) ==
  IF visit[1] \in visit[2] THEN 0
  ELSE Mined!AboveAll({g[<<b, visit[2] \cup {visit[1]}>>] :
                         b \in Mined!BelowUnit(units, visit[1], pairs)})

IsResolution(units, pairs, g) ==
  g = [visit \in units \X SUBSET units |-> Resolved(units, pairs, g, visit)]

(* The trail grows, so the recursion ends, whatever depends on what. *)
LEMMA ResolutionIsDefined ==
  ASSUME NEW units, IsFiniteSet(units), NEW pairs,
         \A u \in units : Mined!BelowUnit(units, u, pairs) \subseteq units
  PROVE  \E g : IsResolution(units, pairs, g)
<1> DEFINE N == Cardinality(units)
           visits == units \X SUBSET units
           V == [visits -> Nat]
           start == [visit \in visits |-> 0]
           next(g) == [visit \in visits |-> Resolved(units, pairs, g, visit)]
           step == [n \in 1 .. N |-> [g \in V |-> next(g)]]
           left(visit) == Cardinality(units \ visit[2])
           below(u) == Mined!BelowUnit(units, u, pairs)
           child(visit, b) == <<b, visit[2] \cup {visit[1]}>>
<1>1. N \in Nat
  BY FS_CardinalityType
<1>2. ASSUME NEW visit \in visits
      PROVE  /\ visit[1] \in units /\ visit[2] \in SUBSET units
             /\ IsFiniteSet(below(visit[1]))
             /\ \A b \in below(visit[1]) :
                  child(visit, b) \in visits /\ child(visit, b)[2] = visit[2] \cup {visit[1]}
  <2>1. visit[1] \in units /\ visit[2] \in SUBSET units
    OBVIOUS
  <2>2. below(visit[1]) \subseteq units
    BY <2>1
  <2> HIDE DEF below
  <2>3. IsFiniteSet(below(visit[1]))
    BY <2>2, FS_Subset
  <2> QED
    BY <2>1, <2>2, <2>3
<1>3. ASSUME NEW g, NEW visit \in visits
      PROVE  Resolved(units, pairs, g, visit) =
               IF visit[1] \in visit[2] THEN 0
               ELSE Mined!AboveAll({g[child(visit, b)] : b \in below(visit[1])})
  BY DEF Resolved
<1> HIDE DEF child, below
<1>4. ASSUME NEW g \in V, NEW visit \in visits
      PROVE  Resolved(units, pairs, g, visit) \in Nat
  <2> DEFINE B == below(visit[1])
             h == [b \in B |-> g[child(visit, b)]]
             image == {h[b] : b \in B}
  <2>1. image = {g[child(visit, b)] : b \in B} /\ image \in SUBSET Nat
    BY <1>2
  <2>2. IsFiniteSet(B) /\ DOMAIN h = B
    BY <1>2
  <2>3. IsFiniteSet(image)
    <3> HIDE DEF h, B
    <3> QED
      BY <2>2, ImageIsFinite
  <2> HIDE DEF image
  <2>4. Mined!AboveAll(image) \in Nat
    BY <2>1, <2>3, OneAbove
  <2> QED
    BY <1>3, <2>1, <2>4
<1>5. start \in V /\ \A g \in V : next(g) \in V
  BY <1>4
<1>6. step \in [1 .. N -> [V -> V]]
  <2> HIDE DEF next, V
  <2> QED
    BY <1>5
<1>7. PICK f : IsStepwise(f, N, V, start, step)
  <2> HIDE DEF N, V, start, step
  <2> QED
    BY <1>1, <1>5, <1>6, RecursionIsDefined
<1>8. /\ f \in [0 .. N -> V] /\ f[0] = start
      /\ \A n \in 1 .. N : n - 1 \in 0 .. N /\ f[n - 1] \in V /\ f[n] = next(f[n - 1])
  <2>1. f \in [0 .. N -> V] /\ f[0] = start /\ \A n \in 1 .. N : f[n] = step[n][f[n - 1]]
    BY <1>7 DEF IsStepwise
  <2>2. \A n \in 1 .. N : n - 1 \in 0 .. N
    BY <1>1
  <2> HIDE DEF N, V, start, next
  <2> QED
    BY <2>1, <2>2
<1> DEFINE Settled(n) ==
             \A visit \in visits : left(visit) <= n => next(f[n])[visit] = f[n][visit]
<1>9. ASSUME NEW visit \in visits PROVE left(visit) \in Nat /\ left(visit) <= N
  <2>1. units \ visit[2] \subseteq units
    OBVIOUS
  <2> QED
    BY <1>1, <2>1, FS_Subset, FS_CardinalityType
<1>10. ASSUME NEW visit \in visits, visit[1] \notin visit[2], NEW b \in below(visit[1])
       PROVE  child(visit, b) \in visits /\ left(child(visit, b)) = left(visit) - 1
  <2>1. units \ (visit[2] \cup {visit[1]}) = (units \ visit[2]) \ {visit[1]}
    OBVIOUS
  <2>2. IsFiniteSet(units \ visit[2]) /\ visit[1] \in units \ visit[2]
    BY <1>2, <1>10, FS_Subset
  <2>3. Cardinality((units \ visit[2]) \ {visit[1]}) = Cardinality(units \ visit[2]) - 1
    BY <2>2, FS_RemoveElement
  <2> QED
    BY <1>2, <2>1, <2>3
<1>11. ASSUME NEW g, NEW visit \in visits
       PROVE  next(g)[visit] = Resolved(units, pairs, g, visit)
  OBVIOUS
<1>12. Settled(0)
  <2> SUFFICES ASSUME NEW visit \in visits, left(visit) <= 0
               PROVE  next(f[0])[visit] = f[0][visit]
    OBVIOUS
  <2>1. left(visit) = 0
    BY <1>9
  <2>2. units \ visit[2] = {}
    <3>1. IsFiniteSet(units \ visit[2])
      BY FS_Subset
    <3> QED
      BY <2>1, <3>1, FS_EmptySet
  <2>3. visit[1] \in visit[2]
    BY <1>2, <2>2
  <2>4. Resolved(units, pairs, f[0], visit) = 0
    BY <1>3, <2>3
  <2>5. f[0][visit] = 0
    BY <1>8
  <2> QED
    BY <1>11, <2>4, <2>5
<1>13. ASSUME NEW n \in 1 .. N, Settled(n - 1) PROVE Settled(n)
  <2> SUFFICES ASSUME NEW visit \in visits, left(visit) <= n
               PROVE  next(f[n])[visit] = f[n][visit]
    OBVIOUS
  <2>1. f[n] = next(f[n - 1])
    BY <1>8
  <2>2. f[n][visit] = Resolved(units, pairs, f[n - 1], visit)
    BY <1>11, <2>1
  <2>3. CASE visit[1] \in visit[2]
    BY <1>3, <1>11, <2>2, <2>3
  <2>4. CASE visit[1] \notin visit[2]
    <3>1. ASSUME NEW b \in below(visit[1])
          PROVE  f[n][child(visit, b)] = f[n - 1][child(visit, b)]
      <4>1. child(visit, b) \in visits /\ left(child(visit, b)) = left(visit) - 1
        BY <1>10, <2>4
      <4>2. left(child(visit, b)) <= n - 1
        BY <1>1, <1>9, <4>1
      <4> HIDE DEF left, next
      <4> QED
        BY <1>13, <2>1, <4>1, <4>2
    <3>2. {f[n][child(visit, b)] : b \in below(visit[1])}
            = {f[n - 1][child(visit, b)] : b \in below(visit[1])}
      BY <3>1
    <3>3. Resolved(units, pairs, f[n], visit) = Resolved(units, pairs, f[n - 1], visit)
      BY <1>3, <2>4, <3>2
    <3> QED
      BY <1>11, <2>2, <3>3
  <2> QED
    BY <2>3, <2>4
<1>14. Settled(N)
  <2> DEFINE wrong == {n \in 0 .. N : ~Settled(n)}
  <2>1. wrong = {}
    <3> SUFFICES ASSUME wrong # {} PROVE FALSE
      OBVIOUS
    <3>1. PICK n \in wrong : \A m \in wrong : n <= m
      <4>1. wrong \in SUBSET Nat
        OBVIOUS
      <4> HIDE DEF wrong
      <4> QED
        BY <4>1, LeastNumber
    <3> HIDE DEF Settled
    <3>2. n \in 0 .. N /\ ~Settled(n) /\ n # 0
      BY <1>12, <3>1
    <3>3. n \in 1 .. N /\ n - 1 \in 0 .. N /\ ~(n <= n - 1)
      BY <1>1, <3>2
    <3>4. Settled(n - 1)
      BY <3>1, <3>3
    <3> QED
      BY <1>13, <3>2, <3>3, <3>4
  <2>2. N \in 0 .. N
    BY <1>1
  <2> HIDE DEF Settled
  <2> QED
    BY <2>1, <2>2
<1>15. f[N] \in V
  BY <1>1, <1>8
<1>16. f[N] = [visit \in visits |-> Resolved(units, pairs, f[N], visit)]
  <2>1. ASSUME NEW visit \in visits PROVE f[N][visit] = Resolved(units, pairs, f[N], visit)
    <3>1. next(f[N])[visit] = f[N][visit]
      <4>1. left(visit) <= N
        BY <1>9
      <4> HIDE DEF left, next
      <4> QED
        BY <1>14, <4>1
    <3> QED
      BY <1>11, <3>1
  <2> QED
    BY <1>15, <2>1
<1> QED
  BY <1>16 DEF IsResolution

(* A unit is one layer above the highest unit below it.                    *)
AreLayers(units, pairs, layer) ==
  /\ layer \in [units -> Nat]
  /\ \A u \in units :
       /\ \A b \in Mined!BelowUnit(units, u, pairs) : b \in units /\ layer[b] < layer[u]
       /\ layer[u] > 0 =>
            \E b \in Mined!BelowUnit(units, u, pairs) : b \in units /\ layer[b] = layer[u] - 1

LEMMA LayersAreResolved ==
  ASSUME NEW units, IsFiniteSet(units), NEW pairs,
         NEW rank, Descends([u \in units |-> Mined!BelowUnit(units, u, pairs)], units, rank)
  PROVE  AreLayers(units, pairs, Mined!layerComponents(units, pairs))
<1> DEFINE below(u) == Mined!BelowUnit(units, u, pairs)
           resolve == CHOOSE g : IsResolution(units, pairs, g)
           layer == Mined!layerComponents(units, pairs)
           Above(u, trail) == trail \subseteq units /\ \A t \in trail : rank[u] < rank[t]
           higher(u, trail) == {resolve[<<b, trail \cup {u}>>] : b \in below(u)}
           Same(u) == \A trail : Above(u, trail) =>
                        /\ resolve[<<u, trail>>] = resolve[<<u, {}>>]
                        /\ resolve[<<u, trail>>] \in Nat
<1>1. /\ rank \in [units -> Nat]
      /\ \A u \in units : \A b \in below(u) : b \in units /\ rank[b] < rank[u]
  BY DEF Descends
<1>2. layer = [u \in units |-> resolve[<<u, {}>>]]
  BY DEF Mined!layerComponents, IsResolution, Resolved
<1>3. IsResolution(units, pairs, resolve)
  <2>1. \A u \in units : Mined!BelowUnit(units, u, pairs) \subseteq units
    BY <1>1
  <2>2. \E g : IsResolution(units, pairs, g)
    BY <2>1, ResolutionIsDefined
  <2> QED
    BY <2>2
<1> HIDE DEF resolve, layer
<1>4. ASSUME NEW u \in units PROVE IsFiniteSet(below(u))
  <2>1. below(u) \subseteq units
    BY <1>1
  <2> QED
    BY <2>1, FS_Subset
<1> HIDE DEF below
<1>5. ASSUME NEW u \in units, NEW trail, Above(u, trail)
      PROVE  /\ resolve[<<u, trail>>] = Mined!AboveAll(higher(u, trail))
             /\ \A b \in below(u) : Above(b, trail \cup {u}) /\ Above(b, {u})
  <2>1. u \notin trail /\ <<u, trail>> \in units \X SUBSET units
    BY <1>1, <1>5
  <2>2. resolve[<<u, trail>>] = Resolved(units, pairs, resolve, <<u, trail>>)
    BY <1>3, <2>1 DEF IsResolution
  <2>3. Resolved(units, pairs, resolve, <<u, trail>>) = Mined!AboveAll(higher(u, trail))
    BY <2>1 DEF Resolved, below
  <2>4. ASSUME NEW b \in below(u), NEW t \in trail \cup {u} PROVE rank[b] < rank[t] /\ t \in units
    <3>1. t \in units /\ b \in units /\ (t = u \/ rank[u] < rank[t])
      BY <1>1, <1>5
    <3>2. rank[b] \in Nat /\ rank[u] \in Nat /\ rank[t] \in Nat /\ rank[b] < rank[u]
      BY <1>1, <3>1
    <3> QED
      BY <3>1, <3>2
  <2> HIDE DEF higher
  <2> QED
    BY <2>2, <2>3, <2>4
<1>6. ASSUME NEW u \in units PROVE Above(u, {})
  OBVIOUS
<1> HIDE DEF Above
<1>7. ASSUME NEW u \in units, \A b \in below(u) : Same(b)
      PROVE  /\ Same(u) /\ IsFiniteSet(higher(u, {})) /\ higher(u, {}) \in SUBSET Nat
             /\ higher(u, {}) = {resolve[<<b, {}>>] : b \in below(u)}
  <2>1. ASSUME NEW trail, Above(u, trail)
        PROVE  /\ higher(u, trail) = {resolve[<<b, {}>>] : b \in below(u)}
               /\ higher(u, trail) \in SUBSET Nat
    <3>1. ASSUME NEW b \in below(u)
          PROVE  /\ resolve[<<b, trail \cup {u}>>] = resolve[<<b, {}>>]
                 /\ resolve[<<b, trail \cup {u}>>] \in Nat
      BY <1>5, <1>7, <2>1
    <3> QED
      BY <3>1
  <2>2. Above(u, {})
    BY <1>6
  <2>3. /\ higher(u, {}) = {resolve[<<b, {}>>] : b \in below(u)}
        /\ higher(u, {}) \in SUBSET Nat
    BY <2>1, <2>2
  <2>4. IsFiniteSet(higher(u, {}))
    <3> DEFINE h == [b \in below(u) |-> resolve[<<b, {}>>]]
    <3>1. DOMAIN h = below(u) /\ {h[b] : b \in below(u)} = {resolve[<<b, {}>>] : b \in below(u)}
      OBVIOUS
    <3>2. IsFiniteSet({h[b] : b \in below(u)})
      <4> HIDE DEF h
      <4> QED
        BY <1>4, <3>1, ImageIsFinite
    <3> QED
      BY <2>3, <3>1, <3>2
  <2>5. ASSUME NEW trail, Above(u, trail)
        PROVE  resolve[<<u, trail>>] = resolve[<<u, {}>>] /\ resolve[<<u, trail>>] \in Nat
    <3>1. higher(u, trail) = higher(u, {})
      BY <2>1, <2>3, <2>5
    <3>2. /\ resolve[<<u, trail>>] = Mined!AboveAll(higher(u, trail))
          /\ resolve[<<u, {}>>] = Mined!AboveAll(higher(u, {}))
      BY <1>5, <2>2, <2>5
    <3> HIDE DEF higher
    <3>3. Mined!AboveAll(higher(u, {})) \in Nat
      BY <2>3, <2>4, OneAbove
    <3> QED
      BY <3>1, <3>2, <3>3
  <2> HIDE DEF higher
  <2> QED
    BY <2>3, <2>4, <2>5
<1>8. \A u \in units : Same(u)
  <2> DEFINE wrong == {u \in units : ~Same(u)}
             ranks == {rank[u] : u \in wrong}
  <2> SUFFICES ASSUME wrong # {} PROVE FALSE
    OBVIOUS
  <2>1. PICK n \in ranks : \A m \in ranks : n <= m
    <3>1. ranks # {} /\ ranks \in SUBSET Nat
      BY <1>1
    <3> HIDE DEF ranks
    <3> QED
      BY <3>1, LeastNumber
  <2> HIDE DEF Same
  <2>2. PICK u \in units : ~Same(u) /\ rank[u] = n
    BY <2>1
  <2>3. ASSUME NEW b \in below(u) PROVE Same(b)
    <3>1. b \in units /\ rank[b] < rank[u] /\ rank[b] \in Nat /\ rank[u] \in Nat
      BY <1>1 DEF below
    <3>2. ~(n <= rank[b])
      BY <2>2, <3>1
    <3> QED
      BY <2>1, <3>1, <3>2
  <2> QED
    BY <1>7, <2>2, <2>3
<1>9. ASSUME NEW u \in units
      PROVE  /\ layer[u] \in Nat
             /\ layer[u] = Mined!AboveAll({layer[b] : b \in below(u)})
             /\ {layer[b] : b \in below(u)} \in SUBSET Nat
             /\ IsFiniteSet({layer[b] : b \in below(u)})
             /\ below(u) \subseteq units
  <2>1. below(u) \subseteq units
    BY <1>1 DEF below
  <2>2. \A b \in below(u) : Same(b)
    BY <1>8, <2>1
  <2>3. /\ IsFiniteSet(higher(u, {})) /\ higher(u, {}) \in SUBSET Nat
        /\ higher(u, {}) = {resolve[<<b, {}>>] : b \in below(u)}
    BY <1>7, <2>2
  <2>4. {resolve[<<b, {}>>] : b \in below(u)} = {layer[b] : b \in below(u)}
    BY <1>2, <2>1
  <2>5. resolve[<<u, {}>>] = Mined!AboveAll(higher(u, {})) /\ resolve[<<u, {}>>] \in Nat
    <3>1. Above(u, {})
      BY <1>6
    <3> HIDE DEF higher
    <3>2. Same(u)
      BY <1>8
    <3> QED
      BY <1>5, <3>1, <3>2
  <2>6. layer[u] = resolve[<<u, {}>>]
    BY <1>2
  <2> HIDE DEF higher
  <2> QED
    BY <2>1, <2>3, <2>4, <2>5, <2>6
<1>10. ASSUME NEW u \in units
       PROVE  /\ \A b \in below(u) : b \in units /\ layer[b] < layer[u]
              /\ layer[u] > 0 => \E b \in below(u) : b \in units /\ layer[b] = layer[u] - 1
  <2> DEFINE layers == {layer[b] : b \in below(u)}
  <2>1. /\ layers \in SUBSET Nat /\ IsFiniteSet(layers) /\ layer[u] = Mined!AboveAll(layers)
        /\ below(u) \subseteq units /\ \A b \in below(u) : layer[b] \in layers
    BY <1>9
  <2>2. \A l \in layers : \E b \in below(u) : b \in units /\ layer[b] = l
    BY <2>1
  <2> HIDE DEF layers
  <2>3. /\ layers = {} => layer[u] = 0
        /\ \A l \in layers : l < layer[u]
        /\ layers # {} => \E l \in layers : layer[u] = l + 1
    BY <2>1, OneAbove
  <2>4. \A b \in below(u) : b \in units /\ layer[b] < layer[u]
    BY <2>1, <2>3
  <2>5. ASSUME layer[u] > 0 PROVE \E b \in below(u) : b \in units /\ layer[b] = layer[u] - 1
    <3>1. PICK l \in layers : layer[u] = l + 1
      BY <2>3, <2>5
    <3>2. layer[u] - 1 = l
      BY <2>1, <3>1
    <3> QED
      BY <2>2, <3>2
  <2> QED
    BY <2>4, <2>5
<1>11. layer \in [units -> Nat]
  BY <1>2, <1>9
<1>12. AreLayers(units, pairs, layer)
  BY <1>10, <1>11 DEF AreLayers, below
<1> QED
  BY <1>12 DEF layer

GroupIds == Mined!Groups(Sent)

GroupPairs == Mined!GroupEdges(SentRelationships)

Units == Mined!stronglyConnected(Mined!Dependencies(GroupIds, GroupPairs))

LayerOf(id) == Mined!layerComponents(Units, GroupPairs)[Mined!UnitOf(Units, id)]

InCycle(id) == Cardinality(Mined!UnitOf(Units, id)) > 1

(* Its components and its dependencies are among what is sent. *)
LEMMA GroupsAreThere ==
  ASSUME CountedInv
  PROVE  /\ IsFiniteSet(GroupIds)
         /\ GroupIds \subseteq {Mined!GroupOf(c) : c \in Components}
         /\ GroupPairs \in SUBSET (GroupIds \X GroupIds)
         /\ \A pair \in GroupPairs : pair = <<pair[1], pair[2]>> /\ pair[1] # pair[2]
<1>1. IsFiniteSet(GroupIds)
  <2> DEFINE f == [m \in Sent |-> Mined!GroupOf(m.id)]
  <2>1. DOMAIN f = Sent /\ GroupIds = {f[m] : m \in Sent}
    BY DEF GroupIds, Mined!Groups
  <2> HIDE DEF f
  <2> QED
    BY <2>1, SentIsFinite, ImageIsFinite
<1>2. GroupIds \subseteq {Mined!GroupOf(c) : c \in Components}
  <2>1. \A m \in Sent : m.id \in Components
    BY MessageFields
  <2> QED
    BY <2>1 DEF GroupIds, Mined!Groups
<1>3. ASSUME NEW r \in SentRelationships
      PROVE  Mined!GroupOf(r.source) \in GroupIds /\ Mined!GroupOf(r.target) \in GroupIds
  <2>1. r.source \in Known(collected) /\ r.target \in Known(collected)
    BY RelationshipFields
  <2>2. ASSUME NEW c \in Known(collected) PROVE Mined!GroupOf(c) \in GroupIds
    <3>1. ComponentMessage(c) \in Sent /\ ComponentMessage(c).id = c
      BY DEF Sent, ComponentMessage
    <3> QED
      BY <3>1 DEF GroupIds, Mined!Groups
  <2> QED
    BY <2>1, <2>2
<1>4. ASSUME NEW pair \in GroupPairs
      PROVE  /\ pair \in GroupIds \X GroupIds
             /\ pair = <<pair[1], pair[2]>> /\ pair[1] # pair[2]
  <2>1. PICK r \in SentRelationships :
          pair = <<Mined!GroupOf(r.source), Mined!GroupOf(r.target)>>
    BY DEF GroupPairs, Mined!GroupEdges
  <2>2. pair = <<pair[1], pair[2]>> /\ pair[1] # pair[2]
    BY FocusIsBehind DEF GroupPairs
  <2> QED
    BY <1>3, <2>1, <2>2
<1> QED
  BY <1>1, <1>2, <1>4

LEMMA UnitsAreLayered ==
  ASSUME CountedInv
  PROVE  /\ IsDivision(Units, GroupIds)
         /\ AreLayers(Units, GroupPairs, Mined!layerComponents(Units, GroupPairs))
         /\ \A id \in GroupIds : LayerOf(id) \in Nat
<1> DEFINE dependencies == Mined!Dependencies(GroupIds, GroupPairs)
           below == [u \in Units |-> Mined!BelowUnit(Units, u, GroupPairs)]
<1>1. IsFiniteSet(GroupIds) /\ GroupPairs \in SUBSET (GroupIds \X GroupIds)
  BY GroupsAreThere
<1>2. IsDivision(Units, GroupIds)
  <2>1. dependencies \in [GroupIds -> SUBSET GroupIds]
    BY <1>1 DEF Mined!Dependencies
  <2> HIDE DEF dependencies
  <2>2. IsDivision(Mined!stronglyConnected(dependencies), GroupIds)
    BY <2>1, UnitsDivide
  <2> QED
    BY <2>2 DEF Units, dependencies
<1>3. IsFiniteSet(Units)
  <2>1. IsFiniteSet(SUBSET GroupIds)
    BY <1>1, FS_SUBSET
  <2> QED
    BY <1>2, <2>1, FS_Subset DEF IsDivision
<1>4. PICK rank : Descends(below, Units, rank)
  BY <1>1, UnitsDescend DEF Units
<1>5. AreLayers(Units, GroupPairs, Mined!layerComponents(Units, GroupPairs))
  BY <1>3, <1>4, LayersAreResolved
<1>6. ASSUME NEW id \in GroupIds PROVE LayerOf(id) \in Nat
  BY <1>2, <1>5 DEF IsDivision, AreLayers, LayerOf
<1> QED
  BY <1>2, <1>5, <1>6

(* An edge goes down unless it stays in its unit, and something below each *)
(* unit holds it where it is.                                              *)
LEMMA EdgesGoDown ==
  ASSUME CountedInv
  PROVE  /\ \A pair \in GroupPairs :
              IF pair[2] \in Mined!UnitOf(Units, pair[1])
                THEN LayerOf(pair[1]) = LayerOf(pair[2]) /\ InCycle(pair[1])
                ELSE LayerOf(pair[1]) > LayerOf(pair[2])
         /\ \A id \in GroupIds :
              LayerOf(id) > 0 =>
                \E pair \in GroupPairs : /\ pair[1] \in Mined!UnitOf(Units, id)
                                         /\ LayerOf(pair[2]) = LayerOf(id) - 1
<1> DEFINE unitOf(id) == Mined!UnitOf(Units, id)
           layer == Mined!layerComponents(Units, GroupPairs)
<1>1. /\ IsFiniteSet(GroupIds)
      /\ \A pair \in GroupPairs : pair[1] \in GroupIds /\ pair[2] \in GroupIds /\ pair[1] # pair[2]
  BY GroupsAreThere
<1>2. IsDivision(Units, GroupIds) /\ AreLayers(Units, GroupPairs, layer)
  BY UnitsAreLayered
<1>3. ASSUME NEW id \in GroupIds
      PROVE  /\ id \in unitOf(id) /\ unitOf(id) \in Units /\ unitOf(id) \subseteq GroupIds
             /\ LayerOf(id) = layer[unitOf(id)] /\ LayerOf(id) \in Nat
             /\ \A other \in unitOf(id) : unitOf(other) = unitOf(id)
  BY <1>2, UnitsAreLayered DEF IsDivision, LayerOf
<1>4. \A u \in Units :
        /\ \A b \in Mined!BelowUnit(Units, u, GroupPairs) : layer[b] < layer[u]
        /\ layer[u] > 0 =>
             \E b \in Mined!BelowUnit(Units, u, GroupPairs) : layer[b] = layer[u] - 1
  BY <1>2 DEF AreLayers
<1> HIDE DEF unitOf, layer
<1>5. ASSUME NEW pair \in GroupPairs, pair[2] \in unitOf(pair[1])
      PROVE  LayerOf(pair[1]) = LayerOf(pair[2]) /\ InCycle(pair[1])
  <2>1. unitOf(pair[2]) = unitOf(pair[1])
    BY <1>1, <1>3, <1>5
  <2>2. {pair[1], pair[2]} \subseteq unitOf(pair[1]) /\ IsFiniteSet(unitOf(pair[1]))
    BY <1>1, <1>3, <1>5, FS_Subset
  <2>3. Cardinality({pair[1], pair[2]}) = 2
    <3>1. IsFiniteSet({pair[1]}) /\ Cardinality({pair[1]}) = 1
      BY FS_Singleton
    <3>2. Cardinality({pair[1]} \cup {pair[2]}) = 2
      <4>1. pair[2] \notin {pair[1]}
        BY <1>1
      <4>2. Cardinality({pair[1]} \cup {pair[2]}) = Cardinality({pair[1]}) + 1
        BY <3>1, <4>1, FS_AddElement
      <4> QED
        BY <3>1, <4>2
    <3>3. {pair[1]} \cup {pair[2]} = {pair[1], pair[2]}
      OBVIOUS
    <3> QED
      BY <3>2, <3>3
  <2>4. Cardinality(unitOf(pair[1])) \in Nat /\ Cardinality(unitOf(pair[1])) >= 2
    BY <2>2, <2>3, FS_Subset, FS_CardinalityType
  <2> QED
    BY <1>1, <1>3, <2>1, <2>4 DEF InCycle, unitOf
<1>6. ASSUME NEW pair \in GroupPairs, pair[2] \notin unitOf(pair[1])
      PROVE  LayerOf(pair[1]) > LayerOf(pair[2])
  <2>1. unitOf(pair[2]) # unitOf(pair[1])
    BY <1>1, <1>3, <1>6
  <2>2. unitOf(pair[2]) \in Mined!BelowUnit(Units, unitOf(pair[1]), GroupPairs)
    BY <1>1, <1>3, <2>1 DEF Mined!BelowUnit, unitOf
  <2>3. layer[unitOf(pair[2])] < layer[unitOf(pair[1])]
    BY <1>1, <1>3, <1>4, <2>2
  <2> QED
    BY <1>1, <1>3, <2>3
<1>7. ASSUME NEW id \in GroupIds, LayerOf(id) > 0
      PROVE  \E pair \in GroupPairs : /\ pair[1] \in unitOf(id)
                                      /\ LayerOf(pair[2]) = LayerOf(id) - 1
  <2>1. PICK b \in Mined!BelowUnit(Units, unitOf(id), GroupPairs) :
          layer[b] = layer[unitOf(id)] - 1
    BY <1>3, <1>4, <1>7
  <2>2. PICK pair \in GroupPairs : pair[1] \in unitOf(id) /\ b = unitOf(pair[2])
    BY DEF Mined!BelowUnit, unitOf
  <2>3. LayerOf(pair[2]) = LayerOf(id) - 1
    BY <1>1, <1>3, <2>1, <2>2
  <2> QED
    BY <2>2, <2>3
<1> QED
  BY <1>5, <1>6, <1>7 DEF unitOf

(* A group in a cycle has an edge within its unit. *)
LEMMA CyclesHaveEdges ==
  ASSUME CountedInv, NEW id \in GroupIds, InCycle(id)
  PROVE  \E pair \in GroupPairs : pair[1] = id /\ pair[2] \in Mined!UnitOf(Units, id)
<1> DEFINE dependencies == Mined!Dependencies(GroupIds, GroupPairs)
           leads(a, b) == Leads(a, b, dependencies)
           unit == Mined!UnitOf(Units, id)
<1>1. /\ IsFiniteSet(GroupIds) /\ GroupPairs \in SUBSET (GroupIds \X GroupIds)
      /\ \A pair \in GroupPairs : pair = <<pair[1], pair[2]>>
  BY GroupsAreThere
<1>2. /\ dependencies \in [GroupIds -> SUBSET GroupIds] /\ DOMAIN dependencies = GroupIds
      /\ \A a \in GroupIds : \A b \in dependencies[a] : b \in GroupIds /\ <<a, b>> \in GroupPairs
  BY <1>1 DEF Mined!Dependencies
<1> HIDE DEF dependencies
<1>3. /\ \A a, b \in GroupIds :
           b \in Mined!UnitOf(Units, a) <=> b = a \/ (leads(a, b) /\ leads(b, a))
      /\ id \in unit /\ unit \subseteq GroupIds
  <2>1. Units = Mined!stronglyConnected(dependencies)
    BY DEF Units, dependencies
  <2>2. /\ IsDivision(Units, GroupIds)
        /\ \A a, b \in GroupIds :
             b \in Mined!UnitOf(Units, a) <=> b = a \/ (leads(a, b) /\ leads(b, a))
    BY <1>2, <2>1, UnitsDivide
  <2> QED
    BY <2>2 DEF IsDivision
<1>4. /\ \A a \in GroupIds : \A b \in dependencies[a] : leads(a, b)
      /\ \A a, b, c \in GroupIds : leads(a, b) /\ leads(b, c) => leads(a, c)
  BY <1>2, LeadsOn
<1>5. PICK other \in unit : other # id
  <2> SUFFICES ASSUME \A other \in unit : other = id PROVE FALSE
    OBVIOUS
  <2>1. unit = {id}
    BY <1>3
  <2>2. Cardinality(unit) = 1
    BY <2>1, FS_Singleton
  <2> QED
    BY <2>2 DEF InCycle
<1>6. other \in GroupIds /\ leads(id, other) /\ leads(other, id)
  BY <1>3, <1>5
<1> DEFINE S == {x \in GroupIds : \E d \in dependencies[id] : x = d \/ leads(d, x)}
<1>7. Mined!Closed(S, id, dependencies)
  <2>1. dependencies[id] \subseteq S
    BY <1>2
  <2>2. ASSUME NEW n \in S PROVE dependencies[n] \subseteq S
    <3>1. PICK d \in dependencies[id] : n = d \/ leads(d, n)
      OBVIOUS
    <3>2. d \in GroupIds /\ n \in GroupIds
      BY <1>2
    <3>3. ASSUME NEW m \in dependencies[n] PROVE m \in GroupIds /\ leads(d, m)
      <4>1. m \in GroupIds /\ leads(n, m)
        BY <1>2, <1>4, <3>2
      <4> QED
        BY <1>4, <3>1, <3>2, <4>1
    <3> QED
      BY <3>3
  <2> QED
    BY <2>1, <2>2 DEF Mined!Closed
<1>8. other \in S
  BY <1>2, <1>6, <1>7 DEF Leads
<1>9. PICK d \in dependencies[id] : other = d \/ leads(d, other)
  BY <1>8
<1>10. d \in GroupIds /\ <<id, d>> \in GroupPairs /\ leads(id, d) /\ leads(d, id)
  BY <1>2, <1>4, <1>6, <1>9
<1>11. d \in unit
  BY <1>3, <1>10
<1> QED
  BY <1>10, <1>11

Report == Mined!buildStrategyReport(Sent, SentRelationships)

GroupRow(id) ==
  [id |-> id,
   components |-> Cardinality({m \in Sent : Mined!GroupOf(m.id) = id}),
   layer |-> LayerOf(id),
   inCycle |-> InCycle(id)]

EdgeRow(pair) ==
  [source |-> pair[1], target |-> pair[2],
   weight |-> Cardinality(Mined!Behind(SentRelationships, pair)),
   cyclic |-> pair[2] \in Mined!UnitOf(Units, pair[1]) /\ InCycle(pair[1])]

TopLayer == Mined!Sets!Max({0} \cup {LayerOf(id) : id \in GroupIds})

(* The greatest of some numbers that are indexed. *)
LEMMA HighestOf ==
  ASSUME NEW S, IsFiniteSet(S), NEW of \in [S -> Nat], NEW least \in Nat
  PROVE  LET max == Mined!Sets!Max({least} \cup {of[n] : n \in S}) IN
           max \in Nat /\ least <= max /\ \A n \in S : of[n] <= max
<1> DEFINE image == {of[n] : n \in S}
           all == image \cup {least}
           max == Mined!Sets!Max(all)
<1>1. all \in SUBSET Int /\ all \in SUBSET Nat /\ all # {} /\ least \in all
      /\ \A n \in S : of[n] \in all
  OBVIOUS
<1>2. IsFiniteSet(image)
  BY ImageIsFinite
<1>3. IsFiniteSet(all)
  <2> HIDE DEF image
  <2> QED
    BY <1>2, FS_AddElement
<1>4. max = CHOOSE n \in all : \A m \in all : n >= m
  BY DEF Mined!Sets!Max
<1>5. {least} \cup image = all
  OBVIOUS
<1> HIDE DEF all
<1>6. \E n \in all : \A m \in all : n >= m
  BY <1>1, <1>3, GreatestNumber
<1>7. max \in all /\ \A m \in all : max >= m
  BY <1>4, <1>6
<1> HIDE DEF max
<1>8. max \in Nat /\ \A m \in all : m <= max
  BY <1>1, <1>7
<1> QED
  BY <1>1, <1>5, <1>8 DEF max

LEMMA ReportIs ==
  ASSUME CountedInv
  PROVE  /\ Report.groups = {GroupRow(id) : id \in GroupIds}
         /\ Report.edges = {EdgeRow(pair) : pair \in GroupPairs}
         /\ TopLayer \in Nat /\ \A id \in GroupIds : LayerOf(id) \in 0 .. TopLayer
         /\ Report.layers = [layer \in 0 .. TopLayer |-> {id \in GroupIds : LayerOf(id) = layer}]
<1>1. Report.groups = {GroupRow(id) : id \in GroupIds}
  BY CountedAlike
     DEF Report, Mined!buildStrategyReport, GroupRow, GroupIds, LayerOf, InCycle, Units, GroupPairs
<1>2. Report.edges = {EdgeRow(pair) : pair \in GroupPairs}
  BY CountedAlike
     DEF Report, Mined!buildStrategyReport, EdgeRow, GroupIds, InCycle, Units, GroupPairs
<1>3. Report.layers =
        [layer \in 0 .. Mined!Sets!Max({0} \cup {g.layer : g \in Report.groups}) |->
           {g.id : g \in {h \in Report.groups : h.layer = layer}}]
  BY DEF Report, Mined!buildStrategyReport
<1>4. \A id : GroupRow(id).id = id /\ GroupRow(id).layer = LayerOf(id)
  BY DEF GroupRow
<1>5. {g.layer : g \in Report.groups} = {LayerOf(id) : id \in GroupIds}
  BY <1>1, <1>4
<1>6. TopLayer \in Nat /\ \A id \in GroupIds : LayerOf(id) \in 0 .. TopLayer
  <2> DEFINE of == [id \in GroupIds |-> LayerOf(id)]
  <2>1. of \in [GroupIds -> Nat] /\ IsFiniteSet(GroupIds)
    BY GroupsAreThere, UnitsAreLayered
  <2>2. /\ {of[id] : id \in GroupIds} = {LayerOf(id) : id \in GroupIds}
        /\ \A id \in GroupIds : of[id] = LayerOf(id)
    OBVIOUS
  <2> HIDE DEF of
  <2>3. LET max == Mined!Sets!Max({0} \cup {of[id] : id \in GroupIds}) IN
          max \in Nat /\ \A id \in GroupIds : of[id] <= max
    BY <2>1, HighestOf
  <2>4. TopLayer \in Nat /\ \A id \in GroupIds : of[id] <= TopLayer
    BY <2>2, <2>3 DEF TopLayer
  <2> QED
    BY <2>1, <2>2, <2>4
<1>7. ASSUME NEW layer
      PROVE  {g.id : g \in {h \in Report.groups : h.layer = layer}}
               = {id \in GroupIds : LayerOf(id) = layer}
  BY <1>1, <1>4
<1>8. Report.layers = [layer \in 0 .. TopLayer |-> {id \in GroupIds : LayerOf(id) = layer}]
  BY <1>3, <1>5, <1>7 DEF TopLayer
<1> QED
  BY <1>1, <1>2, <1>6, <1>8

LEMMA ReportIsTyped ==
  ASSUME CountedInv
  PROVE  Mined!IsStrategyReport(Report, GroupIds)
<1>1. /\ Report.groups = {GroupRow(id) : id \in GroupIds}
      /\ Report.edges = {EdgeRow(pair) : pair \in GroupPairs}
      /\ \A id \in GroupIds : LayerOf(id) \in 0 .. TopLayer /\ LayerOf(id) \in Nat
      /\ Report.layers = [layer \in 0 .. TopLayer |-> {id \in GroupIds : LayerOf(id) = layer}]
  BY ReportIs
<1>2. ASSUME NEW id \in GroupIds PROVE GroupRow(id) \in Mined!StrategyGroup(GroupIds)
  <2> DEFINE members == {m \in Sent : Mined!GroupOf(m.id) = id}
  <2>1. IsFiniteSet(members)
    BY SentIsFinite, FS_Subset
  <2>2. members # {}
    BY DEF GroupIds, Mined!Groups
  <2> HIDE DEF members
  <2>3. Cardinality(members) \in Nat \ {0}
    BY <2>1, <2>2, FS_CardinalityType, FS_EmptySet
  <2>4. InCycle(id) \in BOOLEAN
    BY DEF InCycle
  <2> QED
    BY <1>1, <2>3, <2>4 DEF GroupRow, Mined!StrategyGroup, members
<1>3. ASSUME NEW pair \in GroupPairs PROVE EdgeRow(pair) \in Mined!StrategyEdge(GroupIds)
  <2> DEFINE behind == Mined!Behind(SentRelationships, pair)
  <2>1. IsFiniteSet(behind)
    BY SentRelationshipsAreFinite, FS_Subset DEF Mined!Behind
  <2>2. behind # {}
    BY DEF GroupPairs, Mined!GroupEdges, Mined!Behind
  <2> HIDE DEF behind
  <2>3. Cardinality(behind) \in Nat \ {0}
    BY <2>1, <2>2, FS_CardinalityType, FS_EmptySet
  <2>4. pair[1] \in GroupIds /\ pair[2] \in GroupIds
    BY GroupsAreThere
  <2> QED
    BY <2>3, <2>4 DEF EdgeRow, Mined!StrategyEdge, behind, InCycle
<1>4. ASSUME NEW id \in GroupIds
      PROVE  /\ Mined!Cardinality({g \in Report.groups : g.id = id}) = 1
             /\ Mined!Cardinality({layer \in DOMAIN Report.layers : id \in Report.layers[layer]}) = 1
  <2>1. \A other : GroupRow(other).id = other
    BY DEF GroupRow
  <2>2. {g \in Report.groups : g.id = id} = {GroupRow(id)}
    BY <1>1, <2>1
  <2>3. {layer \in DOMAIN Report.layers : id \in Report.layers[layer]} = {LayerOf(id)}
    BY <1>1
  <2> QED
    BY <2>2, <2>3, FS_Singleton, CountedAlike
<1> QED
  BY <1>1, <1>2, <1>3, <1>4 DEF Mined!IsStrategyReport

(* What IsLayered and IsDrawnInOrder choose for a group is its row. *)
LEMMA RowOfGroup ==
  ASSUME CountedInv, NEW id \in GroupIds
  PROVE  (CHOOSE g \in Report.groups : g.id = id) = GroupRow(id)
<1>1. Report.groups = {GroupRow(other) : other \in GroupIds}
  BY ReportIs
<1>2. \A other : GroupRow(other).id = other
  BY DEF GroupRow
<1> QED
  BY <1>1, <1>2

LEMMA EdgesOfReport ==
  ASSUME CountedInv
  PROVE  /\ \A pair \in GroupPairs :
              /\ EdgeRow(pair) \in Report.edges
              /\ EdgeRow(pair).source = pair[1] /\ EdgeRow(pair).target = pair[2]
              /\ EdgeRow(pair).cyclic <=> pair[2] \in Mined!UnitOf(Units, pair[1])
         /\ \A edge \in Report.edges :
              /\ \E pair \in GroupPairs : edge = EdgeRow(pair)
              /\ edge.source \in GroupIds /\ edge.target \in GroupIds
              /\ IF edge.cyclic THEN LayerOf(edge.source) = LayerOf(edge.target)
                 ELSE LayerOf(edge.source) > LayerOf(edge.target)
<1>1. Report.edges = {EdgeRow(pair) : pair \in GroupPairs}
  BY ReportIs
<1>2. ASSUME NEW pair \in GroupPairs
      PROVE  /\ EdgeRow(pair) \in Report.edges
             /\ EdgeRow(pair).source = pair[1] /\ EdgeRow(pair).target = pair[2]
             /\ EdgeRow(pair).cyclic <=> pair[2] \in Mined!UnitOf(Units, pair[1])
             /\ pair[1] \in GroupIds /\ pair[2] \in GroupIds
             /\ IF EdgeRow(pair).cyclic THEN LayerOf(pair[1]) = LayerOf(pair[2])
                ELSE LayerOf(pair[1]) > LayerOf(pair[2])
  <2>1. IF pair[2] \in Mined!UnitOf(Units, pair[1])
          THEN LayerOf(pair[1]) = LayerOf(pair[2]) /\ InCycle(pair[1])
          ELSE LayerOf(pair[1]) > LayerOf(pair[2])
    BY EdgesGoDown
  <2>2. /\ EdgeRow(pair).source = pair[1] /\ EdgeRow(pair).target = pair[2]
        /\ EdgeRow(pair).cyclic <=> pair[2] \in Mined!UnitOf(Units, pair[1]) /\ InCycle(pair[1])
    BY DEF EdgeRow
  <2>3. pair[1] \in GroupIds /\ pair[2] \in GroupIds
    BY GroupsAreThere
  <2> QED
    BY <1>1, <2>1, <2>2, <2>3
<1> QED
  BY <1>1, <1>2

LEMMA ReportIsLayered ==
  ASSUME CountedInv
  PROVE  IsLayered(Report, Units)
<1> DEFINE layer(id) == (CHOOSE g \in Report.groups : g.id = id).layer
<1>1. \A id : /\ GroupRow(id).id = id /\ GroupRow(id).layer = LayerOf(id)
              /\ GroupRow(id).inCycle = InCycle(id)
  BY DEF GroupRow
<1>2. ASSUME NEW id \in GroupIds PROVE layer(id) = LayerOf(id)
  <2>1. (CHOOSE g \in Report.groups : g.id = id) = GroupRow(id)
    BY RowOfGroup
  <2> QED
    BY <1>1, <2>1
<1> HIDE DEF layer
<1>3. ASSUME NEW e \in Report.edges
      PROVE  IF e.cyclic THEN layer(e.source) = layer(e.target)
             ELSE layer(e.source) > layer(e.target)
  BY <1>2, EdgesOfReport
<1>4. ASSUME NEW g \in Report.groups
      PROVE  /\ g.id \in GroupIds /\ g.layer = LayerOf(g.id) /\ g.inCycle = InCycle(g.id)
  BY <1>1, ReportIs
<1>5. ASSUME NEW g \in Report.groups, g.layer > 0
      PROVE  \E e \in Report.edges :
               e.source \in Mined!UnitOf(Units, g.id) /\ layer(e.target) = g.layer - 1
  <2>1. PICK pair \in GroupPairs :
          pair[1] \in Mined!UnitOf(Units, g.id) /\ LayerOf(pair[2]) = g.layer - 1
    BY <1>4, <1>5, EdgesGoDown
  <2>2. pair[2] \in GroupIds
    BY GroupsAreThere
  <2> QED
    BY <1>2, <2>1, <2>2, EdgesOfReport
<1>6. ASSUME NEW g \in Report.groups, g.inCycle
      PROVE  \E pair \in Mined!cycleSentences(Report) : g.id \in pair
  <2>1. PICK pair \in GroupPairs : pair[1] = g.id /\ pair[2] \in Mined!UnitOf(Units, g.id)
    BY <1>4, <1>6, CyclesHaveEdges
  <2>2. /\ EdgeRow(pair) \in Report.edges /\ EdgeRow(pair).cyclic
        /\ EdgeRow(pair).source = g.id
    BY <2>1, EdgesOfReport
  <2>3. {EdgeRow(pair).source, EdgeRow(pair).target} \in Mined!cycleSentences(Report)
    BY <2>2 DEF Mined!cycleSentences
  <2> QED
    BY <2>2, <2>3
<1>7. ASSUME NEW g \in Report.groups, NEW sentence \in Mined!cycleSentences(Report), g.id \in sentence
      PROVE  g.inCycle
  <2>1. PICK e \in Report.edges : e.cyclic /\ sentence = {e.source, e.target}
    BY DEF Mined!cycleSentences
  <2>2. PICK pair \in GroupPairs : e = EdgeRow(pair)
    BY EdgesOfReport
  <2>3. /\ e.source = pair[1] /\ e.target = pair[2]
        /\ pair[2] \in Mined!UnitOf(Units, pair[1]) /\ InCycle(pair[1])
        /\ pair[1] \in GroupIds
    BY <2>1, <2>2, EdgesOfReport, EdgesGoDown, GroupsAreThere
  <2>4. Mined!UnitOf(Units, pair[2]) = Mined!UnitOf(Units, pair[1])
    BY <2>3, UnitsAreLayered DEF IsDivision
  <2>5. InCycle(g.id)
    BY <1>7, <2>1, <2>3, <2>4 DEF InCycle
  <2> QED
    BY <1>4, <2>5
<1>8. ASSUME NEW g \in Report.groups
      PROVE  g.inCycle <=> \E pair \in Mined!cycleSentences(Report) : g.id \in pair
  BY <1>4, <1>6, <1>7 DEF InCycle
<1> QED
  BY <1>3, <1>5, <1>8 DEF IsLayered, layer

LEMMA GroupsAreOrdered ==
  ASSUME CountedInv
  PROVE  /\ \A S \in SUBSET GroupIds : IsFiniteSet(S) /\ IsStrictOrder(S, Mined!Alphabetical(S))
         /\ IsFiniteSet(Report.groups)
         /\ IsStrictOrder(Report.groups, Mined!HighestFirst(Report.groups))
<1> DEFINE all == {Mined!GroupOf(c) : c \in Components}
<1>1. IsFiniteSet(GroupIds) /\ GroupIds \subseteq all
  BY GroupsAreThere
<1>2. IsStrictOrder(all, Alphabetical(all))
  BY OrderAssumption
<1> HIDE DEF all
<1>3. \A a, b \in all : <<a, b>> \in Alphabetical(all) <=> Precedes(a, b)
  BY DEF Alphabetical
<1>4. /\ \A a, b \in GroupIds : a # b => (Precedes(a, b) <=> ~Precedes(b, a))
      /\ \A a, b, c \in GroupIds : Precedes(a, b) /\ Precedes(b, c) => Precedes(a, c)
      /\ \A a \in GroupIds : ~Precedes(a, a)
  BY <1>1, <1>2, <1>3 DEF IsStrictOrder
<1>5. ASSUME NEW S \in SUBSET GroupIds
      PROVE  IsFiniteSet(S) /\ IsStrictOrder(S, Mined!Alphabetical(S))
  <2>1. IsFiniteSet(S)
    BY <1>1, FS_Subset
  <2>2. \A a, b \in S : <<a, b>> \in Mined!Alphabetical(S) <=> Precedes(a, b)
    BY DEF Mined!Alphabetical
  <2> QED
    BY <1>4, <2>1, <2>2 DEF IsStrictOrder
<1> DEFINE groups == Report.groups
           before == Mined!HighestFirst(groups)
<1>6. /\ groups = {GroupRow(id) : id \in GroupIds}
      /\ \A id \in GroupIds : LayerOf(id) \in Nat
  BY ReportIs
<1>7. ASSUME NEW a \in groups
      PROVE  a.id \in GroupIds /\ a.layer \in Nat /\ a = GroupRow(a.id)
  <2>1. PICK id \in GroupIds : a = GroupRow(id)
    BY <1>6
  <2>2. a.id = id /\ a.layer = LayerOf(id)
    BY <2>1 DEF GroupRow
  <2> QED
    BY <1>6, <2>1, <2>2
<1>8. ASSUME NEW a \in groups, NEW b \in groups
      PROVE  <<a, b>> \in before <=>
               a.layer > b.layer \/ (a.layer = b.layer /\ Precedes(a.id, b.id))
  BY DEF Mined!HighestFirst, Mined!HigherFirst
<1>9. IsFiniteSet(groups)
  <2> DEFINE f == [id \in GroupIds |-> GroupRow(id)]
  <2>1. DOMAIN f = GroupIds /\ groups = {f[id] : id \in GroupIds}
    BY <1>6
  <2> HIDE DEF f, groups
  <2> QED
    BY <1>1, <2>1, ImageIsFinite
<1> HIDE DEF groups, before
<1>10. IsStrictOrder(groups, before)
  <2>1. ASSUME NEW a \in groups, NEW b \in groups, a # b
        PROVE  <<a, b>> \in before <=> <<b, a>> \notin before
    <3>1. a.id # b.id
      BY <1>7, <2>1
    <3> QED
      BY <1>4, <1>7, <1>8, <3>1
  <2>2. ASSUME NEW a \in groups, NEW b \in groups, NEW c \in groups,
               <<a, b>> \in before, <<b, c>> \in before
        PROVE  <<a, c>> \in before
    <3>1. /\ a.layer \in Nat /\ b.layer \in Nat /\ c.layer \in Nat
          /\ a.layer > b.layer \/ (a.layer = b.layer /\ Precedes(a.id, b.id))
          /\ b.layer > c.layer \/ (b.layer = c.layer /\ Precedes(b.id, c.id))
      BY <1>7, <1>8, <2>2
    <3>2. a.layer > c.layer \/ (a.layer = c.layer /\ Precedes(a.id, b.id) /\ Precedes(b.id, c.id))
      BY <3>1
    <3> QED
      BY <1>4, <1>7, <1>8, <3>2
  <2>3. ASSUME NEW a \in groups PROVE <<a, a>> \notin before
    BY <1>4, <1>7, <1>8
  <2> QED
    BY <2>1, <2>2, <2>3 DEF IsStrictOrder
<1> QED
  BY <1>5, <1>9, <1>10 DEF groups, before

(* An edge outside of cycles lies above the diagonal of the matrix.        *)
LEMMA MatrixIsOrdered ==
  ASSUME CountedInv, NEW cell \in Mined!createStrategyMatrix(Report), ~cell.cyclic
  PROVE  cell.column > cell.row
<1> DEFINE groups == Report.groups
           before == Mined!HighestFirst(groups)
           s == Sorted(groups, before)
           n == Cardinality(groups)
           order == Mined!matrixOrder(Report)
           place(id) == CHOOSE i \in DOMAIN order : order[i] = id
<1>1. /\ n \in Nat /\ s \in [1 .. n -> groups]
      /\ \A x \in groups : \E i \in 1 .. n : s[i] = x
      /\ \A i, j \in 1 .. n : i < j => <<s[i], s[j]>> \in before
  <2>1. IsFiniteSet(groups) /\ IsStrictOrder(groups, before)
    BY GroupsAreOrdered
  <2> HIDE DEF groups, before
  <2> QED
    BY <2>1, SortedIsTotal
<1>2. order = [i \in DOMAIN s |-> s[i].id]
  BY SortedAlike DEF Mined!matrixOrder
<1>3. PICK e \in Report.edges :
        cell.row = place(e.source) /\ cell.column = place(e.target) /\ ~e.cyclic
  BY DEF Mined!createStrategyMatrix
<1>4. \A a, b \in groups : <<a, b>> \in before => a.layer >= b.layer
  <2>1. ASSUME NEW a \in groups, NEW b \in groups, <<a, b>> \in before
        PROVE  a.layer > b.layer \/ a.layer = b.layer
    BY <2>1 DEF Mined!HighestFirst, Mined!HigherFirst
  <2>2. \A a \in groups : a.layer \in Nat
    <3>1. \A id \in GroupIds : GroupRow(id).layer \in Nat
      BY UnitsAreLayered DEF GroupRow
    <3> QED
      BY <3>1, ReportIs
  <2> HIDE DEF groups, before
  <2> QED
    BY <2>1, <2>2
<1>5. \A id \in GroupIds :
        GroupRow(id) \in groups /\ GroupRow(id).id = id /\ GroupRow(id).layer = LayerOf(id)
  BY ReportIs DEF GroupRow
<1>6. \A a \in groups : a = GroupRow(a.id)
  BY <1>5, ReportIs
<1> HIDE DEF order, s, before, groups, n
<1>7. ASSUME NEW id \in GroupIds
      PROVE  place(id) \in 1 .. n /\ s[place(id)] = GroupRow(id)
  <2>1. DOMAIN order = 1 .. n /\ \A i \in 1 .. n : order[i] = s[i].id /\ s[i] \in groups
    BY <1>1, <1>2
  <2>2. PICK i \in 1 .. n : s[i] = GroupRow(id)
    BY <1>1, <1>5
  <2>3. i \in DOMAIN order /\ order[i] = id
    BY <1>5, <2>1, <2>2
  <2>4. place(id) \in 1 .. n /\ order[place(id)] = id
    BY <2>1, <2>3
  <2> HIDE DEF place
  <2>5. s[place(id)].id = id /\ s[place(id)] \in groups
    BY <2>1, <2>4
  <2> QED
    BY <1>6, <2>4, <2>5
<1> HIDE DEF place
<1>8. e.source \in GroupIds /\ e.target \in GroupIds /\ LayerOf(e.source) > LayerOf(e.target)
  BY <1>3, EdgesOfReport
<1>9. /\ place(e.source) \in 1 .. n /\ place(e.target) \in 1 .. n
      /\ s[place(e.source)].layer = LayerOf(e.source)
      /\ s[place(e.target)].layer = LayerOf(e.target)
      /\ s[place(e.source)] \in groups /\ s[place(e.target)] \in groups
  BY <1>5, <1>7, <1>8
<1>10. LayerOf(e.source) \in Nat /\ LayerOf(e.target) \in Nat
  BY <1>8, UnitsAreLayered
<1>11. ~(place(e.target) <= place(e.source))
  <2>1. place(e.target) # place(e.source)
    BY <1>8, <1>9, <1>10
  <2>2. ~(place(e.target) < place(e.source))
    <3> SUFFICES ASSUME place(e.target) < place(e.source) PROVE FALSE
      OBVIOUS
    <3>1. <<s[place(e.target)], s[place(e.source)]>> \in before
      BY <1>1, <1>9
    <3>2. LayerOf(e.target) >= LayerOf(e.source)
      BY <1>4, <1>9, <3>1
    <3> QED
      BY <1>8, <1>10, <3>2
  <2>3. place(e.target) \in Int /\ place(e.source) \in Int
    BY <1>9
  <2> QED
    BY <2>1, <2>2, <2>3
<1>12. place(e.target) \in Int /\ place(e.source) \in Int
  BY <1>9
<1> QED
  BY <1>3, <1>11, <1>12

RowGroups(row) == {id \in GroupIds : LayerOf(id) = TopLayer - row}

(* Each row shows the groups of one layer, from the highest to the lowest. *)
LEMMA RowsAreLayers ==
  ASSUME CountedInv
  PROVE  LET rows == Mined!Rows(Report) IN
           /\ DOMAIN rows = 0 .. TopLayer
           /\ \A r \in 0 .. TopLayer :
                /\ DOMAIN rows[r] = 1 .. Len(rows[r]) /\ Len(rows[r]) \in Nat
                /\ \A c \in DOMAIN rows[r] : rows[r][c] \in RowGroups(r)
                /\ \A id \in RowGroups(r) : \E c \in DOMAIN rows[r] : rows[r][c] = id
<1> DEFINE rows == Mined!Rows(Report)
           before(S) == Mined!Alphabetical(S)
<1>1. /\ TopLayer \in Nat
      /\ Report.layers = [layer \in 0 .. TopLayer |-> {id \in GroupIds : LayerOf(id) = layer}]
  BY ReportIs
<1>2. Mined!Sets!Max(DOMAIN Report.layers) = TopLayer
  <2> DEFINE all == 0 .. TopLayer
  <2>1. DOMAIN Report.layers = all
    BY <1>1
  <2>2. TopLayer \in all /\ \A m \in all : TopLayer >= m
    BY <1>1
  <2>3. \A n \in all : (\A m \in all : n >= m) => n = TopLayer
    BY <1>1, <2>2
  <2>4. Mined!Sets!Max(all) = CHOOSE n \in all : \A m \in all : n >= m
    BY DEF Mined!Sets!Max
  <2> HIDE DEF all
  <2> QED
    BY <2>1, <2>2, <2>3, <2>4
<1>3. rows = [r \in 0 .. TopLayer |->
                Sorted(Report.layers[TopLayer - r], before(Report.layers[TopLayer - r]))]
  BY <1>2, SortedAlike DEF Mined!Rows
<1> HIDE DEF rows
<1>4. ASSUME NEW r \in 0 .. TopLayer
      PROVE  /\ Report.layers[TopLayer - r] = RowGroups(r)
             /\ rows[r] = Sorted(RowGroups(r), before(RowGroups(r)))
  <2>1. TopLayer - r \in 0 .. TopLayer
    BY <1>1
  <2>2. Report.layers[TopLayer - r] = RowGroups(r)
    BY <1>1, <2>1 DEF RowGroups
  <2> HIDE DEF before
  <2> QED
    BY <1>3, <2>2
<1>5. ASSUME NEW r \in 0 .. TopLayer
      PROVE  /\ DOMAIN rows[r] = 1 .. Len(rows[r]) /\ Len(rows[r]) \in Nat
             /\ \A c \in DOMAIN rows[r] : rows[r][c] \in RowGroups(r)
             /\ \A id \in RowGroups(r) : \E c \in DOMAIN rows[r] : rows[r][c] = id
  <2> DEFINE S == RowGroups(r)
             n == Cardinality(S)
             s == Sorted(S, before(S))
  <2>1. IsFiniteSet(S) /\ IsStrictOrder(S, before(S))
    BY GroupsAreOrdered DEF RowGroups
  <2>2. /\ n \in Nat /\ Len(s) = n /\ s \in [1 .. n -> S]
        /\ \A x \in S : \E i \in 1 .. n : s[i] = x
    <3> HIDE DEF S, before
    <3> QED
      BY <2>1, SortedIsTotal
  <2>3. rows[r] = s
    BY <1>4
  <2> HIDE DEF s, n, S
  <2> QED
    BY <2>2, <2>3 DEF S
<1>6. DOMAIN rows = 0 .. TopLayer
  BY <1>3
<1> QED
  BY <1>5, <1>6 DEF rows

(* Nodes in one row are side by side, and rows are below each other.       *)
LEMMA MapIsOrdered ==
  ASSUME CountedInv
  PROVE  LET nodes == Mined!createStrategyMap(Report).nodes IN
           /\ \A m, n \in nodes :
                m # n => \/ m.y # n.y
                         \/ m.x + Mined!NODE_WIDTH < n.x
                         \/ n.x + Mined!NODE_WIDTH < m.x
           /\ \A id \in GroupIds : \E n \in nodes : n.id = id
           /\ \A n \in nodes : /\ n.id \in GroupIds
                               /\ n.y = Mined!CANVAS_MARGIN + (TopLayer - LayerOf(n.id))
                                          * (Mined!NODE_HEIGHT + Mined!ROW_GAP)
<1> DEFINE rows == Mined!Rows(Report)
           lengths == [r \in 0 .. TopLayer |-> Len(rows[r])]
           widest == Mined!Sets!Max({1} \cup {Len(rows[r]) : r \in DOMAIN rows})
           canvasWidth == Mined!RowWidth(widest) + 2 * Mined!CANVAS_MARGIN
           left(r) == (canvasWidth - Mined!RowWidth(Len(rows[r]))) \div 2
           node(r, c) == [id |-> rows[r][c],
                          focuses |-> [source |-> rows[r][c], target |-> <<>>],
                          x |-> left(r) + (c - 1) * (Mined!NODE_WIDTH + Mined!COLUMN_GAP),
                          y |-> Mined!CANVAS_MARGIN + r * (Mined!NODE_HEIGHT + Mined!ROW_GAP)]
           nodes == Mined!createStrategyMap(Report).nodes
<1>1. /\ TopLayer \in Nat /\ \A id \in GroupIds : LayerOf(id) \in 0 .. TopLayer
  BY ReportIs
<1>2. /\ DOMAIN rows = 0 .. TopLayer
      /\ \A r \in 0 .. TopLayer :
           /\ DOMAIN rows[r] = 1 .. Len(rows[r]) /\ Len(rows[r]) \in Nat
           /\ \A c \in DOMAIN rows[r] : rows[r][c] \in RowGroups(r)
           /\ \A id \in RowGroups(r) : \E c \in DOMAIN rows[r] : rows[r][c] = id
  BY RowsAreLayers
<1>3. nodes = UNION {{node(r, c) : c \in DOMAIN rows[r]} : r \in DOMAIN rows}
  BY DEF Mined!createStrategyMap, Mined!DrawnGroups
<1> HIDE DEF rows, nodes
<1>4. canvasWidth \in Int
  <2>1. lengths \in [0 .. TopLayer -> Nat] /\ IsFiniteSet(0 .. TopLayer)
    <3>1. IsFiniteSet(0 .. TopLayer)
      BY <1>1, FS_Interval
    <3> QED
      BY <1>2, <3>1
  <2>2. {lengths[r] : r \in 0 .. TopLayer} = {Len(rows[r]) : r \in DOMAIN rows}
    BY <1>2
  <2> HIDE DEF lengths
  <2>3. Mined!Sets!Max({1} \cup {lengths[r] : r \in 0 .. TopLayer}) \in Nat
    <3> DEFINE interval == 0 .. TopLayer
    <3>1. lengths \in [interval -> Nat] /\ IsFiniteSet(interval) /\ 1 \in Nat
      BY <2>1
    <3> HIDE DEF interval
    <3>2. Mined!Sets!Max({1} \cup {lengths[r] : r \in interval}) \in Nat
      BY <3>1, HighestOf
    <3> QED
      BY <3>2 DEF interval
  <2>4. widest \in Nat
    BY <2>2, <2>3
  <2> HIDE DEF widest
  <2> QED
    BY <2>4 DEF Mined!RowWidth, Mined!NODE_WIDTH, Mined!COLUMN_GAP, Mined!CANVAS_MARGIN
<1> HIDE DEF canvasWidth
<1>5. \A r \in 0 .. TopLayer : left(r) \in Int
  <2>1. ASSUME NEW r \in 0 .. TopLayer
        PROVE  canvasWidth - Mined!RowWidth(Len(rows[r])) \in Int
    BY <1>2, <1>4 DEF Mined!RowWidth, Mined!NODE_WIDTH, Mined!COLUMN_GAP
  <2> QED
    BY <2>1
<1> HIDE DEF left
<1>6. ASSUME NEW n \in nodes
      PROVE  \E r \in 0 .. TopLayer : \E c \in 1 .. Len(rows[r]) :
               /\ n = node(r, c) /\ Len(rows[r]) \in Nat
               /\ rows[r][c] \in RowGroups(r)
  <2>1. PICK r \in DOMAIN rows : n \in {node(r, c) : c \in DOMAIN rows[r]}
    BY <1>3
  <2>2. PICK c \in DOMAIN rows[r] : n = node(r, c)
    BY <2>1
  <2> HIDE DEF node
  <2> QED
    BY <1>2, <2>1, <2>2
<1>7. \A r, c : /\ node(r, c).id = rows[r][c]
                /\ node(r, c).x = left(r) + (c - 1) * 248
                /\ node(r, c).y = 24 + r * 124
  BY DEF Mined!NODE_WIDTH, Mined!COLUMN_GAP, Mined!CANVAS_MARGIN, Mined!NODE_HEIGHT, Mined!ROW_GAP
<1> HIDE DEF node
<1>8. ASSUME NEW n \in nodes
      PROVE  n.id \in GroupIds /\ n.y = 24 + (TopLayer - LayerOf(n.id)) * 124
  <2>1. PICK r \in 0 .. TopLayer :
          \E c \in 1 .. Len(rows[r]) : n = node(r, c) /\ rows[r][c] \in RowGroups(r)
    BY <1>6
  <2>2. PICK c \in 1 .. Len(rows[r]) : n = node(r, c) /\ rows[r][c] \in RowGroups(r)
    BY <2>1
  <2>3. n.id \in GroupIds /\ LayerOf(n.id) = TopLayer - r /\ n.y = 24 + r * 124
    BY <1>7, <2>2 DEF RowGroups
  <2>4. TopLayer - LayerOf(n.id) = r
    BY <1>1, <2>3
  <2> QED
    BY <2>3, <2>4
<1>9. ASSUME NEW id \in GroupIds PROVE \E n \in nodes : n.id = id
  <2> DEFINE r == TopLayer - LayerOf(id)
  <2>1. r \in 0 .. TopLayer /\ LayerOf(id) = TopLayer - r
    BY <1>1
  <2> HIDE DEF r
  <2>2. id \in RowGroups(r)
    BY <2>1 DEF RowGroups
  <2>3. PICK c \in DOMAIN rows[r] : rows[r][c] = id
    BY <1>2, <2>1, <2>2
  <2>4. node(r, c) \in nodes
    BY <1>2, <1>3, <2>1
  <2> QED
    BY <1>7, <2>3, <2>4
<1>10. ASSUME NEW m \in nodes, NEW n \in nodes, m # n
       PROVE  m.y # n.y \/ m.x + 200 < n.x \/ n.x + 200 < m.x
  <2>1. PICK r \in 0 .. TopLayer : \E c \in 1 .. Len(rows[r]) : m = node(r, c) /\ Len(rows[r]) \in Nat
    BY <1>6
  <2>2. PICK c \in 1 .. Len(rows[r]) : m = node(r, c) /\ Len(rows[r]) \in Nat
    BY <2>1
  <2>3. PICK q \in 0 .. TopLayer : \E d \in 1 .. Len(rows[q]) : n = node(q, d) /\ Len(rows[q]) \in Nat
    BY <1>6
  <2>4. PICK d \in 1 .. Len(rows[q]) : n = node(q, d) /\ Len(rows[q]) \in Nat
    BY <2>3
  <2>5. CASE r # q
    <3>1. m.y = 24 + r * 124 /\ n.y = 24 + q * 124 /\ r \in Int /\ q \in Int
      BY <1>7, <2>2, <2>4
    <3>2. 24 + r * 124 # 24 + q * 124
      BY <2>5, <3>1
    <3> QED
      BY <3>1, <3>2
  <2>6. CASE r = q
    <3>1. c # d /\ c \in Int /\ d \in Int /\ left(r) \in Int
      BY <1>5, <1>10, <2>2, <2>4, <2>6
    <3>2. m.x = left(r) + (c - 1) * 248 /\ n.x = left(r) + (d - 1) * 248
      BY <1>7, <2>2, <2>4, <2>6
    <3>3. \/ left(r) + (c - 1) * 248 + 200 < left(r) + (d - 1) * 248
          \/ left(r) + (d - 1) * 248 + 200 < left(r) + (c - 1) * 248
      BY <3>1
    <3> QED
      BY <3>2, <3>3
  <2> QED
    BY <2>5, <2>6
<1> QED
  BY <1>8, <1>9, <1>10
     DEF nodes, Mined!NODE_WIDTH, Mined!CANVAS_MARGIN, Mined!NODE_HEIGHT, Mined!ROW_GAP

LEMMA ReportIsDrawnInOrder ==
  ASSUME CountedInv
  PROVE  IsDrawnInOrder(Report)
<1> DEFINE drawn == Mined!createStrategyMap(Report)
           node == [id \in {g.id : g \in Report.groups} |-> CHOOSE n \in drawn.nodes : n.id = id]
           y(id) == 24 + (TopLayer - LayerOf(id)) * 124
<1>1. /\ \A m, n \in drawn.nodes :
           m # n => m.y # n.y \/ m.x + Mined!NODE_WIDTH < n.x \/ n.x + Mined!NODE_WIDTH < m.x
      /\ \A id \in GroupIds : \E n \in drawn.nodes : n.id = id
      /\ \A n \in drawn.nodes : n.y = Mined!CANVAS_MARGIN + (TopLayer - LayerOf(n.id))
                                       * (Mined!NODE_HEIGHT + Mined!ROW_GAP)
  BY MapIsOrdered
<1>2. \A n \in drawn.nodes : n.y = y(n.id)
  BY <1>1 DEF Mined!CANVAS_MARGIN, Mined!NODE_HEIGHT, Mined!ROW_GAP
<1>3. {g.id : g \in Report.groups} = GroupIds
  <2>1. \A id : GroupRow(id).id = id
    BY DEF GroupRow
  <2> QED
    BY <2>1, ReportIs
<1>4. drawn.links = {Mined!buildEdge(e) : e \in Report.edges}
  BY DEF Mined!createStrategyMap
<1> HIDE DEF drawn
<1>5. ASSUME NEW id \in GroupIds PROVE node[id].y = y(id)
  <2>1. node[id] = CHOOSE n \in drawn.nodes : n.id = id
    BY <1>3
  <2> HIDE DEF node, y
  <2>2. node[id] \in drawn.nodes /\ node[id].id = id
    BY <1>1, <2>1
  <2> QED
    BY <1>2, <2>2
<1>6. ASSUME NEW link \in drawn.links, ~link.dashed
      PROVE  node[link.source].y + Mined!NODE_HEIGHT < node[link.target].y
  <2>1. PICK e \in Report.edges : link = Mined!buildEdge(e)
    BY <1>4
  <2>2. link.source = e.source /\ link.target = e.target /\ ~e.cyclic
    BY <1>6, <2>1 DEF Mined!buildEdge
  <2>3. /\ e.source \in GroupIds /\ e.target \in GroupIds
        /\ LayerOf(e.source) > LayerOf(e.target)
    BY <2>2, EdgesOfReport
  <2>4. LayerOf(e.source) \in Nat /\ LayerOf(e.target) \in Nat /\ TopLayer \in Nat
    BY <2>3, UnitsAreLayered, ReportIs
  <2>5. y(e.source) + 52 < y(e.target)
    BY <2>3, <2>4
  <2> HIDE DEF node, y
  <2> QED
    BY <1>5, <2>2, <2>3, <2>5 DEF Mined!NODE_HEIGHT
<1> HIDE DEF y
<1> QED
  BY <1>1, <1>6, MatrixIsOrdered DEF IsDrawnInOrder, drawn

(* Whatever the groups of a repository and however they depend on each     *)
(* other: a layer is one above the highest below it, only cycles go against*)
(* the layers, and the map and the matrix show it so.                      *)
THEOREM LayersFollowDependencies == Spec => []LayersAreSound
<1>1. CountedInv => LayersAreSound
  <2> SUFFICES ASSUME CountedInv, phase = "built" PROVE LayersAreSound
    BY DEF LayersAreSound
  <2>1. Received.components = Sent /\ Received.relationships = SentRelationships
    BY DEF Received, Sent, SentRelationships
  <2> QED
    BY <2>1, ReportIsTyped, ReportIsLayered, ReportIsDrawnInOrder
       DEF LayersAreSound, Report, Units, GroupIds, GroupPairs
<1> QED
  BY <1>1, CountedInvInit, CountedInvNext, PTL DEF Spec

-----------------------------------------------------------------------------
(* The buckets of the distribution *)

(* What a distance can be: a quotient from 0 to 1, not rounded beyond.     *)
IsDistance(d) ==
  /\ d = [exact |-> <<d.exact[1], d.exact[2]>>, ulps |-> d.ulps]
  /\ d.exact[1] \in Nat /\ d.exact[2] \in Nat \ {0} /\ d.ulps \in Int
  /\ d.exact[1] <= d.exact[2]
  /\ d.exact[1] = 0 => d.ulps >= 0
  /\ d.exact[1] = d.exact[2] => d.ulps <= 0

StartUlps(i) == IF i \in {3, 6, 7} THEN 1 ELSE 0
EndUlps(i) == IF i \in {2, 6} THEN 1 ELSE 0

Starts(d, i) ==
  i * d.exact[2] <= d.exact[1] * 10 /\ (d.exact[1] * 10 <= i * d.exact[2] => StartUlps(i) <= d.ulps)
Ends(d, i) ==
  /\ (i + 1) * d.exact[2] <= d.exact[1] * 10
  /\ d.exact[1] * 10 <= (i + 1) * d.exact[2] => EndUlps(i) <= d.ulps

LEMMA BucketsAreIntervals ==
  ASSUME NEW d, IsDistance(d), NEW i \in 0 .. 9
  PROVE  Weighed!InBucket(d, i) <=> Starts(d, i) /\ (i = 9 \/ ~Ends(d, i))
<1> DEFINE p == d.exact[1]
           q == d.exact[2]
           u == d.ulps
<1>1. p \in Nat /\ q \in Nat \ {0} /\ u \in Int
  BY DEF IsDistance
<1>2. /\ Weighed!BucketStart(i).exact = <<i, 10>> /\ Weighed!BucketStart(i).ulps = StartUlps(i)
      /\ Weighed!BucketEnd(i).exact = <<i + 1, 10>> /\ Weighed!BucketEnd(i).ulps = EndUlps(i)
  BY DEF Weighed!BucketStart, Weighed!BucketEnd, StartUlps, EndUlps
<1>3. Weighed!AtMostRounded(Weighed!BucketStart(i), d) <=> Starts(d, i)
  BY <1>2 DEF Weighed!AtMostRounded, Weighed!AtMost, Starts
<1>4. Weighed!AtMostRounded(Weighed!BucketEnd(i), d) <=> Ends(d, i)
  BY <1>2 DEF Weighed!AtMostRounded, Weighed!AtMost, Ends
<1>5. i = 9 => Weighed!AtMostRounded(d, Weighed!BucketEnd(i))
  <2> SUFFICES ASSUME i = 9 PROVE Weighed!AtMostRounded(d, Weighed!BucketEnd(i))
    OBVIOUS
  <2>1. Weighed!BucketEnd(i).exact = <<10, 10>> /\ Weighed!BucketEnd(i).ulps = 0
    BY <1>2 DEF EndUlps
  <2>2. p <= q /\ (p = q => u <= 0)
    BY DEF IsDistance
  <2> HIDE DEF p, q, u
  <2>3. p * 10 <= 10 * q /\ (10 * q <= p * 10 => u <= 0)
    BY <1>1, <2>2
  <2> QED
    BY <2>1, <2>3 DEF Weighed!AtMostRounded, Weighed!AtMost, p, q, u
<1> QED
  BY <1>3, <1>4, <1>5 DEF Weighed!InBucket, Weighed!BucketCount

(* A distance at the double 0.6. *)
IsSixTenths(d) == d.exact[1] * 10 = 6 * d.exact[2] /\ d.ulps = 0

LEMMA NextBucket ==
  ASSUME NEW d, IsDistance(d), ~IsSixTenths(d), NEW i \in 0 .. 8
  PROVE  Ends(d, i) => Starts(d, i + 1)
<1> DEFINE p == d.exact[1]
           q == d.exact[2]
           u == d.ulps
<1>1. p \in Nat /\ q \in Nat \ {0} /\ u \in Int /\ ~(p * 10 = 6 * q /\ u = 0)
  BY DEF IsDistance, IsSixTenths
<1>2. Ends(d, i) <=> (i + 1) * q <= p * 10 /\ (p * 10 <= (i + 1) * q => EndUlps(i) <= u)
  BY DEF Ends
<1>3. Starts(d, i + 1) <=>
        (i + 1) * q <= p * 10 /\ (p * 10 <= (i + 1) * q => StartUlps(i + 1) <= u)
  BY DEF Starts
<1> HIDE DEF p, q, u
<1>4. CASE i # 5
  <2>1. StartUlps(i + 1) = EndUlps(i)
    BY <1>4 DEF StartUlps, EndUlps
  <2> QED
    BY <1>2, <1>3, <2>1
<1>5. CASE i = 5
  <2>1. StartUlps(i + 1) = 1 /\ EndUlps(i) = 0 /\ i + 1 = 6
    BY <1>5 DEF StartUlps, EndUlps
  <2> QED
    BY <1>1, <1>2, <1>3, <2>1
<1> QED
  BY <1>4, <1>5

LEMMA EarlierBucketsEnd ==
  ASSUME NEW d, IsDistance(d), NEW i \in 0 .. 9, NEW j \in 0 .. 9, i < j, Starts(d, j)
  PROVE  Ends(d, i)
<1> DEFINE p == d.exact[1]
           q == d.exact[2]
           u == d.ulps
<1>1. p \in Nat /\ q \in Nat \ {0} /\ u \in Int
  BY DEF IsDistance
<1>2. Ends(d, i) <=> (i + 1) * q <= p * 10 /\ (p * 10 <= (i + 1) * q => EndUlps(i) <= u)
  BY DEF Ends
<1>3. j * q <= p * 10 /\ (p * 10 <= j * q => StartUlps(j) <= u)
  BY DEF Starts
<1> HIDE DEF p, q, u
<1>4. (i + 1) * q \in Nat /\ j * q \in Nat
  BY <1>1
<1>5. CASE j = i + 1
  <2>1. EndUlps(i) <= StartUlps(j) /\ EndUlps(i) \in Int /\ StartUlps(j) \in Int
    BY <1>5 DEF StartUlps, EndUlps
  <2> QED
    BY <1>1, <1>2, <1>3, <1>5, <2>1
<1>6. CASE i + 1 < j
  <2>1. (i + 1) * q < j * q
    BY <1>1, <1>6, ProductsAreStrict
  <2> QED
    BY <1>1, <1>2, <1>3, <1>4, <2>1
<1> QED
  BY <1>5, <1>6

(* Every other distance is in one bucket. *)
LEMMA OneBucket ==
  ASSUME NEW d, IsDistance(d)
  PROVE  /\ \A i, j \in 0 .. 9 : Weighed!InBucket(d, i) /\ Weighed!InBucket(d, j) => i = j
         /\ (\E i \in 0 .. 9 : Weighed!InBucket(d, i)) <=> ~IsSixTenths(d)
<1>1. ASSUME NEW i \in 0 .. 9, NEW j \in 0 .. 9, i < j,
             Weighed!InBucket(d, i), Weighed!InBucket(d, j)
      PROVE  FALSE
  <2>1. Starts(d, j) /\ ~Ends(d, i)
    BY <1>1, BucketsAreIntervals
  <2> QED
    BY <1>1, <2>1, EarlierBucketsEnd
<1>2. ASSUME ~IsSixTenths(d), \A i \in 0 .. 9 : ~Weighed!InBucket(d, i)
      PROVE  FALSE
  <2>1. \A i \in 0 .. 8 : Starts(d, i) => Starts(d, i + 1)
    BY <1>2, BucketsAreIntervals, NextBucket
  <2>2. Starts(d, 0)
    <3>1. 0 * d.exact[2] = 0 /\ d.exact[1] * 10 \in Nat /\ (d.exact[1] * 10 <= 0 => d.exact[1] = 0)
      BY DEF IsDistance
    <3> QED
      BY <3>1 DEF Starts, StartUlps, IsDistance
  <2>3. Starts(d, 1) /\ Starts(d, 2) /\ Starts(d, 3)
    <3>1. Starts(d, 0 + 1)
      BY <2>1, <2>2
    <3>2. Starts(d, 1 + 1)
      BY <2>1, <3>1
    <3>3. Starts(d, 2 + 1)
      BY <2>1, <3>2
    <3> QED
      BY <3>1, <3>2, <3>3
  <2>4. Starts(d, 4) /\ Starts(d, 5) /\ Starts(d, 6)
    <3>1. Starts(d, 3 + 1)
      BY <2>1, <2>3
    <3>2. Starts(d, 4 + 1)
      BY <2>1, <3>1
    <3>3. Starts(d, 5 + 1)
      BY <2>1, <3>2
    <3> QED
      BY <3>1, <3>2, <3>3
  <2>5. Starts(d, 9)
    <3>1. Starts(d, 6 + 1)
      BY <2>1, <2>4
    <3>2. Starts(d, 7 + 1)
      BY <2>1, <3>1
    <3>3. Starts(d, 8 + 1)
      BY <2>1, <3>2
    <3> QED
      BY <3>3
  <2>6. Weighed!InBucket(d, 9)
    BY <2>5, BucketsAreIntervals
  <2> QED
    BY <1>2, <2>6
<1>3. ASSUME IsSixTenths(d), NEW i \in 0 .. 9, Weighed!InBucket(d, i)
      PROVE  FALSE
  <2> DEFINE p == d.exact[1]
             q == d.exact[2]
             u == d.ulps
  <2>1. p \in Nat /\ q \in Nat \ {0} /\ p * 10 = 6 * q /\ u = 0
    BY <1>3 DEF IsDistance, IsSixTenths
  <2>2. /\ i * q <= p * 10 /\ (p * 10 <= i * q => StartUlps(i) <= u)
        /\ i = 9 \/ ~((i + 1) * q <= p * 10 /\ (p * 10 <= (i + 1) * q => EndUlps(i) <= u))
    BY <1>3, BucketsAreIntervals DEF Starts, Ends
  <2> HIDE DEF p, q, u
  <2>3. CASE i = 6
    BY <2>1, <2>2, <2>3 DEF StartUlps
  <2>4. CASE i > 6
    <3>1. 6 * q < i * q /\ i * q \in Nat /\ 6 * q \in Nat
      BY <2>1, <2>4, ProductsAreStrict
    <3> QED
      BY <2>1, <2>2, <3>1
  <2>5. CASE i < 6
    <3>1. (i + 1) * q <= 6 * q /\ (i + 1) * q \in Nat /\ 6 * q \in Nat
      BY <2>1, <2>5, ProductsAreMonotone
    <3>2. p * 10 <= (i + 1) * q /\ ~(EndUlps(i) <= u)
      BY <2>1, <2>2, <2>5, <3>1
    <3>3. i = 5
      <4>1. CASE i < 5
        <5>1. (i + 1) * q < 6 * q
          BY <2>1, <4>1, ProductsAreStrict
        <5> QED
          BY <2>1, <3>1, <3>2, <5>1
      <4> QED
        BY <2>5, <4>1
    <3> QED
      BY <2>1, <3>2, <3>3 DEF EndUlps
  <2> QED
    BY <2>3, <2>4, <2>5
<1> QED
  BY <1>1, <1>2, <1>3

LEMMA FactorsCancel ==
  ASSUME NEW a \in Nat, NEW b \in Nat, NEW k \in Nat \ {0}, a * k = b * k
  PROVE  a = b
<1>1. a * k \in Nat /\ b * k \in Nat
  OBVIOUS
<1>2. ~(a < b) /\ ~(b < a)
  BY <1>1, ProductsAreStrict
<1> QED
  BY <1>2

SumOf(a, i) == a[1] * i[2] + i[1] * a[2]
WholeOf(a, i) == a[2] * i[2]

LEMMA ExactIsOfSum ==
  ASSUME NEW a \in Quotients, NEW i \in Quotients
  PROVE  /\ SumOf(a, i) \in Nat /\ WholeOf(a, i) \in Nat \ {0}
         /\ Exact(a, i)[1] = (IF SumOf(a, i) < WholeOf(a, i) THEN WholeOf(a, i) - SumOf(a, i)
                              ELSE SumOf(a, i) - WholeOf(a, i))
         /\ Exact(a, i)[2] = WholeOf(a, i)
         /\ Exact(a, i) = <<Exact(a, i)[1], Exact(a, i)[2]>> /\ Exact(a, i)[1] \in Nat
         /\ Exact(a, i)[1] = 0 <=> SumOf(a, i) = WholeOf(a, i)
         /\ Exact(a, i)[1] = Exact(a, i)[2]
              <=> SumOf(a, i) = 0 \/ SumOf(a, i) = 2 * WholeOf(a, i)
<1> DEFINE s == SumOf(a, i)
           w == WholeOf(a, i)
           x == Exact(a, i)
<1>1. s \in Nat /\ w \in Nat \ {0}
  <2>1. /\ a[1] \in Nat /\ a[2] \in Nat \ {0} /\ i[1] \in Nat /\ i[2] \in Nat \ {0}
    BY DEF Quotients
  <2> QED
    BY <2>1 DEF SumOf, WholeOf
<1>2. x = <<IF s < w THEN w - s ELSE s - w, w>>
  BY DEF Exact, SumOf, WholeOf
<1> HIDE DEF s, w, x
<1>3. /\ x[1] = (IF s < w THEN w - s ELSE s - w) /\ x[2] = w /\ x = <<x[1], x[2]>>
  BY <1>2
<1>4. x[1] \in Nat /\ (x[1] = 0 <=> s = w) /\ (x[1] = x[2] <=> s = 0 \/ s = 2 * w)
  BY <1>1, <1>3
<1> QED
  BY <1>1, <1>3, <1>4 DEF s, w, x

(* Equal quotients have equal sums. *)
LEMMA SumsAreProportional ==
  ASSUME NEW a \in Quotients, NEW i \in Quotients, NEW b \in Quotients, NEW j \in Quotients,
         SameQuotient(a, b), SameQuotient(i, j)
  PROVE  SumOf(a, i) * WholeOf(b, j) = SumOf(b, j) * WholeOf(a, i)
<1> DEFINE a1 == a[1]  a2 == a[2]  b1 == b[1]  b2 == b[2]
           i1 == i[1]  i2 == i[2]  j1 == j[1]  j2 == j[2]
<1>1. /\ a1 \in Nat /\ a2 \in Nat /\ b1 \in Nat /\ b2 \in Nat
      /\ i1 \in Nat /\ i2 \in Nat /\ j1 \in Nat /\ j2 \in Nat
  BY DEF Quotients
<1>2. a1 * b2 = b1 * a2 /\ i1 * j2 = j1 * i2
  BY DEF SameQuotient
<1>3. /\ SumOf(a, i) = a1 * i2 + i1 * a2 /\ WholeOf(a, i) = a2 * i2
      /\ SumOf(b, j) = b1 * j2 + j1 * b2 /\ WholeOf(b, j) = b2 * j2
  BY DEF SumOf, WholeOf
<1> HIDE DEF a1, a2, b1, b2, i1, i2, j1, j2
<1>4. (a1 * i2) * (b2 * j2) = (b1 * j2) * (a2 * i2)
  <2>1. (a1 * i2) * (b2 * j2) = (a1 * b2) * (i2 * j2)
    BY <1>1
  <2>2. (b1 * j2) * (a2 * i2) = (b1 * a2) * (i2 * j2)
    BY <1>1
  <2> QED
    BY <1>2, <2>1, <2>2
<1>5. (i1 * a2) * (b2 * j2) = (j1 * b2) * (a2 * i2)
  <2>1. (i1 * a2) * (b2 * j2) = (i1 * j2) * (a2 * b2)
    BY <1>1
  <2>2. (j1 * b2) * (a2 * i2) = (j1 * i2) * (a2 * b2)
    BY <1>1
  <2> QED
    BY <1>2, <2>1, <2>2
<1>6. /\ (a1 * i2 + i1 * a2) * (b2 * j2) = (a1 * i2) * (b2 * j2) + (i1 * a2) * (b2 * j2)
      /\ (b1 * j2 + j1 * b2) * (a2 * i2) = (b1 * j2) * (a2 * i2) + (j1 * b2) * (a2 * i2)
  BY <1>1
<1> QED
  BY <1>3, <1>4, <1>5, <1>6

LEMMA SumsAgree ==
  ASSUME NEW a \in Quotients, NEW i \in Quotients, NEW b \in Quotients, NEW j \in Quotients,
         SameQuotient(a, b), SameQuotient(i, j), NEW k \in Nat, SumOf(b, j) = k * WholeOf(b, j)
  PROVE  SumOf(a, i) = k * WholeOf(a, i)
<1> DEFINE s == SumOf(a, i)  w == WholeOf(a, i)  v == WholeOf(b, j)
<1>1. s \in Nat /\ w \in Nat \ {0} /\ v \in Nat \ {0}
  BY ExactIsOfSum
<1>2. s * v = (k * v) * w
  BY SumsAreProportional
<1> HIDE DEF s, w, v
<1>3. (k * v) * w = (k * w) * v /\ k * w \in Nat
  BY <1>1
<1>4. s = k * w
  BY <1>1, <1>2, <1>3, FactorsCancel
<1> QED
  BY <1>4 DEF s, w

LEMMA RatiosAreParts ==
  ASSUME NEW part \in Nat, NEW rest \in Nat
  PROVE  LET q == Ratio(part, rest) IN q \in Quotients /\ q[1] <= q[2]
BY DEF Ratio, Quotients

LEMMA DistancesAreDistances ==
  ASSUME CountedInv, NEW m \in Sent
  PROVE  IsDistance(m.mainSequenceDistance)
<1>1. m = ComponentMessage(m.id) /\ m.id \in Known(collected)
  BY MessageFields
<1> DEFINE c == m.id
           a == Abstractness(collected, c)
           i == Instability(collected, c)
           d == Distance(a, i)
           x == Exact(a, i)
           u == Rounding(a, i)
<1>2. m.mainSequenceDistance = d
  BY <1>1 DEF ComponentMessage
<1>3. a \in Quotients /\ i \in Quotients /\ a[1] <= a[2] /\ i[1] <= i[2]
  <2>1. Afferent(collected, c) \in Nat /\ Efferent(collected, c) \in Nat
    BY <1>1, MetricsAreNumbers DEF CountedInv
  <2>2. collected.types[c].abstract \in Nat /\ collected.types[c].concrete \in Nat
    BY <1>1 DEF CountedInv, IsCounted
  <2> QED
    BY <2>1, <2>2, RatiosAreParts DEF Abstractness, Instability
<1>4. d = [exact |-> x, ulps |-> u]
  BY DEF Distance
<1> HIDE DEF a, i, d, c
<1>5. SumOf(a, i) <= 2 * WholeOf(a, i)
  <2> DEFINE a1 == a[1]  a2 == a[2]  i1 == i[1]  i2 == i[2]
  <2>1. a1 \in Nat /\ a2 \in Nat /\ i1 \in Nat /\ i2 \in Nat /\ a1 <= a2 /\ i1 <= i2
    BY <1>3 DEF Quotients
  <2>2. SumOf(a, i) = a1 * i2 + i1 * a2 /\ WholeOf(a, i) = a2 * i2
    BY DEF SumOf, WholeOf
  <2> HIDE DEF a1, a2, i1, i2
  <2>3. a1 * i2 <= a2 * i2 /\ i1 * a2 <= i2 * a2 /\ i2 * a2 = a2 * i2
    BY <2>1, ProductsAreMonotone
  <2>4. a1 * i2 \in Nat /\ a2 * i2 \in Nat /\ i1 * a2 \in Nat
    BY <2>1
  <2> QED
    BY <2>2, <2>3, <2>4
<1>6. /\ x = <<x[1], x[2]>> /\ x[1] \in Nat /\ x[2] \in Nat \ {0} /\ x[1] <= x[2]
      /\ x[1] = 0 => SumOf(a, i) = 1 * WholeOf(a, i)
      /\ x[1] = x[2] => SumOf(a, i) = 0 * WholeOf(a, i) \/ SumOf(a, i) = 2 * WholeOf(a, i)
  BY <1>3, <1>5, ExactIsOfSum
<1>7. u \in Int /\ (x[1] = 0 => u >= 0) /\ (x[1] = x[2] => u <= 0)
  <2> DEFINE matching == {r \in Misrounded : /\ SameQuotient(r.abstractness, a)
                                             /\ SameQuotient(r.instability, i)}
             r == CHOOSE r \in matching : TRUE
  <2>1. u = IF matching = {} THEN 0 ELSE r.ulps
    BY DEF Rounding
  <2>2. CASE matching = {}
    BY <2>1, <2>2
  <2>3. CASE matching # {}
    <3>1. r \in matching
      BY <2>3
    <3> DEFINE b == r.abstractness
               j == r.instability
               y == Exact(b, j)
    <3>2. r \in Misrounded /\ SameQuotient(b, a) /\ SameQuotient(j, i) /\ u = r.ulps
      BY <2>1, <2>3, <3>1
    <3> HIDE DEF matching, r
    <3>3. /\ b \in Messages!Quotient /\ j \in Messages!Quotient /\ r.ulps \in Int
          /\ y[1] = 0 => r.ulps >= 0
          /\ y[1] = y[2] => r.ulps <= 0
      BY <3>2, RoundingAssumption
    <3>4. b \in Quotients /\ j \in Quotients
      BY <3>3 DEF Messages!Quotient, Quotients
    <3> HIDE DEF b, j, x, u
    <3>5. ASSUME NEW k \in Nat, SumOf(a, i) = k * WholeOf(a, i)
          PROVE  SumOf(b, j) = k * WholeOf(b, j)
      BY <1>3, <3>2, <3>4, <3>5, SumsAgree
    <3>6. SumOf(b, j) \in Nat /\ WholeOf(b, j) \in Nat
      BY <3>4, ExactIsOfSum
    <3>7. x[1] = 0 => y[1] = 0
      <4>1. x[1] = 0 => SumOf(b, j) = 1 * WholeOf(b, j)
        BY <1>6, <3>5
      <4> QED
        BY <3>4, <3>6, <4>1, ExactIsOfSum
    <3>8. x[1] = x[2] => y[1] = y[2]
      <4>1. x[1] = x[2] => SumOf(b, j) = 0 * WholeOf(b, j) \/ SumOf(b, j) = 2 * WholeOf(b, j)
        BY <1>6, <3>5
      <4> QED
        BY <3>4, <3>6, <4>1, ExactIsOfSum
    <3> QED
      BY <3>2, <3>3, <3>7, <3>8
  <2> QED
    BY <2>2, <2>3
<1> HIDE DEF x, u
<1>8. d.exact = x /\ d.ulps = u
  BY <1>4
<1> QED
  BY <1>2, <1>4, <1>6, <1>7, <1>8 DEF IsDistance

LEMMA LostAtSixTenths ==
  ASSUME NEW d, IsDistance(d)
  PROVE  SameDouble(d, SixTenths) <=> IsSixTenths(d)
<1> DEFINE p == d.exact[1]
           q == d.exact[2]
           u == d.ulps
<1>1. p \in Nat /\ q \in Nat \ {0} /\ u \in Int
  BY DEF IsDistance
<1>2. SixTenths.exact = <<6, 10>> /\ SixTenths.ulps = 0
  BY DEF SixTenths
<1>3. Weighed!AtMostRounded(d, SixTenths) <=> p * 10 <= 6 * q /\ (6 * q <= p * 10 => u <= 0)
  BY <1>2 DEF Weighed!AtMostRounded, Weighed!AtMost
<1>4. Weighed!AtMostRounded(SixTenths, d) <=> 6 * q <= p * 10 /\ (p * 10 <= 6 * q => 0 <= u)
  BY <1>2 DEF Weighed!AtMostRounded, Weighed!AtMost
<1>5. IsSixTenths(d) <=> p * 10 = 6 * q /\ u = 0
  BY DEF IsSixTenths
<1> HIDE DEF p, q, u
<1> QED
  BY <1>1, <1>3, <1>4, <1>5 DEF SameDouble

(* The third bucket ends where the balanced distance does. *)
LEMMA GreenIsBalanced ==
  ASSUME NEW d, IsDistance(d), NEW i \in 0 .. 9, Weighed!InBucket(d, i)
  PROVE  Weighed!IsGreen(i) <=> Weighed!AtMostRounded(d, Weighed!BALANCED_DISTANCE)
<1> DEFINE p == d.exact[1]
           q == d.exact[2]
           u == d.ulps
<1>1. p \in Nat /\ q \in Nat \ {0} /\ u \in Int
  BY DEF IsDistance
<1>2. /\ i * q <= p * 10 /\ (p * 10 <= i * q => StartUlps(i) <= u)
      /\ i = 9 \/ ~((i + 1) * q <= p * 10 /\ (p * 10 <= (i + 1) * q => EndUlps(i) <= u))
  BY BucketsAreIntervals DEF Starts, Ends
<1>3. Weighed!AtMostRounded(d, Weighed!BALANCED_DISTANCE)
        <=> p * 10 <= 3 * q /\ (3 * q <= p * 10 => u <= 0)
  BY DEF Weighed!AtMostRounded, Weighed!AtMost, Weighed!BALANCED_DISTANCE
<1>4. Weighed!IsGreen(i) <=> i < 3
  BY DEF Weighed!IsGreen, Weighed!AtMostRounded, Weighed!AtMost, Weighed!BALANCED_DISTANCE,
         Weighed!BucketStart
<1> HIDE DEF p, q, u
<1>5. CASE i < 2
  <2>1. (i + 1) * q < 3 * q /\ (i + 1) * q \in Nat /\ 3 * q \in Nat
    BY <1>1, <1>5, ProductsAreStrict
  <2>2. p * 10 <= (i + 1) * q
    BY <1>1, <1>2, <1>5, <2>1
  <2> QED
    BY <1>1, <1>3, <1>4, <1>5, <2>1, <2>2
<1>6. CASE i = 2
  <2>1. ~(3 * q <= p * 10 /\ (p * 10 <= 3 * q => 1 <= u))
    BY <1>2, <1>6 DEF EndUlps
  <2> QED
    BY <1>1, <1>3, <1>4, <1>6, <2>1
<1>7. CASE i = 3
  <2>1. 3 * q <= p * 10 /\ (p * 10 <= 3 * q => 1 <= u)
    BY <1>2, <1>7 DEF StartUlps
  <2> QED
    BY <1>1, <1>3, <1>4, <1>7, <2>1
<1>8. CASE 3 < i
  <2>1. 3 * q < i * q /\ i * q \in Nat /\ 3 * q \in Nat
    BY <1>1, <1>8, ProductsAreStrict
  <2> QED
    BY <1>1, <1>2, <1>3, <1>4, <1>8, <2>1
<1> QED
  BY <1>5, <1>6, <1>7, <1>8

(* The columns of the distribution. *)
LEMMA ColumnsAreBuckets ==
  ASSUME CountedInv
  PROVE  LET buckets == Weighed!bucketDistances(Sent)
             columns == Weighed!createBalanceDistributionChart(buckets) IN
           /\ IsFiniteSet(columns) /\ Range(buckets) \subseteq Weighed!DistanceBucket
           /\ \A c \in columns : /\ c.category[1] \in 0 .. 9
                                 /\ c.length = Cardinality(Weighed!Bucket(Sent, c.category[1]))
                                 /\ c.green = Weighed!IsGreen(c.category[1])
           /\ \A b, c \in columns : b.category[1] = c.category[1] => b = c
           /\ \A i \in 0 .. 9 : \E c \in columns : c.category[1] = i
<1> DEFINE buckets == Weighed!bucketDistances(Sent)
           columns == Weighed!createBalanceDistributionChart(buckets)
           places == 0 .. 9
           size(i) == Cardinality(Weighed!Bucket(Sent, i))
           bucket(i) == [label |-> <<i, i + 1>>, count |-> size(i), green |-> Weighed!IsGreen(i)]
           column == [i \in places |->
                        [category |-> <<i, i + 1>>, length |-> size(i),
                         green |-> Weighed!IsGreen(i)]]
<1>1. buckets = [i \in places |-> bucket(i)]
  BY CountedAlike DEF Weighed!bucketDistances, Weighed!BucketCount
<1>2. ASSUME NEW i \in places PROVE bucket(i) \in Weighed!DistanceBucket
  <2>1. size(i) \in Nat
    BY SentIsFinite, FS_Subset, FS_CardinalityType DEF Weighed!Bucket, Weighed!In
  <2>2. Weighed!IsGreen(i) \in BOOLEAN
    BY DEF Weighed!IsGreen
  <2> HIDE DEF size
  <2> QED
    BY <2>1, <2>2 DEF Weighed!DistanceBucket
<1> HIDE DEF buckets, size
<1>3. Range(buckets) \subseteq Weighed!DistanceBucket
  BY <1>1, <1>2 DEF Range
<1>4. columns = {column[i] : i \in places} /\ DOMAIN column = places
  BY <1>1 DEF Weighed!createBalanceDistributionChart
<1>5. \A i \in places : /\ column[i].category[1] = i /\ column[i].length = size(i)
                        /\ column[i].green = Weighed!IsGreen(i)
  OBVIOUS
<1>6. IsFiniteSet(places)
  <2>1. IsFiniteSet(1 .. 9)
    BY IntervalIsFinite
  <2>2. IsFiniteSet((1 .. 9) \cup {0})
    BY <2>1, FS_AddElement
  <2>3. places = (1 .. 9) \cup {0}
    OBVIOUS
  <2> QED
    BY <2>2, <2>3
<1> HIDE DEF columns, column, places
<1>7. IsFiniteSet(columns)
  BY <1>4, <1>6, ImageIsFinite
<1> QED
  BY <1>3, <1>4, <1>5, <1>7 DEF columns, buckets, size, places

(* The distribution holds what is measured, but for the double 0.6. *)
THEOREM DistributionIsComplete == Spec => []BucketedOnce
<1>1. CountedInv => BucketedOnce
  <2> SUFFICES ASSUME CountedInv, phase = "built" PROVE BucketedOnce
    BY DEF BucketedOnce
  <2> DEFINE measured == Weighed!In(Weighed!Measured, Sent)
             lost == {c \in measured : SameDouble(c.mainSequenceDistance, SixTenths)}
             buckets == Weighed!bucketDistances(Sent)
             columns == Weighed!createBalanceDistributionChart(buckets)
             weights == [c \in columns |-> 1 .. c.length]
             all == measured \ lost
             F == [c \in columns |-> Weighed!Bucket(Sent, c.category[1])]
  <2>1. Received.components = Sent
    BY DEF Received, Sent
  <2>2. /\ IsFiniteSet(columns) /\ Range(buckets) \subseteq Weighed!DistanceBucket
        /\ \A c \in columns : /\ c.category[1] \in 0 .. 9
                              /\ c.length = Cardinality(Weighed!Bucket(Sent, c.category[1]))
                              /\ c.green = Weighed!IsGreen(c.category[1])
        /\ \A b, c \in columns : b.category[1] = c.category[1] => b = c
        /\ \A i \in 0 .. 9 : \E c \in columns : c.category[1] = i
    BY ColumnsAreBuckets
  <2>3. ASSUME NEW m \in measured
        PROVE  /\ IsDistance(m.mainSequenceDistance)
               /\ m \in all <=> ~IsSixTenths(m.mainSequenceDistance)
    <3>1. m \in Sent
      BY DEF Weighed!In
    <3>2. IsDistance(m.mainSequenceDistance)
      BY <3>1, DistancesAreDistances
    <3> QED
      BY <3>2, LostAtSixTenths
  <2>4. \A i : Weighed!Bucket(Sent, i)
                 = {m \in measured : Weighed!InBucket(m.mainSequenceDistance, i)}
    BY DEF Weighed!Bucket
  <2>5. measured \subseteq Sent /\ all \subseteq measured
    BY DEF Weighed!In
  <2>6. \A c \in columns : F[c] = Weighed!Bucket(Sent, c.category[1]) /\ weights[c] = 1 .. c.length
    OBVIOUS
  <2> HIDE DEF measured, columns, weights, all, F
  <2>7. \A c \in columns : IsFiniteSet(F[c]) /\ weights[c] = 1 .. Cardinality(F[c])
    <3>1. ASSUME NEW c \in columns PROVE IsFiniteSet(F[c])
      <4>1. F[c] \subseteq Sent
        BY <2>4, <2>5, <2>6
      <4> QED
        BY <4>1, SentIsFinite, FS_Subset
    <3> QED
      BY <2>2, <2>6, <3>1
  <2>8. ASSUME NEW b \in columns, NEW c \in columns, NEW m \in F[b] \cap F[c] PROVE b = c
    <3>1. /\ m \in measured /\ Weighed!InBucket(m.mainSequenceDistance, b.category[1])
          /\ Weighed!InBucket(m.mainSequenceDistance, c.category[1])
      BY <2>4, <2>6
    <3>2. b.category[1] = c.category[1]
      BY <2>2, <2>3, <3>1, OneBucket
    <3> QED
      BY <2>2, <3>2
  <2>9. ASSUME NEW m \in all
        PROVE  \E c \in columns : /\ m \in F[c]
                                  /\ Weighed!InBucket(m.mainSequenceDistance, c.category[1])
    <3>1. /\ m \in measured
          /\ IsDistance(m.mainSequenceDistance) /\ ~IsSixTenths(m.mainSequenceDistance)
      BY <2>3, <2>5
    <3>2. PICK i \in 0 .. 9 : Weighed!InBucket(m.mainSequenceDistance, i)
      BY <3>1, OneBucket
    <3>3. PICK c \in columns : c.category[1] = i
      BY <2>2
    <3> QED
      BY <2>4, <2>6, <3>1, <3>2, <3>3
  <2>10. ASSUME NEW c \in columns PROVE F[c] \subseteq all
    <3>1. ASSUME NEW m \in F[c] PROVE m \in all
      <4>1. /\ m \in measured /\ c.category[1] \in 0 .. 9
            /\ Weighed!InBucket(m.mainSequenceDistance, c.category[1])
        BY <2>2, <2>4, <2>6
      <4>2. ~IsSixTenths(m.mainSequenceDistance)
        BY <2>3, <4>1, OneBucket
      <4> QED
        BY <2>3, <4>1, <4>2
    <3> QED
      BY <3>1
  <2>11. Total(weights, columns) = Cardinality(all)
    <3>1. IsFiniteSet(columns)
      BY <2>2
    <3>2. \A b, c \in columns : \A m \in F[b] \cap F[c] : b = c
      BY <2>8
    <3>3. (\A c \in columns : F[c] \subseteq all) /\ \A m \in all : \E c \in columns : m \in F[c]
      BY <2>9, <2>10
    <3> QED
      BY <2>7, <3>1, <3>2, <3>3, SizesAddUp
  <2>12. ASSUME NEW m \in all
         PROVE  \E c \in columns :
                  /\ Weighed!InBucket(m.mainSequenceDistance, c.category[1])
                  /\ c.green <=> Weighed!AtMostRounded(m.mainSequenceDistance,
                                                       Weighed!BALANCED_DISTANCE)
    <3>1. PICK c \in columns : Weighed!InBucket(m.mainSequenceDistance, c.category[1])
      BY <2>9
    <3>2. IsDistance(m.mainSequenceDistance)
      BY <2>3, <2>5
    <3>3. c.category[1] \in 0 .. 9 /\ c.green = Weighed!IsGreen(c.category[1])
      BY <2>2
    <3>4. c.green <=> Weighed!AtMostRounded(m.mainSequenceDistance, Weighed!BALANCED_DISTANCE)
      BY <3>1, <3>2, <3>3, GreenIsBalanced
    <3> QED
      BY <3>1, <3>4
  <2> QED
    BY <2>1, <2>2, <2>11, <2>12 DEF BucketedOnce, measured, columns, weights, all
<1> QED
  BY <1>1, CountedInvInit, CountedInvNext, PTL DEF Spec

-----------------------------------------------------------------------------
(* The types of the message *)

LEMMA CountsAreNumbers ==
  ASSUME CountedInv, NEW c, NEW kinds
  PROVE  FilesOf(c, kinds) \in Nat /\ Outgoing(c, kinds) \in Nat /\ Incoming(c, kinds) \in Nat
<1>1. IsFiniteSet(1 .. read)
  <2>1. read \in Nat
    BY FilesAreRead DEF CountedInv, GraphInv
  <2> QED
    BY <2>1, IntervalIsFinite
<1>2. FilesOf(c, kinds) \in Nat
  BY <1>1, FS_Subset, FS_CardinalityType DEF FilesOf
<1>3. IsFiniteSet(Relationships(collected))
  BY RelationshipsAreFinite DEF CountedInv
<1>4. Outgoing(c, kinds) \in Nat
  BY <1>3, FS_Subset, FS_CardinalityType DEF Outgoing
<1>5. Incoming(c, kinds) \in Nat
  BY <1>3, FS_Subset, FS_CardinalityType DEF Incoming
<1> QED
  BY <1>2, <1>4, <1>5

LEMMA ReachableIsKnown ==
  ASSUME CountedInv, NEW c
  PROVE  LET dependencies == ProductionDependencies(collected) IN
           /\ Reachable(c, dependencies) \subseteq Known(collected)
           /\ Reachable(c, Reversed(dependencies)) \subseteq Known(collected)
           /\ Cardinality(Reachable(c, dependencies)) \in Nat
           /\ Cardinality(Reachable(c, Reversed(dependencies))) \in Nat
<1> DEFINE dependencies == ProductionDependencies(collected)
<1>1. DOMAIN dependencies = Known(collected) /\ DOMAIN Reversed(dependencies) = Known(collected)
  BY DEF ProductionDependencies, Reversed
<1> HIDE DEF dependencies
<1>2. /\ Reachable(c, dependencies) \subseteq Known(collected)
      /\ Reachable(c, Reversed(dependencies)) \subseteq Known(collected)
  BY <1>1 DEF Reachable
<1>3. IsFiniteSet(Known(collected))
  BY DEF CountedInv, IsCounted
<1>4. /\ Cardinality(Reachable(c, dependencies)) \in Nat
      /\ Cardinality(Reachable(c, Reversed(dependencies))) \in Nat
  BY <1>2, <1>3, FS_Subset, FS_CardinalityType
<1> QED
  BY <1>2, <1>4 DEF dependencies

LEMMA ComponentsAreTyped ==
  ASSUME ReportedInv, IsBuilt, NEW c \in Known(collected)
  PROVE  ComponentMessage(c) \in Messages!Component
<1> DEFINE m == ComponentMessage(c)
           dependencies == ProductionDependencies(collected)
<1>1. CountedInv /\ m \in Sent /\ m.id = c /\ c \in Components
  BY DEF ReportedInv, CountedInv, IsCounted, Sent, ComponentMessage
<1>2. \A d \in Known(collected) : collected.describe[d] \in Descriptors
  BY <1>1 DEF CountedInv, IsDescribed, IsDescription
<1>3. /\ collected.describe[c].name \in Names /\ collected.describe[c].role \in Messages!Roles
      /\ collected.describe[c].application \in Names
  BY <1>1, <1>2, NamesAssumption, ComponentAssumption DEF Roles, Messages!Roles
<1>4. /\ Afferent(collected, c) \in Nat /\ Efferent(collected, c) \in Nat
      /\ Instability(collected, c) \in Messages!Quotient
      /\ Abstractness(collected, c) \in Messages!Quotient
  BY <1>1, MetricsAreNumbers DEF CountedInv, Messages!Quotient
<1>5. Distance(Abstractness(collected, c), Instability(collected, c)) \in Messages!Rounded
  <2> DEFINE d == m.mainSequenceDistance
  <2>1. IsDistance(d)
    BY <1>1, DistancesAreDistances
  <2>2. d = Distance(Abstractness(collected, c), Instability(collected, c))
    BY DEF ComponentMessage
  <2> HIDE DEF d, m
  <2>3. <<d.exact[1], d.exact[2]>> \in Messages!Quotient
    BY <2>1 DEF IsDistance, Messages!Quotient
  <2>4. d \in Messages!Rounded
    BY <2>1, <2>3 DEF IsDistance, Messages!Rounded
  <2> QED
    BY <2>2, <2>4
<1>6. collected.types[c].abstract \in Nat /\ collected.types[c].concrete \in Nat
  BY <1>1 DEF CountedInv, IsCounted
<1>7. graph.applications[c] \in SUBSET Names
  <2>1. graph.applications[c] = UsingApplications(collected, collected.describe, c)
    BY DEF ReportedInv, JudgedInv
  <2>2. \A d \in {c} \cup Reachable(c, Reversed(dependencies)) : d \in Known(collected)
    BY <1>1, ReachableIsKnown DEF CountedInv, IsCounted
  <2>3. \A d \in Known(collected) : collected.describe[d].application \in Names
    BY <1>2, NamesAssumption
  <2> QED
    BY <2>1, <2>2, <2>3 DEF UsingApplications
<1>8. /\ FilesOf(c, BOOLEAN) \in Nat /\ FilesOf(c, {FALSE}) \in Nat /\ FilesOf(c, {TRUE}) \in Nat
      /\ Outgoing(c, BOOLEAN) \in Nat /\ Outgoing(c, {FALSE}) \in Nat /\ Outgoing(c, {TRUE}) \in Nat
      /\ Incoming(c, BOOLEAN) \in Nat /\ Incoming(c, {FALSE}) \in Nat /\ Incoming(c, {TRUE}) \in Nat
  BY <1>1, CountsAreNumbers
<1>9. /\ Cardinality(Reachable(c, dependencies)) \in Nat
      /\ Cardinality(Reachable(c, Reversed(dependencies))) \in Nat
  BY <1>1, ReachableIsKnown
<1>10. /\ IsStableWithLowAbstraction(collected, c) \in BOOLEAN
       /\ (c \in UNION graph.cycles) \in BOOLEAN
  BY DEF IsStableWithLowAbstraction
<1> QED
  BY <1>1, <1>3, <1>4, <1>5, <1>6, <1>7, <1>8, <1>9, <1>10
     DEF ComponentMessage, Messages!Component

LEMMA FindingsAreTyped ==
  ASSUME ReportedInv, IsBuilt, NEW f \in graph.findings
  PROVE  f \in Messages!Finding
<1>1. IsFound(f) /\ Known(collected) \subseteq Components
      /\ Relationships(collected) \subseteq Known(collected) \X Known(collected)
  BY DEF ReportedInv, JudgedInv, CountedInv, IsCounted
<1>2. CASE \E e \in Relationships(collected), rule \in RuleIdentifiers :
             f = RelationshipFinding(rule, Severity(rule), e)
  <2>1. PICK e \in Relationships(collected), rule \in RuleIdentifiers :
               f = RelationshipFinding(rule, Severity(rule), e)
    BY <1>2
  <2>2. e[1] \in Components /\ e[2] \in Components /\ Severity(rule) \in Messages!Severities
    BY <1>1 DEF Severity, Messages!Severities
  <2> QED
    BY <2>1, <2>2 DEF RelationshipFinding, Messages!Finding
<1>3. CASE \E rule \in RuleIdentifiers, components \in SUBSET Known(collected),
             severity \in {"error", "warning"} :
             f = ComponentsFinding(rule, severity, components)
  <2>1. PICK rule \in RuleIdentifiers, components \in SUBSET Known(collected),
             severity \in {"error", "warning"} :
               f = ComponentsFinding(rule, severity, components)
    BY <1>3
  <2>2. components \in SUBSET Components /\ severity \in Messages!Severities
    BY <1>1 DEF Messages!Severities
  <2> QED
    BY <2>1, <2>2 DEF ComponentsFinding, Messages!Finding
<1> QED
  BY <1>1, <1>2, <1>3 DEF IsFound

LEMMA RelationshipsAreTyped ==
  ASSUME ReportedInv, IsBuilt, NEW e \in Relationships(collected)
  PROVE  RelationshipMessage(e) \in Messages!Relationship
<1>1. /\ e[1] \in Components /\ e[2] \in Components
      /\ IsFiniteSet(collected.relationships[e].production)
      /\ IsFiniteSet(collected.relationships[e].test)
  BY DEF ReportedInv, CountedInv, IsCounted
<1>2. /\ Cardinality(collected.relationships[e].production) \in Nat
      /\ Cardinality(collected.relationships[e].test) \in Nat
  BY <1>1, FS_CardinalityType
<1>3. graph.violations[e] \in SUBSET RuleIdentifiers
  <2>1. graph.violations[e]
          = {f.rule : f \in {g \in graph.findings : <<g.source, g.target>> = e}}
    BY GraphIsAnnotated DEF ReportedInv, CountedInv, JudgedInv, FindingsAreAnnotated
  <2>2. \A f \in graph.findings : f.rule \in RuleIdentifiers
    BY FindingsAreTyped DEF Messages!Finding
  <2> QED
    BY <2>1, <2>2
<1>4. IsTestOnly(collected, e) \in BOOLEAN /\ (StablePrinciple \in graph.violations[e]) \in BOOLEAN
  BY DEF IsTestOnly
<1> QED
  BY <1>1, <1>2, <1>3, <1>4 DEF RelationshipMessage, Messages!Relationship

LEMMA SummaryIsTyped ==
  ASSUME ReportedInv, IsBuilt
  PROVE  SummaryMessage(Sent, SentRelationships) \in Messages!GraphSummary
<1>1. CountedInv /\ IsFiniteSet(Sent) /\ IsFiniteSet(SentRelationships)
  BY SentIsFinite, SentRelationshipsAreFinite DEF ReportedInv
<1>2. Cardinality(Sent) \in Nat /\ Cardinality(SentRelationships) \in Nat
  BY <1>1, FS_CardinalityType
<1>3. ASSUME NEW field, NEW value
      PROVE  Count(Sent, field, value) \in Nat /\ Count(SentRelationships, field, value) \in Nat
  BY <1>1, FS_Subset, FS_CardinalityType DEF Count
<1>4. Cardinality(graph.cycles) \in Nat
  BY <1>1, CyclesAreFinite, FS_CardinalityType DEF ReportedInv, JudgedInv, CountedInv
<1>5. /\ graph.summary = Summary(graph.violations, graph.findings) /\ IsFiniteSet(graph.findings)
  BY DEF ReportedInv, JudgedInv
<1>6. /\ graph.summary.findings \in Nat /\ graph.summary.errors \in Nat
      /\ graph.summary.warnings \in Nat
  <2>1. /\ graph.summary.findings = Cardinality(graph.findings)
        /\ graph.summary.errors = Cardinality({f \in graph.findings : f.severity = "error"})
        /\ graph.summary.warnings = Cardinality({f \in graph.findings : f.severity = "warning"})
    BY <1>5 DEF Summary
  <2> QED
    BY <1>5, <2>1, FS_Subset, FS_CardinalityType
<1>7. graph.summary.relationshipRuleViolations \in Nat
  BY <1>5, AnnotationsAreCounted, FS_Subset, FS_CardinalityType
<1> QED
  BY <1>2, <1>3, <1>4, <1>6, <1>7 DEF SummaryMessage, Messages!GraphSummary

(* What the console receives has the types it was generated for.           *)
THEOREM ReceivedIsTyped == Spec => []ReceivedOK
<1>1. ReportedInv => ReceivedOK
  <2> SUFFICES ASSUME ReportedInv, IsBuilt PROVE Received \in Messages!Graph
    BY DEF ReceivedOK
  <2>1. Received = [components |-> Sent, relationships |-> SentRelationships,
                    cycles |-> {[members |-> cycle] : cycle \in graph.cycles},
                    findings |-> graph.findings,
                    summary |-> SummaryMessage(Sent, SentRelationships)]
    BY DEF Received, Sent, SentRelationships
  <2>2. Sent \in SUBSET Messages!Component
    BY ComponentsAreTyped DEF Sent
  <2>3. SentRelationships \in SUBSET Messages!Relationship
    BY RelationshipsAreTyped DEF SentRelationships
  <2>4. {[members |-> cycle] : cycle \in graph.cycles} \in SUBSET Messages!Cycle
    <3>1. graph.cycles \subseteq SUBSET Components
      <4>1. graph.cycles = Cycles(ProductionDependencies(collected)) /\ IsCounted(collected)
        BY DEF ReportedInv, JudgedInv, CountedInv
      <4> QED
        BY <4>1, CyclesAreFinite DEF IsCounted
    <3> QED
      BY <3>1 DEF Messages!Cycle
  <2>5. graph.findings \in SUBSET Messages!Finding
    BY FindingsAreTyped
  <2> QED
    BY <2>1, <2>2, <2>3, <2>4, <2>5, SummaryIsTyped DEF Messages!Graph
<1> QED
  BY <1>1, ReportedInvInit, ReportedInvNext, PTL DEF Spec

-----------------------------------------------------------------------------
(* The tree of directories: paths, and what comes before them.             *)

Path == Seq(STRING)

LEMMA PathHasLength ==
  ASSUME NEW s \in Path
  PROVE  Len(s) \in Nat /\ \A i \in 1 .. Len(s) : s[i] \in STRING
BY ElementOfSeq, LenProperties DEF Path

LEMMA PathIsCut ==
  ASSUME NEW s \in Path, NEW n \in 0 .. Len(s)
  PROVE  LET cut == SubSeq(s, 1, n) IN
           cut \in Path /\ Len(cut) = n /\ \A i \in 1 .. n : cut[i] = s[i]
<1>1. \A i \in 1 .. n : s[i] \in STRING
  BY PathHasLength
<1>2. n \in Int /\ n \in Nat
  BY PathHasLength
<1> DEFINE cut == SubSeq(s, 1, n)
<1>3. /\ cut \in Seq(STRING)
      /\ Len(cut) = IF 1 <= n THEN n - 1 + 1 ELSE 0
      /\ \A i \in 1 .. n - 1 + 1 : cut[i] = s[1 + i - 1]
  BY <1>1, <1>2, SubSeqProperties
<1> HIDE DEF cut
<1>4. n - 1 + 1 = n /\ \A i \in 1 .. n : 1 + i - 1 = i
  BY <1>2
<1>5. \A i \in 1 .. n : cut[i] = s[i]
  BY <1>3, <1>4
<1>6. Len(cut) = n
  BY <1>2, <1>3
<1> QED
  BY <1>3, <1>5, <1>6 DEF Path, cut

(* A prefix agrees place by place. *)
LEMMA PrefixAgrees ==
  ASSUME NEW s \in Path, NEW t \in Path
  PROVE  Tree!Paths!IsPrefix(s, t) <=>
           Len(s) <= Len(t) /\ \A i \in 1 .. Len(s) : s[i] = t[i]
<1> DEFINE n == Len(s)
           a == SubSeq(s, 1, n)
           b == SubSeq(t, 1, n)
<1>1. n \in Nat /\ Len(t) \in Nat
  BY PathHasLength
<1>2. Tree!Paths!IsPrefix(s, t) <=> n <= Len(t) /\ a = b
  BY DEF Tree!Paths!IsPrefix
<1>3. ASSUME n <= Len(t)
      PROVE  (a = b) <=> \A i \in 1 .. n : s[i] = t[i]
  <2>1. a \in Path /\ Len(a) = n /\ \A i \in 1 .. n : a[i] = s[i]
    BY <1>1, PathIsCut
  <2>2. b \in Path /\ Len(b) = n /\ \A i \in 1 .. n : b[i] = t[i]
    BY <1>1, <1>3, PathIsCut
  <2> HIDE DEF a, b, n
  <2>3. (\A i \in 1 .. n : s[i] = t[i]) => a = b
    BY <2>1, <2>2, SeqEqual DEF Path
  <2> QED
    BY <2>1, <2>2, <2>3
<1> QED
  BY <1>2, <1>3

LEMMA CutIsPrefix ==
  ASSUME NEW s \in Path, NEW n \in 0 .. Len(s)
  PROVE  LET cut == SubSeq(s, 1, n) IN
           cut \in Path /\ Len(cut) = n /\ Tree!Paths!IsPrefix(cut, s)
<1> DEFINE cut == SubSeq(s, 1, n)
<1>1. cut \in Path /\ Len(cut) = n /\ \A i \in 1 .. n : cut[i] = s[i]
  BY PathIsCut
<1>2. n <= Len(s)
  BY PathHasLength
<1> HIDE DEF cut
<1>3. Tree!Paths!IsPrefix(cut, s)
  BY <1>1, <1>2, PrefixAgrees
<1> QED
  BY <1>1, <1>3 DEF cut

LEMMA PrefixesAreOrdered ==
  ASSUME NEW s \in Path, NEW t \in Path, Tree!Paths!IsPrefix(s, t)
  PROVE  /\ Len(s) <= Len(t)
         /\ Len(s) = Len(t) => s = t
         /\ \A u \in Path : Tree!Paths!IsPrefix(t, u) => Tree!Paths!IsPrefix(s, u)
         /\ s = SubSeq(t, 1, Len(s))
<1>1. Len(s) \in Nat /\ Len(t) \in Nat
  BY PathHasLength
<1>2. Len(s) <= Len(t) /\ \A i \in 1 .. Len(s) : s[i] = t[i]
  BY PrefixAgrees
<1>3. Len(s) = Len(t) => s = t
  BY <1>2, SeqEqual DEF Path
<1>4. ASSUME NEW u \in Path, Tree!Paths!IsPrefix(t, u) PROVE Tree!Paths!IsPrefix(s, u)
  <2>1. Len(t) <= Len(u) /\ \A i \in 1 .. Len(t) : t[i] = u[i]
    BY <1>4, PrefixAgrees
  <2>2. Len(u) \in Nat
    BY PathHasLength
  <2>3. Len(s) <= Len(u) /\ \A i \in 1 .. Len(s) : s[i] = u[i]
    BY <1>1, <1>2, <2>1, <2>2
  <2> QED
    BY <2>3, PrefixAgrees
<1>5. s = SubSeq(t, 1, Len(s))
  <2> DEFINE cut == SubSeq(t, 1, Len(s))
  <2>1. cut \in Path /\ Len(cut) = Len(s) /\ \A i \in 1 .. Len(s) : cut[i] = t[i]
    BY <1>1, <1>2, PathIsCut
  <2> HIDE DEF cut
  <2>2. s = cut
    BY <1>2, <2>1, SeqEqual DEF Path
  <2> QED
    BY <2>2 DEF cut
<1> QED
  BY <1>2, <1>3, <1>4, <1>5

(* Of two prefixes of one path the shorter comes before the longer. *)
LEMMA PrefixesAreNested ==
  ASSUME NEW s \in Path, NEW t \in Path, NEW u \in Path,
         Tree!Paths!IsPrefix(s, u), Tree!Paths!IsPrefix(t, u), Len(s) <= Len(t)
  PROVE  Tree!Paths!IsPrefix(s, t)
<1>1. Len(s) \in Nat /\ Len(t) \in Nat
  BY PathHasLength
<1>2. /\ \A i \in 1 .. Len(s) : s[i] = u[i]
      /\ \A i \in 1 .. Len(t) : t[i] = u[i]
  BY PrefixAgrees
<1>3. \A i \in 1 .. Len(s) : s[i] = t[i]
  BY <1>1, <1>2
<1> QED
  BY <1>3, PrefixAgrees

LEMMA PrefixOfItself ==
  ASSUME NEW s \in Path
  PROVE  Tree!Paths!IsPrefix(s, s) /\ Tree!Paths!IsPrefix(<<>>, s)
<1>1. Len(s) \in Nat /\ <<>> \in Path /\ Len(<<>>) = 0
  BY PathHasLength, EmptySeq DEF Path
<1>2. Len(s) <= Len(s) /\ 0 <= Len(s) /\ 1 .. 0 = {}
  BY <1>1
<1> QED
  BY <1>1, <1>2, PrefixAgrees

-----------------------------------------------------------------------------
(* Directories and their entries *)

(* Identifiers of components, finitely many. *)
ArePaths(ids) == IsFiniteSet(ids) /\ ids \subseteq Path /\ <<>> \notin ids

LEMMA DirectoriesAre ==
  ASSUME NEW ids, ArePaths(ids)
  PROVE  /\ \A d : d \in Tree!Directories(ids) <=>
                     /\ d \in Path /\ d # <<>>
                     /\ \E id \in ids : Tree!Paths!IsPrefix(d, id)
         /\ ids \subseteq Tree!Directories(ids)
         /\ \A d \in Tree!Directories(ids) : Len(d) \in Nat \ {0}
<1> DEFINE cuts(id) == {SubSeq(id, 1, n) : n \in 0 .. Len(id)}
<1>1. Tree!Directories(ids) = UNION {cuts(id) \ {<<>>} : id \in ids}
  BY DEF Tree!Directories, Tree!Paths!Prefixes
<1>2. ASSUME NEW id \in ids, NEW d
      PROVE  d \in cuts(id) <=> d \in Path /\ Tree!Paths!IsPrefix(d, id)
  <2>1. id \in Path
    BY DEF ArePaths
  <2>2. ASSUME d \in cuts(id) PROVE d \in Path /\ Tree!Paths!IsPrefix(d, id)
    <3>1. PICK n \in 0 .. Len(id) : d = SubSeq(id, 1, n)
      BY <2>2
    <3> QED
      BY <2>1, <3>1, CutIsPrefix
  <2>3. ASSUME d \in Path, Tree!Paths!IsPrefix(d, id) PROVE d \in cuts(id)
    <3>1. d = SubSeq(id, 1, Len(d)) /\ Len(d) <= Len(id)
      BY <2>1, <2>3, PrefixesAreOrdered
    <3>2. Len(d) \in 0 .. Len(id)
      BY <2>1, <2>3, <3>1, PathHasLength
    <3> QED
      BY <3>1, <3>2
  <2> HIDE DEF cuts
  <2> QED
    BY <2>2, <2>3
<1> HIDE DEF cuts
<1>3. \A d : d \in Tree!Directories(ids) <=>
               /\ d \in Path /\ d # <<>>
               /\ \E id \in ids : Tree!Paths!IsPrefix(d, id)
  BY <1>1, <1>2
<1>4. ids \subseteq Tree!Directories(ids)
  BY <1>3, PrefixOfItself DEF ArePaths
<1>5. \A d \in Tree!Directories(ids) : Len(d) \in Nat \ {0}
  BY <1>3, EmptySeq DEF Path
<1> QED
  BY <1>3, <1>4, <1>5

LEMMA DirectoriesAreFinite ==
  ASSUME NEW ids, ArePaths(ids)
  PROVE  /\ IsFiniteSet(Tree!Directories(ids))
         /\ \E N \in Nat : \A d \in Tree!Directories(ids) : Len(d) <= N
<1> DEFINE directories == Tree!Directories(ids)
           cuts(id) == {SubSeq(id, 1, n) : n \in 0 .. Len(id)}
           all == [id \in ids |-> cuts(id) \ {<<>>}]
           images == {all[id] : id \in ids}
<1>1. directories = UNION images
  BY DEF Tree!Directories, Tree!Paths!Prefixes
<1>2. ASSUME NEW id \in ids PROVE IsFiniteSet(all[id])
  <2> DEFINE cut == [n \in 0 .. Len(id) |-> SubSeq(id, 1, n)]
             image == {cut[n] : n \in 0 .. Len(id)}
  <2>1. Len(id) \in Nat
    BY PathHasLength DEF ArePaths
  <2>2. IsFiniteSet(0 .. Len(id)) /\ DOMAIN cut = 0 .. Len(id)
    BY <2>1, FS_Interval
  <2>3. cuts(id) = image
    OBVIOUS
  <2>4. IsFiniteSet(image)
    <3> HIDE DEF cut
    <3> QED
      BY <2>2, ImageIsFinite
  <2> QED
    BY <2>3, <2>4, FS_Subset
<1>3. IsFiniteSet(ids) /\ DOMAIN all = ids
  BY DEF ArePaths
<1>4. IsFiniteSet(images)
  <2> HIDE DEF all
  <2> QED
    BY <1>3, ImageIsFinite
<1>5. \A T \in images : IsFiniteSet(T)
  BY <1>2
<1>6. IsFiniteSet(directories)
  <2> HIDE DEF images, directories
  <2> QED
    BY <1>1, <1>4, <1>5, FS_UNION
<1> HIDE DEF directories
<1>7. \E N \in Nat : \A d \in directories : Len(d) <= N
  <2> DEFINE length == [d \in directories |-> Len(d)]
             lengths == {length[d] : d \in directories}
  <2>1. \A d \in directories : length[d] = Len(d) /\ length[d] \in lengths /\ Len(d) \in Nat
    BY DirectoriesAre DEF directories
  <2>2. IsFiniteSet(lengths)
    <3>1. DOMAIN length = directories
      OBVIOUS
    <3> HIDE DEF length
    <3> QED
      BY <1>6, <3>1, ImageIsFinite
  <2>3. lengths \in SUBSET Int /\ lengths \in SUBSET Nat
    BY <2>1
  <2>4. CASE lengths = {}
    <3>1. directories = {}
      BY <2>1, <2>4
    <3> QED
      BY <3>1
  <2>5. CASE lengths # {}
    <3> HIDE DEF lengths
    <3>1. PICK N \in lengths : \A m \in lengths : m <= N
      BY <2>2, <2>3, <2>5, GreatestNumber
    <3> QED
      BY <2>1, <2>3, <3>1
  <2> QED
    BY <2>4, <2>5
<1> QED
  BY <1>6, <1>7 DEF directories

(* What comes before a directory is one, and what comes before another     *)
(* leads to it through an entry.                                           *)
LEMMA DirectoriesAreNested ==
  ASSUME NEW ids, ArePaths(ids), NEW x \in Tree!Directories(ids),
         NEW n \in 1 .. Len(x)
  PROVE  LET cut == SubSeq(x, 1, n) IN
           /\ cut \in Tree!Directories(ids) /\ Len(cut) = n /\ Tree!Paths!IsPrefix(cut, x)
<1> DEFINE cut == SubSeq(x, 1, n)
<1>1. x \in Path /\ \E id \in ids : Tree!Paths!IsPrefix(x, id)
  BY DirectoriesAre
<1>2. n \in 0 .. Len(x) /\ n \in Nat /\ n # 0
  BY <1>1, PathHasLength
<1>3. cut \in Path /\ Len(cut) = n /\ Tree!Paths!IsPrefix(cut, x)
  BY <1>1, <1>2, CutIsPrefix
<1> HIDE DEF cut
<1>4. cut # <<>>
  BY <1>2, <1>3, EmptySeq
<1>5. PICK id \in ids : Tree!Paths!IsPrefix(x, id)
  BY <1>1
<1>6. Tree!Paths!IsPrefix(cut, id)
  BY <1>1, <1>3, <1>5, PrefixesAreOrdered DEF ArePaths
<1>7. cut \in Tree!Directories(ids)
  BY <1>3, <1>4, <1>6, DirectoriesAre
<1> QED
  BY <1>3, <1>7 DEF cut

LEMMA EntryOnTheWay ==
  ASSUME NEW ids, ArePaths(ids), NEW x \in Tree!Directories(ids), NEW d \in Path,
         Tree!Paths!IsPrefix(d, x), d # x
  PROVE  LET entry == SubSeq(x, 1, Len(d) + 1) IN
           entry \in Tree!Entries(ids, d) /\ Tree!Paths!IsPrefix(entry, x)
<1> DEFINE n == Len(d) + 1
           entry == SubSeq(x, 1, n)
<1>1. x \in Path /\ Len(x) \in Nat /\ Len(d) \in Nat
  BY DirectoriesAre, PathHasLength
<1>2. Len(d) < Len(x)
  BY <1>1, PrefixesAreOrdered
<1>3. n \in 1 .. Len(x)
  BY <1>1, <1>2
<1> HIDE DEF n
<1>4. entry \in Tree!Directories(ids) /\ Len(entry) = n /\ Tree!Paths!IsPrefix(entry, x)
  BY <1>3, DirectoriesAreNested
<1>5. entry \in Path
  BY <1>4, DirectoriesAre
<1>6. Len(d) <= Len(entry)
  BY <1>1, <1>4 DEF n
<1> HIDE DEF entry
<1>7. Tree!Paths!IsPrefix(d, entry)
  BY <1>1, <1>4, <1>5, <1>6, PrefixesAreNested
<1> QED
  BY <1>4, <1>7 DEF Tree!Entries, n, entry

LEMMA EntriesAre ==
  ASSUME NEW ids, ArePaths(ids), NEW d
  PROVE  /\ \A e : e \in Tree!Entries(ids, d) <=>
                     /\ e \in Tree!Directories(ids)
                     /\ Len(e) = Len(d) + 1 /\ Tree!Paths!IsPrefix(d, e)
         /\ IsFiniteSet(Tree!Entries(ids, d))
         /\ Tree!Entries(ids, d) \subseteq Tree!Directories(ids)
<1>1. Tree!Entries(ids, d) \subseteq Tree!Directories(ids)
  BY DEF Tree!Entries
<1>2. IsFiniteSet(Tree!Entries(ids, d))
  BY <1>1, DirectoriesAreFinite, FS_Subset
<1> QED
  BY <1>1, <1>2 DEF Tree!Entries

-----------------------------------------------------------------------------
(* Merging: the first directory from an entry on that is not a relay.      *)

(* Every directory from the entry on that comes before is a relay. *)
Relayed(ids, entry, path) ==
  \A d \in Tree!Directories(ids) :
    Tree!Paths!IsPrefix(entry, d) /\ Tree!Paths!IsStrictPrefix(d, path) => Tree!Relays(ids, d)

LEMMA RelaysHaveAnEntry ==
  ASSUME NEW ids, ArePaths(ids), NEW d, Tree!Relays(ids, d)
  PROVE  \E c : Tree!Entries(ids, d) = {c}
<1>1. IsFiniteSet(Tree!Entries(ids, d))
  BY EntriesAre
<1>2. Cardinality(Tree!Entries(ids, d)) = 1
  BY DEF Tree!Relays, Tree!Cardinality, Cardinality
<1> QED
  BY <1>1, <1>2, FS_Singleton

LEMMA ChainsEnd ==
  ASSUME NEW ids, ArePaths(ids), NEW entry \in Tree!Directories(ids)
  PROVE  LET path == Tree!compact(ids, entry) IN
           /\ path \in Tree!Directories(ids) /\ Tree!Paths!IsPrefix(entry, path)
           /\ ~Tree!Relays(ids, path) /\ Relayed(ids, entry, path)
<1> DEFINE directories == Tree!Directories(ids)
           before(s, t) == Tree!Paths!IsPrefix(s, t)
           good == {q \in directories : before(entry, q) /\ Relayed(ids, entry, q)}
           length == [q \in good |-> Len(q)]
           lengths == {length[q] : q \in good}
<1>1. \A d \in directories : d \in Path /\ Len(d) \in Nat /\ Len(d) # 0
  BY DirectoriesAre
<1>2. entry \in good
  <2>1. before(entry, entry)
    BY <1>1, PrefixOfItself
  <2>2. ASSUME NEW d \in directories, before(entry, d), Tree!Paths!IsStrictPrefix(d, entry)
        PROVE  FALSE
    <3>1. before(d, entry) /\ d # entry
      BY <2>2 DEF Tree!Paths!IsStrictPrefix
    <3>2. Len(d) <= Len(entry) /\ Len(entry) <= Len(d)
      BY <1>1, <2>2, <3>1, PrefixesAreOrdered
    <3>3. Len(d) = Len(entry)
      BY <1>1, <3>2
    <3> QED
      BY <1>1, <3>1, <3>3, PrefixesAreOrdered
  <2> QED
    BY <2>1, <2>2 DEF Relayed
<1>3. \E q \in good : \A r \in good : Len(r) <= Len(q)
  <2>1. \A q \in good : length[q] = Len(q) /\ length[q] \in lengths /\ Len(q) \in Nat
    BY <1>1
  <2>2. IsFiniteSet(good)
    BY DirectoriesAreFinite, FS_Subset
  <2>3. IsFiniteSet(lengths)
    <3>1. DOMAIN length = good
      OBVIOUS
    <3> HIDE DEF length, good
    <3> QED
      BY <2>2, <3>1, ImageIsFinite
  <2>4. lengths \in SUBSET Int /\ lengths # {}
    <3> HIDE DEF good
    <3> QED
      BY <1>2, <2>1
  <2>5. PICK n \in lengths : \A m \in lengths : m <= n
    <3> HIDE DEF lengths
    <3> QED
      BY <2>3, <2>4, GreatestNumber
  <2> QED
    BY <2>1, <2>5
<1>4. PICK q \in good : \A r \in good : Len(r) <= Len(q)
  BY <1>3
<1>5. q \in directories /\ before(entry, q) /\ Relayed(ids, entry, q)
  BY <1>4
<1>6. ASSUME Tree!Relays(ids, q) PROVE FALSE
  <2>1. PICK c : Tree!Entries(ids, q) = {c}
    BY <1>6, RelaysHaveAnEntry
  <2>2. c \in directories /\ Len(c) = Len(q) + 1 /\ before(q, c)
    BY <2>1, EntriesAre
  <2>3. before(entry, c)
    BY <1>1, <1>5, <2>2, PrefixesAreOrdered
  <2>4. ASSUME NEW d \in directories, before(entry, d), Tree!Paths!IsStrictPrefix(d, c)
        PROVE  Tree!Relays(ids, d)
    <3>1. before(d, c) /\ d # c
      BY <2>4 DEF Tree!Paths!IsStrictPrefix
    <3>2. Len(d) <= Len(c) /\ Len(d) # Len(c)
      BY <1>1, <2>2, <3>1, PrefixesAreOrdered
    <3>3. Len(d) <= Len(q)
      BY <1>1, <1>5, <2>2, <3>2
    <3>4. before(d, q)
      BY <1>1, <1>5, <2>2, <3>1, <3>3, PrefixesAreNested
    <3>5. CASE d = q
      BY <1>6, <3>5
    <3>6. CASE d # q
      BY <1>5, <2>4, <3>4, <3>6 DEF Relayed, Tree!Paths!IsStrictPrefix
    <3> QED
      BY <3>5, <3>6
  <2>5. c \in good
    BY <2>2, <2>3, <2>4 DEF Relayed
  <2>6. Len(c) <= Len(q)
    BY <1>4, <2>5
  <2> QED
    BY <1>1, <1>5, <2>2, <2>6
<1>7. \E path \in directories :
        /\ before(entry, path) /\ ~Tree!Relays(ids, path)
        /\ \A d \in directories :
             before(entry, d) /\ Tree!Paths!IsStrictPrefix(d, path) => Tree!Relays(ids, d)
  BY <1>5, <1>6 DEF Relayed
<1> QED
  BY <1>7 DEF Tree!compact, Relayed

(* The chain of an entry does not branch. *)
LEMMA ChainsDoNotBranch ==
  ASSUME NEW ids, ArePaths(ids), NEW entry \in Tree!Directories(ids),
         NEW path \in Tree!Directories(ids), Tree!Paths!IsPrefix(entry, path),
         Relayed(ids, entry, path),
         NEW x \in Tree!Directories(ids), Tree!Paths!IsPrefix(entry, x)
  PROVE  Tree!Paths!IsPrefix(x, path) \/ Tree!Paths!IsPrefix(path, x)
<1> SUFFICES ASSUME ~Tree!Paths!IsPrefix(x, path), ~Tree!Paths!IsPrefix(path, x) PROVE FALSE
  OBVIOUS
<1> DEFINE before(s, t) == Tree!Paths!IsPrefix(s, t)
           cut(n) == SubSeq(path, 1, n)
           common == {n \in 1 .. Len(path) : before(cut(n), x)}
<1>1. /\ \A d \in Tree!Directories(ids) : d \in Path /\ Len(d) \in Nat /\ Len(d) # 0
      /\ Len(path) \in Nat /\ Len(entry) \in Nat
  BY DirectoriesAre
<1>2. Len(entry) \in common
  <2>1. entry = cut(Len(entry)) /\ Len(entry) <= Len(path)
    BY <1>1, PrefixesAreOrdered
  <2>2. Len(entry) \in 1 .. Len(path)
    BY <1>1, <2>1
  <2>3. before(cut(Len(entry)), x)
    BY <2>1
  <2> HIDE DEF cut
  <2> QED
    BY <2>2, <2>3
<1>3. PICK n \in common : \A m \in common : m <= n
  <2>1. common \in SUBSET Int /\ common \in SUBSET (1 .. Len(path))
    BY <1>1
  <2>2. IsFiniteSet(common)
    BY <1>1, <2>1, IntervalIsFinite, FS_Subset
  <2> HIDE DEF common
  <2> QED
    BY <1>2, <2>1, <2>2, GreatestNumber
<1> DEFINE q == cut(n)
<1>4. n \in 1 .. Len(path) /\ before(q, x) /\ Len(entry) <= n
  BY <1>2, <1>3
<1>5. q \in Tree!Directories(ids) /\ Len(q) = n /\ before(q, path)
  BY <1>4, DirectoriesAreNested
<1>6. q # path /\ q # x
  BY <1>4, <1>5
<1> HIDE DEF q, cut, common
<1>7. before(entry, q)
  BY <1>1, <1>4, <1>5, PrefixesAreNested
<1>8. Tree!Relays(ids, q)
  BY <1>5, <1>6, <1>7 DEF Relayed, Tree!Paths!IsStrictPrefix
<1>9. PICK c : Tree!Entries(ids, q) = {c}
  BY <1>8, RelaysHaveAnEntry
<1>10. SubSeq(path, 1, n + 1) = c
  BY <1>1, <1>5, <1>6, <1>9, EntryOnTheWay
<1>11. SubSeq(x, 1, n + 1) = c /\ before(c, x)
  <2>1. SubSeq(x, 1, n + 1) \in Tree!Entries(ids, q) /\ before(SubSeq(x, 1, n + 1), x)
    BY <1>1, <1>4, <1>5, <1>6, EntryOnTheWay
  <2> QED
    BY <1>9, <2>1
<1>12. n < Len(path)
  BY <1>1, <1>4, <1>5, <1>6, PrefixesAreOrdered
<1>13. n + 1 \in common
  <2>1. n + 1 \in 1 .. Len(path)
    BY <1>1, <1>4, <1>12
  <2>2. before(cut(n + 1), x)
    BY <1>10, <1>11 DEF cut
  <2> QED
    BY <2>1, <2>2 DEF common
<1> QED
  BY <1>1, <1>3, <1>4, <1>13

(* An identifier ends a chain, so merging never goes past it. *)
LEMMA ChainsLeadToComponents ==
  ASSUME NEW ids, ArePaths(ids), NEW entry \in Tree!Directories(ids), NEW id \in ids,
         Tree!Paths!IsPrefix(entry, id)
  PROVE  Tree!Paths!IsPrefix(Tree!compact(ids, entry), id)
<1> DEFINE path == Tree!compact(ids, entry)
<1>1. /\ path \in Tree!Directories(ids) /\ Tree!Paths!IsPrefix(entry, path)
      /\ Relayed(ids, entry, path)
  BY ChainsEnd
<1>2. id \in Tree!Directories(ids)
  BY DirectoriesAre
<1> HIDE DEF path
<1>3. Tree!Paths!IsPrefix(id, path) \/ Tree!Paths!IsPrefix(path, id)
  BY <1>1, <1>2, ChainsDoNotBranch
<1>4. CASE Tree!Paths!IsPrefix(id, path) /\ id # path
  <2>1. Tree!Relays(ids, id)
    BY <1>1, <1>2, <1>4 DEF Relayed, Tree!Paths!IsStrictPrefix
  <2> QED
    BY <2>1 DEF Tree!Relays
<1> QED
  BY <1>3, <1>4 DEF path

(* The entries that get a node: those at the root and those of a directory *)
(* that is not merged.                                                     *)
Arrives(ids, entry) ==
  \/ entry \in Tree!Entries(ids, <<>>)
  \/ \E d \in Tree!Directories(ids) : ~Tree!Relays(ids, d) /\ entry \in Tree!Entries(ids, d)

LEMMA ChainsAreApart ==
  ASSUME NEW ids, ArePaths(ids), NEW e, NEW f, Arrives(ids, e), Arrives(ids, f),
         Tree!compact(ids, e) = Tree!compact(ids, f), Len(e) <= Len(f)
  PROVE  e = f
<1> DEFINE path == Tree!compact(ids, e)
<1>1. e \in Tree!Directories(ids) /\ f \in Tree!Directories(ids)
  BY EntriesAre DEF Arrives
<1>2. /\ path \in Tree!Directories(ids) /\ Relayed(ids, e, path)
      /\ Tree!Paths!IsPrefix(e, path) /\ Tree!Paths!IsPrefix(f, path)
  BY <1>1, ChainsEnd
<1>3. \A d \in Tree!Directories(ids) : d \in Path /\ Len(d) \in Nat /\ Len(d) # 0
  BY DirectoriesAre
<1> HIDE DEF path
<1>4. Tree!Paths!IsPrefix(e, f)
  BY <1>1, <1>2, <1>3, PrefixesAreNested
<1>5. CASE Len(e) = Len(f)
  BY <1>1, <1>3, <1>4, <1>5, PrefixesAreOrdered
<1>6. CASE Len(e) # Len(f)
  <2>1. Len(e) < Len(f)
    BY <1>1, <1>3, <1>6
  <2>2. f \notin Tree!Entries(ids, <<>>)
    <3>1. Len(<<>>) + 1 = 1
      BY EmptySeq
    <3> DEFINE m == Len(e)
               n == Len(f)
    <3>2. m \in Nat /\ n \in Nat /\ m # 0 /\ m < n
      BY <1>1, <1>3, <2>1
    <3> HIDE DEF m, n
    <3>3. n # 1
      BY <3>2
    <3> QED
      BY <3>1, <3>3, EntriesAre DEF n
  <2>3. PICK d \in Tree!Directories(ids) : ~Tree!Relays(ids, d) /\ f \in Tree!Entries(ids, d)
    BY <2>2 DEF Arrives
  <2>4. Len(f) = Len(d) + 1 /\ Tree!Paths!IsPrefix(d, f)
    BY <2>3, EntriesAre
  <2>5. Len(e) <= Len(d) /\ d # path
    <3>1. Len(f) <= Len(path)
      BY <1>1, <1>2, <1>3, PrefixesAreOrdered
    <3> QED
      BY <1>1, <1>2, <1>3, <2>1, <2>4, <3>1
  <2>6. Tree!Paths!IsPrefix(e, d)
    BY <1>1, <1>3, <1>4, <2>4, <2>5, PrefixesAreNested
  <2>7. Tree!Paths!IsPrefix(d, path)
    BY <1>1, <1>2, <1>3, <2>4, PrefixesAreOrdered
  <2>8. Tree!Relays(ids, d)
    BY <1>2, <2>5, <2>6, <2>7 DEF Relayed, Tree!Paths!IsStrictPrefix
  <2> QED
    BY <2>3, <2>8
<1> QED
  BY <1>5, <1>6

-----------------------------------------------------------------------------
(* Nodes *)

(* The node of an entry, made of the nodes g of longer ones. *)
NodeOf(ids, g, entry) ==
  LET path == Tree!compact(ids, entry) IN
    [label |-> SubSeq(path, Len(entry), Len(path)),
     path |-> path,
     componentId |-> IF path \in ids THEN path ELSE <<>>,
     children |-> {g[child] : child \in Tree!Entries(ids, path)}]

IsTree(ids, g, entries) == g = [entry \in entries |-> NodeOf(ids, g, entry)]

LEMMA ChildrenAreLonger ==
  ASSUME NEW ids, ArePaths(ids), NEW entry \in Tree!Directories(ids),
         NEW child \in Tree!Entries(ids, Tree!compact(ids, entry))
  PROVE  /\ child \in Tree!Directories(ids) /\ Len(entry) < Len(child)
         /\ Arrives(ids, child)
         /\ Len(Tree!compact(ids, entry)) < Len(Tree!compact(ids, child))
<1> DEFINE path == Tree!compact(ids, entry)
           next == Tree!compact(ids, child)
<1>1. /\ path \in Tree!Directories(ids) /\ Tree!Paths!IsPrefix(entry, path)
      /\ ~Tree!Relays(ids, path)
  BY ChainsEnd
<1>2. child \in Tree!Directories(ids) /\ Len(child) = Len(path) + 1
  BY EntriesAre
<1>3. next \in Tree!Directories(ids) /\ Tree!Paths!IsPrefix(child, next)
  BY <1>2, ChainsEnd
<1>4. /\ entry \in Path /\ path \in Path /\ child \in Path /\ next \in Path
      /\ Len(entry) \in Nat /\ Len(path) \in Nat /\ Len(child) \in Nat /\ Len(next) \in Nat
  BY <1>1, <1>2, <1>3, DirectoriesAre
<1>5. Arrives(ids, child)
  BY <1>1 DEF Arrives
<1> HIDE DEF path, next
<1>6. Len(entry) <= Len(path) /\ Len(child) <= Len(next)
  BY <1>1, <1>3, <1>4, PrefixesAreOrdered
<1>7. Len(entry) < Len(child) /\ Len(path) < Len(next)
  BY <1>2, <1>4, <1>6
<1> QED
  BY <1>2, <1>5, <1>7 DEF path, next

(* The nodes of the longest entries come first. *)
LEMMA TreeIsDefined ==
  ASSUME NEW ids, ArePaths(ids)
  PROVE  \E g : IsTree(ids, g, Tree!Directories(ids))
<1> DEFINE directories == Tree!Directories(ids)
           longer(n) == {e \in directories : n < Len(e)}
<1>1. PICK N \in Nat : \A d \in directories : Len(d) <= N
  BY DirectoriesAreFinite
<1>2. \A d \in directories : Len(d) \in Nat /\ Len(d) # 0
  BY DirectoriesAre
<1> HIDE DEF directories
<1> DEFINE undefined == {m \in 0 .. N : ~ \E g : IsTree(ids, g, longer(N - m))}
<1>3. undefined = {}
  <2> SUFFICES ASSUME undefined # {} PROVE FALSE
    OBVIOUS
  <2>1. PICK m \in undefined : \A k \in undefined : m <= k
    <3>1. undefined \in SUBSET Nat
      OBVIOUS
    <3> HIDE DEF undefined
    <3> QED
      BY <3>1, LeastNumber
  <2>2. m \in 0 .. N /\ ~ \E g : IsTree(ids, g, longer(N - m))
    BY <2>1
  <2>3. CASE m = 0
    <3> DEFINE g == [e \in {} |-> <<>>]
    <3>1. longer(N - m) = {}
      <4>1. ASSUME NEW e \in directories, N - m < Len(e) PROVE FALSE
        BY <1>1, <1>2, <2>3, <4>1
      <4> QED
        BY <4>1
    <3>2. IsTree(ids, g, {})
      BY DEF IsTree
    <3> QED
      BY <2>2, <3>1, <3>2
  <2>4. CASE m # 0
    <3> DEFINE shorter == longer(N - m)
               before == longer(N - (m - 1))
    <3>1. m - 1 \in 0 .. N /\ ~(m <= m - 1)
      BY <2>2, <2>4
    <3>2. PICK g : IsTree(ids, g, before)
      BY <2>1, <3>1
    <3> DEFINE h == [e \in shorter |-> IF e \in before THEN g[e] ELSE NodeOf(ids, g, e)]
    <3>3. before \subseteq shorter
      <4>1. ASSUME NEW e \in directories, N - (m - 1) < Len(e) PROVE N - m < Len(e)
        BY <1>2, <2>2, <4>1
      <4> QED
        BY <4>1
    <3>4. ASSUME NEW e \in shorter, NEW child \in Tree!Entries(ids, Tree!compact(ids, e))
          PROVE  child \in before
      <4>1. e \in directories /\ N - m < Len(e) /\ Len(e) \in Nat
        BY <1>2
      <4>2. child \in directories /\ Len(e) < Len(child) /\ Len(child) \in Nat
        BY <1>2, <4>1, ChildrenAreLonger DEF directories
      <4>3. N - (m - 1) < Len(child)
        BY <2>2, <4>1, <4>2
      <4> QED
        BY <4>2, <4>3
    <3> HIDE DEF shorter, before
    <3>5. ASSUME NEW e \in shorter PROVE h[e] = NodeOf(ids, h, e)
      <4> DEFINE path == Tree!compact(ids, e)
      <4>1. \A child \in Tree!Entries(ids, path) : h[child] = g[child]
        BY <3>3, <3>4, <3>5
      <4>2. {h[child] : child \in Tree!Entries(ids, path)}
              = {g[child] : child \in Tree!Entries(ids, path)}
        BY <4>1
      <4>3. NodeOf(ids, h, e) = NodeOf(ids, g, e)
        <5> HIDE DEF h
        <5> QED
          BY <4>2 DEF NodeOf
      <4>4. h[e] = NodeOf(ids, g, e)
        BY <3>2 DEF IsTree
      <4> QED
        BY <4>3, <4>4
    <3>6. h = [e \in shorter |-> h[e]]
      OBVIOUS
    <3> HIDE DEF h
    <3>7. IsTree(ids, h, shorter)
      BY <3>5, <3>6 DEF IsTree
    <3> QED
      BY <2>2, <3>7 DEF shorter
  <2> QED
    BY <2>3, <2>4
<1>4. \E g : IsTree(ids, g, longer(N - N))
  <2>1. N \in 0 .. N
    OBVIOUS
  <2> HIDE DEF longer
  <2> QED
    BY <1>3, <2>1
<1>5. longer(N - N) = directories
  BY <1>2
<1> QED
  BY <1>4, <1>5 DEF directories

LEMMA NodesAre ==
  ASSUME NEW ids, ArePaths(ids), NEW entry \in Tree!Directories(ids)
  PROVE  LET node == Tree!finalize(ids)
             path == Tree!compact(ids, entry) IN
           /\ node[entry].label = SubSeq(path, Len(entry), Len(path))
           /\ node[entry].path = path
           /\ node[entry].componentId = IF path \in ids THEN path ELSE <<>>
           /\ node[entry].children = {node[child] : child \in Tree!Entries(ids, path)}
<1> DEFINE node == Tree!finalize(ids)
<1>1. node = CHOOSE g : IsTree(ids, g, Tree!Directories(ids))
  BY DEF Tree!finalize, IsTree, NodeOf
<1>2. IsTree(ids, node, Tree!Directories(ids))
  BY <1>1, TreeIsDefined
<1> HIDE DEF node
<1>3. node[entry] = NodeOf(ids, node, entry)
  BY <1>2 DEF IsTree
<1> QED
  BY <1>3 DEF NodeOf, node

(* What a node is, and that its children are nodes with longer paths. *)
LEMMA ChildrenAreNodes ==
  ASSUME NEW ids, ArePaths(ids), NEW n \in Tree!Nodes(ids)
  PROVE  /\ n.path \in Tree!Directories(ids) /\ Len(n.path) \in Nat
         /\ n.children \subseteq Tree!Nodes(ids)
         /\ \A c \in n.children : Len(n.path) < Len(c.path)
<1> DEFINE node == Tree!finalize(ids)
<1>1. PICK entry \in Tree!Directories(ids) : n = node[entry]
  BY DEF Tree!Nodes
<1> DEFINE path == Tree!compact(ids, entry)
<1>2. n.path = path /\ n.children = {node[child] : child \in Tree!Entries(ids, path)}
  BY <1>1, NodesAre
<1>3. path \in Tree!Directories(ids)
  BY ChainsEnd
<1>4. ASSUME NEW c \in n.children
      PROVE  c \in Tree!Nodes(ids) /\ Len(path) < Len(c.path)
  <2>1. PICK child \in Tree!Entries(ids, path) : c = node[child]
    BY <1>2
  <2>2. child \in Tree!Directories(ids) /\ Len(path) < Len(Tree!compact(ids, child))
    BY ChildrenAreLonger
  <2>3. c.path = Tree!compact(ids, child)
    BY <2>1, <2>2, NodesAre
  <2> QED
    BY <2>1, <2>2, <2>3 DEF Tree!Nodes
<1>5. Len(path) \in Nat
  BY <1>3, DirectoriesAre
<1> HIDE DEF node, path
<1> QED
  BY <1>2, <1>3, <1>4, <1>5

-----------------------------------------------------------------------------
(* The way to a component, and what is on screen *)

Outcomes(ids) == [isDefined : BOOLEAN, paths : SUBSET Tree!Directories(ids)]

FoundAt(id, found, node) ==
  LET below == Tree!Among(node.children, found) IN
    IF node.componentId = id THEN Tree!Found({})
    ELSE IF below.isDefined THEN Tree!Found(Tree!Above(node, below.paths))
    ELSE Tree!Undefined

ShownUnder(openPaths, under, node) ==
  {node} \cup (IF node.path \in openPaths THEN UNION {under[c] : c \in node.children} ELSE {})

(* Both are computed from the children, which have longer paths. *)
LEMMA NodesDescend ==
  ASSUME NEW ids, ArePaths(ids), NEW V, NEW v \in V,
         NEW value \in [Tree!Nodes(ids) -> [[Tree!Nodes(ids) -> V] -> V]],
         \A n \in Tree!Nodes(ids), g, h \in [Tree!Nodes(ids) -> V] :
           (\A c \in n.children : g[c] = h[c]) => value[n][g] = value[n][h]
  PROVE  \E g : IsDescent(g, Tree!Nodes(ids), V, value)
<1> DEFINE nodes == Tree!Nodes(ids)
           rank == [n \in nodes |-> Len(n.path)]
<1>1. PICK N \in Nat : \A d \in Tree!Directories(ids) : Len(d) <= N
  BY DirectoriesAreFinite
<1>2. ASSUME NEW n \in nodes
      PROVE  /\ rank[n] \in 0 .. N /\ n.children \subseteq nodes
             /\ \A c \in n.children : rank[n] < rank[c]
  <2>1. /\ n.path \in Tree!Directories(ids) /\ Len(n.path) \in Nat
        /\ n.children \subseteq nodes /\ \A c \in n.children : Len(n.path) < Len(c.path)
    BY ChildrenAreNodes
  <2>2. Len(n.path) \in 0 .. N
    BY <1>1, <2>1
  <2> HIDE DEF nodes
  <2>3. \A c \in n.children : rank[n] < rank[c]
    BY <2>1
  <2> QED
    BY <2>1, <2>2, <2>3
<1>3. rank \in [nodes -> 0 .. N]
  BY <1>2
<1> HIDE DEF rank
<1>4. ASSUME NEW n \in nodes, NEW g \in [nodes -> V], NEW h \in [nodes -> V],
             \A y \in nodes : rank[n] < rank[y] => g[y] = h[y]
      PROVE  value[n][g] = value[n][h]
  BY <1>2, <1>4
<1>5. value \in [nodes -> [[nodes -> V] -> V]]
  OBVIOUS
<1> HIDE DEF nodes
<1>6. \E g : IsDescent(g, nodes, V, value)
  BY <1>1, <1>3, <1>4, <1>5, DescentIsDefined
<1> QED
  BY <1>6 DEF nodes

(* What fails at a node, fails at a child, or at none: the place of        *)
(* induction over the tree.                                                *)
LEMMA NoneFails ==
  ASSUME NEW ids, ArePaths(ids), NEW bad \in SUBSET Tree!Nodes(ids),
         \A n \in bad : \E c \in n.children : c \in bad
  PROVE  bad = {}
<1> SUFFICES ASSUME bad # {} PROVE FALSE
  OBVIOUS
<1> DEFINE lengths == {Len(n.path) : n \in bad}
<1>1. PICK N \in Nat : \A d \in Tree!Directories(ids) : Len(d) <= N
  BY DirectoriesAreFinite
<1>2. ASSUME NEW n \in bad
      PROVE  Len(n.path) \in 0 .. N /\ \A c \in n.children : Len(n.path) < Len(c.path)
  <2>1. /\ n.path \in Tree!Directories(ids) /\ Len(n.path) \in Nat
        /\ \A c \in n.children : Len(n.path) < Len(c.path)
    BY ChildrenAreNodes
  <2> QED
    BY <1>1, <2>1
<1>3. lengths \subseteq 0 .. N /\ lengths # {}
  BY <1>2
<1>4. IsFiniteSet(lengths) /\ lengths \in SUBSET Int
  <2>1. IsFiniteSet(0 .. N) /\ 0 .. N \subseteq Int
    BY FS_Interval
  <2> HIDE DEF lengths
  <2> QED
    BY <1>3, <2>1, FS_Subset
<1>5. PICK k \in lengths : \A m \in lengths : m <= k
  <2> HIDE DEF lengths
  <2> QED
    BY <1>3, <1>4, GreatestNumber
<1>6. PICK n \in bad : k = Len(n.path)
  BY <1>5
<1>7. PICK c \in n.children : c \in bad
  BY <1>6
<1>8. Len(n.path) < Len(c.path) /\ Len(c.path) <= Len(n.path)
  BY <1>2, <1>5, <1>6, <1>7
<1>9. Len(n.path) \in Nat /\ Len(c.path) \in Nat
  BY <1>2, <1>7
<1> QED
  BY <1>8, <1>9

LEMMA AmongChildren ==
  ASSUME NEW ids, NEW nodes, NEW found, \A c \in nodes : found[c] \in Outcomes(ids)
  PROVE  /\ Tree!Among(nodes, found) \in Outcomes(ids)
         /\ (\E c \in nodes : found[c].isDefined)
              => \E c \in nodes : found[c].isDefined /\ Tree!Among(nodes, found) = found[c]
         /\ ~(\E c \in nodes : found[c].isDefined) => ~Tree!Among(nodes, found).isDefined
         /\ \A other : (\A c \in nodes : found[c] = other[c])
                         => Tree!Among(nodes, found) = Tree!Among(nodes, other)
<1> DEFINE holders == {n \in nodes : found[n].isDefined}
           first == CHOOSE n \in holders : TRUE
<1>1. Tree!Among(nodes, found) = IF holders = {} THEN Tree!Undefined ELSE found[first]
  BY DEF Tree!Among
<1>2. Tree!Undefined \in Outcomes(ids) /\ ~Tree!Undefined.isDefined
  BY DEF Tree!Undefined, Outcomes
<1>3. holders # {} => first \in holders
  OBVIOUS
<1>4. ASSUME NEW other, \A c \in nodes : found[c] = other[c]
      PROVE  Tree!Among(nodes, found) = Tree!Among(nodes, other)
  <2>1. {n \in nodes : other[n].isDefined} = holders
    BY <1>4
  <2>2. Tree!Among(nodes, other) = IF holders = {} THEN Tree!Undefined ELSE other[first]
    <3> DEFINE others == {n \in nodes : other[n].isDefined}
    <3>1. Tree!Among(nodes, other) =
            IF others = {} THEN Tree!Undefined ELSE other[CHOOSE n \in others : TRUE]
      BY DEF Tree!Among
    <3>2. others = holders
      BY <2>1
    <3> HIDE DEF others, holders
    <3> QED
      BY <3>1, <3>2
  <2>3. holders # {} => other[first] = found[first]
    BY <1>3, <1>4
  <2> HIDE DEF first, holders
  <2> QED
    BY <1>1, <2>2, <2>3
<1>5. Tree!Among(nodes, found) \in Outcomes(ids)
  BY <1>1, <1>2, <1>3
<1>6. (\E c \in nodes : found[c].isDefined)
        => \E c \in nodes : found[c].isDefined /\ Tree!Among(nodes, found) = found[c]
  BY <1>1, <1>3
<1>7. ~(\E c \in nodes : found[c].isDefined) => ~Tree!Among(nodes, found).isDefined
  BY <1>1, <1>2
<1> QED
  BY <1>4, <1>5, <1>6, <1>7

LEMMA AncestorsAreFound ==
  ASSUME NEW ids, ArePaths(ids), NEW id
  PROVE  LET found == Tree!findAncestors(ids, id) IN
           \A n \in Tree!Nodes(ids) :
             found[n] \in Outcomes(ids) /\ found[n] = FoundAt(id, found, n)
<1> DEFINE nodes == Tree!Nodes(ids)
           V == Outcomes(ids)
           F == [nodes -> V]
           value == [n \in nodes |-> [g \in F |-> FoundAt(id, g, n)]]
           found == Tree!findAncestors(ids, id)
<1>1. Tree!Undefined \in V
  BY DEF Tree!Undefined, Outcomes
<1>2. ASSUME NEW n \in nodes, NEW g, \A c \in n.children : g[c] \in V
      PROVE  /\ FoundAt(id, g, n) \in V
             /\ \A h : (\A c \in n.children : g[c] = h[c])
                        => FoundAt(id, g, n) = FoundAt(id, h, n)
  <2> DEFINE below == Tree!Among(n.children, g)
  <2>1. n.path \in Tree!Directories(ids)
    BY ChildrenAreNodes
  <2>2. /\ below \in V
        /\ \A h : (\A c \in n.children : g[c] = h[c]) => below = Tree!Among(n.children, h)
    BY <1>2, AmongChildren
  <2>3. \A h : (\A c \in n.children : g[c] = h[c]) => FoundAt(id, g, n) = FoundAt(id, h, n)
    BY <2>2 DEF FoundAt
  <2>4. FoundAt(id, g, n) = IF n.componentId = id THEN Tree!Found({})
                            ELSE IF below.isDefined THEN Tree!Found(Tree!Above(n, below.paths))
                            ELSE Tree!Undefined
    BY DEF FoundAt
  <2> HIDE DEF below, nodes
  <2>5. below.paths \in SUBSET Tree!Directories(ids)
    BY <2>2 DEF Outcomes
  <2>6. Tree!Found(Tree!Above(n, below.paths)) \in V /\ Tree!Found({}) \in V
    BY <2>1, <2>5 DEF Tree!Found, Tree!Above, Outcomes
  <2> HIDE DEF V
  <2> QED
    BY <1>1, <2>3, <2>4, <2>6
<1>3. ASSUME NEW n \in nodes, NEW g \in F
      PROVE  /\ \A c \in n.children : c \in nodes /\ g[c] \in V
             /\ value[n][g] = FoundAt(id, g, n)
  BY ChildrenAreNodes
<1>4. value \in [nodes -> [F -> V]]
  <2> HIDE DEF nodes, V
  <2> QED
    BY <1>2, <1>3
<1>5. ASSUME NEW n \in nodes, NEW g \in F, NEW h \in F, \A c \in n.children : g[c] = h[c]
      PROVE  value[n][g] = value[n][h]
  <2> HIDE DEF nodes, V, value
  <2> QED
    BY <1>2, <1>3, <1>5
<1>6. PICK g : IsDescent(g, nodes, V, value)
  <2> HIDE DEF value, V
  <2> QED
    BY <1>1, <1>4, <1>5, NodesDescend
<1>7. g = [n \in nodes |-> FoundAt(id, g, n)]
  <2>1. g \in F /\ \A n \in nodes : g[n] = value[n][g]
    BY <1>6 DEF IsDescent
  <2> HIDE DEF nodes, V, value
  <2> QED
    BY <1>3, <2>1
<1> HIDE DEF value
<1> DEFINE Computed(f) == f = [n \in nodes |-> FoundAt(id, f, n)]
<1>8. found = CHOOSE f : Computed(f)
  BY DEF Tree!findAncestors, FoundAt
<1>9. Computed(found)
  BY <1>7, <1>8
<1> HIDE DEF found
<1>10. \A n \in nodes : found[n] = FoundAt(id, found, n)
  <2> HIDE DEF nodes
  <2> QED
    BY <1>9
<1> DEFINE bad == {n \in nodes : found[n] \notin V}
<1>11. ASSUME NEW n \in bad PROVE \E c \in n.children : c \in bad
  <2>1. n \in nodes /\ n.children \subseteq nodes
    BY ChildrenAreNodes
  <2> HIDE DEF nodes, V
  <2>2. ~ \A c \in n.children : found[c] \in V
    BY <1>2, <1>10, <1>11, <2>1
  <2> QED
    BY <2>1, <2>2
<1>12. bad = {}
  <2>1. bad \in SUBSET Tree!Nodes(ids)
    OBVIOUS
  <2> HIDE DEF bad
  <2> QED
    BY <1>11, <2>1, NoneFails
<1> QED
  BY <1>10, <1>12 DEF found

LEMMA ScreenIsComputed ==
  ASSUME NEW ids, ArePaths(ids), NEW openPaths
  PROVE  \E under :
           /\ \A n \in Tree!Nodes(ids) : under[n] = ShownUnder(openPaths, under, n)
           /\ Tree!shown(ids, openPaths) =
                UNION {under[root] : root \in Tree!buildComponentTree(ids)}
<1> DEFINE nodes == Tree!Nodes(ids)
           V == SUBSET nodes
           F == [nodes -> V]
           value == [n \in nodes |-> [g \in F |-> ShownUnder(openPaths, g, n)]]
           Computed(f) == f = [n \in nodes |-> ShownUnder(openPaths, f, n)]
           under == CHOOSE f : Computed(f)
<1>1. {} \in V
  OBVIOUS
<1>2. ASSUME NEW n \in nodes, NEW g \in F
      PROVE  /\ value[n][g] = ShownUnder(openPaths, g, n) /\ value[n][g] \in V
             /\ \A h \in F : (\A c \in n.children : g[c] = h[c]) => value[n][g] = value[n][h]
  <2>1. n.children \subseteq nodes
    BY ChildrenAreNodes
  <2>2. \A h \in F : value[n][h] = ShownUnder(openPaths, h, n)
    OBVIOUS
  <2>3. ShownUnder(openPaths, g, n) \in V
    <3> HIDE DEF nodes
    <3> QED
      BY <2>1 DEF ShownUnder
  <2>4. ASSUME NEW h \in F, \A c \in n.children : g[c] = h[c]
        PROVE  ShownUnder(openPaths, g, n) = ShownUnder(openPaths, h, n)
    <3>1. {g[c] : c \in n.children} = {h[c] : c \in n.children}
      BY <2>4
    <3> QED
      BY <3>1 DEF ShownUnder
  <2> HIDE DEF value, F, V
  <2> QED
    BY <2>2, <2>3, <2>4
<1>3. value \in [nodes -> [F -> V]]
  <2> HIDE DEF nodes, V
  <2> QED
    BY <1>2
<1>4. PICK g : IsDescent(g, nodes, V, value)
  <2> HIDE DEF value, V
  <2> QED
    BY <1>1, <1>2, <1>3, NodesDescend
<1>5. Computed(g)
  <2>1. g \in F /\ \A n \in nodes : g[n] = value[n][g]
    BY <1>4 DEF IsDescent
  <2> HIDE DEF nodes, V, value
  <2> QED
    BY <1>2, <2>1
<1>6. Computed(under)
  BY <1>5
<1>7. Tree!shown(ids, openPaths) = UNION {under[root] : root \in Tree!buildComponentTree(ids)}
  BY DEF Tree!shown, ShownUnder
<1> HIDE DEF under
<1>8. \A n \in nodes : under[n] = ShownUnder(openPaths, under, n)
  <2> HIDE DEF nodes
  <2> QED
    BY <1>6
<1> QED
  BY <1>7, <1>8

(* A way leads to its component when all of it is open. *)
LEMMA WaysLead ==
  ASSUME NEW ids, ArePaths(ids), NEW id, NEW openPaths, NEW under,
         \A n \in Tree!Nodes(ids) : under[n] = ShownUnder(openPaths, under, n)
  PROVE  LET found == Tree!findAncestors(ids, id) IN
           \A n \in Tree!Nodes(ids) :
             found[n].isDefined /\ found[n].paths \subseteq openPaths
               => \E m \in under[n] : m.componentId = id
<1> DEFINE nodes == Tree!Nodes(ids)
           found == Tree!findAncestors(ids, id)
           Shows(n) == \E m \in under[n] : m.componentId = id
           IsOpen(n) == found[n].isDefined /\ found[n].paths \subseteq openPaths
           bad == {n \in nodes : IsOpen(n) /\ ~Shows(n)}
<1>1. \A n \in nodes : found[n] \in Outcomes(ids) /\ found[n] = FoundAt(id, found, n)
  BY AncestorsAreFound
<1> HIDE DEF found
<1>2. ASSUME NEW n \in bad PROVE \E c \in n.children : c \in bad
  <2> DEFINE below == Tree!Among(n.children, found)
  <2>1. n \in nodes /\ n.children \subseteq nodes /\ IsOpen(n) /\ ~Shows(n)
    BY ChildrenAreNodes
  <2>2. under[n] = ShownUnder(openPaths, under, n)
    OBVIOUS
  <2>3. n.componentId # id
    BY <2>1, <2>2 DEF ShownUnder
  <2>4. found[n] = IF below.isDefined THEN Tree!Found(Tree!Above(n, below.paths))
                   ELSE Tree!Undefined
    BY <1>1, <2>1, <2>3 DEF FoundAt
  <2>5. below.isDefined /\ found[n] = Tree!Found(Tree!Above(n, below.paths))
    <3>1. ~Tree!Undefined.isDefined
      BY DEF Tree!Undefined
    <3> HIDE DEF below
    <3> QED
      BY <2>1, <2>4, <3>1
  <2>6. PICK c \in n.children : found[c].isDefined /\ below = found[c]
    <3>1. \A c \in n.children : found[c] \in Outcomes(ids)
      BY <1>1, <2>1
    <3> QED
      BY <2>5, <3>1, AmongChildren
  <2>7. found[n].paths = {n.path} \cup found[c].paths
    <3> HIDE DEF below
    <3> QED
      BY <2>5, <2>6 DEF Tree!Found, Tree!Above
  <2>8. IsOpen(c) /\ n.path \in openPaths
    BY <2>1, <2>6, <2>7
  <2>9. under[c] \subseteq under[n]
    BY <2>2, <2>8 DEF ShownUnder
  <2>10. ~Shows(c)
    BY <2>1, <2>9
  <2> QED
    BY <2>1, <2>8, <2>10
<1>3. bad = {}
  <2>1. bad \in SUBSET Tree!Nodes(ids)
    OBVIOUS
  <2> HIDE DEF bad
  <2> QED
    BY <1>2, <2>1, NoneFails
<1> QED
  BY <1>3 DEF found

(* Merging follows a chain to the component, so each directory on the way  *)
(* finds it.                                                               *)
LEMMA ComponentsAreFound ==
  ASSUME NEW ids, ArePaths(ids), NEW id \in ids, NEW start \in Tree!Directories(ids),
         Tree!Paths!IsPrefix(start, id)
  PROVE  Tree!findAncestors(ids, id)[Tree!finalize(ids)[start]].isDefined
<1> DEFINE node == Tree!finalize(ids)
           found == Tree!findAncestors(ids, id)
           OnTheWay(e) == e \in Tree!Directories(ids) /\ Tree!Paths!IsPrefix(e, id)
           bad == {n \in Tree!Nodes(ids) :
                     /\ ~found[n].isDefined
                     /\ \E e \in Tree!Directories(ids) : OnTheWay(e) /\ n = node[e]}
<1>1. \A n \in Tree!Nodes(ids) : found[n] \in Outcomes(ids) /\ found[n] = FoundAt(id, found, n)
  BY AncestorsAreFound
<1> HIDE DEF found
<1>2. ASSUME NEW n \in bad PROVE \E c \in n.children : c \in bad
  <2>1. PICK e \in Tree!Directories(ids) : OnTheWay(e) /\ n = node[e]
    OBVIOUS
  <2> DEFINE path == Tree!compact(ids, e)
             below == Tree!Among(n.children, found)
  <2>2. /\ n.path = path /\ n.componentId = IF path \in ids THEN path ELSE <<>>
        /\ n.children = {node[child] : child \in Tree!Entries(ids, path)}
    BY <2>1, NodesAre
  <2>3. n \in Tree!Nodes(ids) /\ n.children \subseteq Tree!Nodes(ids) /\ ~found[n].isDefined
    BY ChildrenAreNodes
  <2>4. n.componentId # id /\ ~below.isDefined
    <3>1. found[n] = FoundAt(id, found, n)
      BY <1>1, <2>3
    <3>2. \A paths : Tree!Found(paths).isDefined
      BY DEF Tree!Found
    <3> QED
      BY <2>3, <3>1, <3>2 DEF FoundAt
  <2>5. \A c \in n.children : ~found[c].isDefined
    <3>1. \A c \in n.children : found[c] \in Outcomes(ids)
      BY <1>1, <2>3
    <3>2. (\E c \in n.children : found[c].isDefined) => below.isDefined
      BY <3>1, AmongChildren
    <3> QED
      BY <2>4, <3>2
  <2>6. path \in Tree!Directories(ids) /\ Tree!Paths!IsPrefix(path, id)
    BY <2>1, ChainsEnd, ChainsLeadToComponents
  <2>7. path \in Path /\ id \in Tree!Directories(ids)
    BY <2>6, DirectoriesAre
  <2>8. path # id
    BY <2>2, <2>4
  <2> DEFINE entry == SubSeq(id, 1, Len(path) + 1)
  <2> HIDE DEF path
  <2>9. entry \in Tree!Entries(ids, path) /\ Tree!Paths!IsPrefix(entry, id)
    BY <2>6, <2>7, <2>8, EntryOnTheWay
  <2> HIDE DEF entry, below
  <2>10. OnTheWay(entry)
    BY <2>9, EntriesAre
  <2>11. node[entry] \in n.children
    BY <2>2, <2>9
  <2> HIDE DEF node
  <2> QED
    BY <2>3, <2>5, <2>10, <2>11
<1>3. bad = {}
  <2>1. bad \in SUBSET Tree!Nodes(ids)
    OBVIOUS
  <2> HIDE DEF bad
  <2> QED
    BY <1>2, <2>1, NoneFails
<1>4. node[start] \in Tree!Nodes(ids)
  BY DEF Tree!Nodes
<1> HIDE DEF node
<1> QED
  BY <1>3, <1>4 DEF found, node

(* However much of it was open, opening the way to a component shows it.   *)
LEMMA SelectionIsShown ==
  ASSUME NEW ids, ArePaths(ids), NEW id \in ids, NEW open
  PROVE  \E n \in Tree!shown(ids, Tree!revealed(open, ids, id)) : n.componentId = id
<1> DEFINE node == Tree!finalize(ids)
           roots == Tree!buildComponentTree(ids)
           found == Tree!findAncestors(ids, id)
           openPaths == Tree!revealed(open, ids, id)
           entry == SubSeq(id, 1, Len(<<>>) + 1)
<1>1. id \in Tree!Directories(ids) /\ id \in Path /\ id # <<>> /\ <<>> \in Path
  BY DirectoriesAre, EmptySeq DEF ArePaths, Path
<1>2. entry \in Tree!Entries(ids, <<>>) /\ Tree!Paths!IsPrefix(entry, id)
  BY <1>1, PrefixOfItself, EntryOnTheWay
<1> HIDE DEF entry
<1>3. entry \in Tree!Directories(ids)
  BY <1>2, EntriesAre
<1>4. found[node[entry]].isDefined
  BY <1>2, <1>3, ComponentsAreFound
<1>5. node[entry] \in roots /\ roots \subseteq Tree!Nodes(ids)
  BY <1>2, EntriesAre DEF Tree!buildComponentTree, Tree!Nodes
<1>6. \A n \in roots : found[n] \in Outcomes(ids)
  BY <1>5, AncestorsAreFound
<1>7. openPaths = open \cup Tree!Among(roots, found).paths
  BY <1>1 DEF Tree!revealed, Tree!ancestorPaths
<1> HIDE DEF node, roots, found, openPaths
<1>8. PICK root \in roots : found[root].isDefined /\ Tree!Among(roots, found) = found[root]
  BY <1>4, <1>5, <1>6, AmongChildren
<1>9. PICK under : /\ \A n \in Tree!Nodes(ids) : under[n] = ShownUnder(openPaths, under, n)
                   /\ Tree!shown(ids, openPaths) = UNION {under[r] : r \in roots}
  BY ScreenIsComputed DEF roots
<1>10. found[root].paths \subseteq openPaths /\ root \in Tree!Nodes(ids)
  BY <1>5, <1>7, <1>8
<1>11. \E m \in under[root] : m.componentId = id
  BY <1>8, <1>9, <1>10, WaysLead DEF found
<1>12. under[root] \subseteq Tree!shown(ids, openPaths)
  BY <1>8, <1>9
<1> QED
  BY <1>11, <1>12 DEF openPaths

(* What is on screen arrived there entry by entry. *)
LEMMA ScreenHasArrived ==
  ASSUME NEW ids, ArePaths(ids), NEW openPaths, NEW n \in Tree!shown(ids, openPaths)
  PROVE  \E e \in Tree!Directories(ids) : Arrives(ids, e) /\ n = Tree!finalize(ids)[e]
<1> DEFINE node == Tree!finalize(ids)
           roots == Tree!buildComponentTree(ids)
           Arrived(m) == \E e \in Tree!Directories(ids) : Arrives(ids, e) /\ m = node[e]
<1>1. PICK under : /\ \A m \in Tree!Nodes(ids) : under[m] = ShownUnder(openPaths, under, m)
                   /\ Tree!shown(ids, openPaths) = UNION {under[r] : r \in roots}
  BY ScreenIsComputed
<1> DEFINE bad == {m \in Tree!Nodes(ids) : Arrived(m) /\ \E k \in under[m] : ~Arrived(k)}
<1>2. ASSUME NEW m \in bad PROVE \E c \in m.children : c \in bad
  <2>1. PICK k \in under[m] : ~Arrived(k)
    OBVIOUS
  <2>2. PICK e \in Tree!Directories(ids) : Arrives(ids, e) /\ m = node[e]
    OBVIOUS
  <2>3. Arrived(m) /\ m \in Tree!Nodes(ids) /\ m.children \subseteq Tree!Nodes(ids)
    BY ChildrenAreNodes
  <2>4. PICK c \in m.children : k \in under[c]
    <3>1. under[m] = ShownUnder(openPaths, under, m) /\ k # m
      BY <1>1, <2>1, <2>3
    <3> HIDE DEF Arrived
    <3> QED
      BY <2>1, <3>1 DEF ShownUnder
  <2>5. m.children = {node[child] : child \in Tree!Entries(ids, Tree!compact(ids, e))}
    BY <2>2, NodesAre
  <2>6. Arrived(c)
    BY <2>5, ChildrenAreLonger
  <2> HIDE DEF Arrived
  <2> QED
    BY <2>1, <2>3, <2>4, <2>6
<1>3. bad = {}
  <2>1. bad \in SUBSET Tree!Nodes(ids)
    OBVIOUS
  <2> HIDE DEF bad
  <2> QED
    BY <1>2, <2>1, NoneFails
<1>4. PICK root \in roots : n \in under[root]
  BY <1>1
<1>5. root \in Tree!Nodes(ids) /\ Arrived(root)
  BY EntriesAre DEF Tree!buildComponentTree, Tree!Nodes, Arrives
<1> QED
  BY <1>3, <1>4, <1>5

(* A node that is no component has several children. *)
LEMMA NodesDoNotRelay ==
  ASSUME NEW ids, ArePaths(ids), NEW e \in Tree!Directories(ids),
         Tree!finalize(ids)[e].componentId = <<>>
  PROVE  Cardinality(Tree!finalize(ids)[e].children) > 1
<1> DEFINE node == Tree!finalize(ids)
           path == Tree!compact(ids, e)
           entries == Tree!Entries(ids, path)
           children == node[e].children
           f == [c \in entries |-> node[c]]
<1>1. /\ node[e].componentId = IF path \in ids THEN path ELSE <<>>
      /\ children = {node[child] : child \in entries}
  BY NodesAre
<1>2. path \in Tree!Directories(ids) /\ ~Tree!Relays(ids, path)
  BY ChainsEnd
<1>3. path \in Path /\ path # <<>> /\ \E id \in ids : Tree!Paths!IsPrefix(path, id)
  BY <1>2, DirectoriesAre
<1>4. path \notin ids
  BY <1>1, <1>3
<1>5. Cardinality(entries) # 1
  BY <1>2, <1>4 DEF Tree!Relays, Tree!Cardinality, Cardinality
<1>6. entries # {}
  <2>1. PICK id \in ids : Tree!Paths!IsPrefix(path, id)
    BY <1>3
  <2>2. id \in Tree!Directories(ids) /\ path # id
    BY <1>4, DirectoriesAre
  <2> HIDE DEF path
  <2> QED
    BY <1>3, <2>1, <2>2, EntryOnTheWay
<1>7. IsFiniteSet(entries)
  BY EntriesAre
<1>8. Cardinality(entries) \in Nat /\ Cardinality(entries) # 0
  <2> HIDE DEF entries
  <2> QED
    BY <1>6, <1>7, FS_CardinalityType, FS_EmptySet
<1>9. ASSUME NEW c \in entries, NEW d \in entries, node[c] = node[d] PROVE c = d
  <2>1. c \in Tree!Directories(ids) /\ d \in Tree!Directories(ids) /\ Len(c) = Len(d)
    BY EntriesAre
  <2>2. Tree!compact(ids, c) = Tree!compact(ids, d)
    <3>1. node[c].path = Tree!compact(ids, c) /\ node[d].path = Tree!compact(ids, d)
      BY <2>1, NodesAre
    <3> QED
      BY <1>9, <3>1
  <2>3. Arrives(ids, c) /\ Arrives(ids, d)
    BY <1>2 DEF Arrives
  <2>4. Len(c) <= Len(d)
    <3>1. Len(c) \in Nat
      BY <2>1, DirectoriesAre
    <3> QED
      BY <2>1, <3>1
  <2> QED
    BY <2>2, <2>3, <2>4, ChainsAreApart
<1>10. Cardinality(children) = Cardinality(entries)
  <2>1. f \in [entries -> children] /\ \A y \in children : \E x \in entries : f[x] = y
    BY <1>1
  <2>2. \A x, y \in entries : f[x] = f[y] => x = y
    BY <1>9
  <2> HIDE DEF f, entries, children
  <2> QED
    BY <1>7, <2>1, <2>2, SameSize
<1> HIDE DEF children, entries
<1> QED
  BY <1>5, <1>8, <1>10 DEF children

(* Labels continue where the parent ends. *)
LEMMA LabelsSpell ==
  ASSUME NEW s \in Path, NEW t \in Path, Tree!Paths!IsPrefix(s, t), Len(s) < Len(t)
  PROVE  t = s \o SubSeq(t, Len(s) + 1, Len(t))
<1> DEFINE m == Len(s)
           n == Len(t)
           rest == SubSeq(t, m + 1, n)
<1>1. m \in Nat /\ n \in Nat /\ m < n /\ \A i \in 1 .. n : t[i] \in STRING
  BY PathHasLength
<1>2. \A i \in 1 .. m : s[i] = t[i]
  BY PrefixAgrees
<1>3. m + 1 \in Int /\ n \in Int /\ m + 1 <= n /\ \A i \in m + 1 .. n : i \in 1 .. n
  BY <1>1
<1> HIDE DEF m, n
<1>4. /\ rest \in Seq(STRING) /\ Len(rest) = n - (m + 1) + 1
      /\ \A i \in 1 .. n - (m + 1) + 1 : rest[i] = t[m + 1 + i - 1]
  BY <1>1, <1>3, SubSeqProperties
<1> HIDE DEF rest
<1>5. Len(rest) = n - m /\ \A i \in 1 .. n - m : rest[i] = t[m + i]
  <2>1. n - (m + 1) + 1 = n - m /\ \A i \in 1 .. n - m : m + 1 + i - 1 = m + i
    BY <1>1
  <2> QED
    BY <1>4, <2>1
<1>6. /\ s \o rest \in Seq(STRING) /\ Len(s \o rest) = m + (n - m)
      /\ \A i \in 1 .. m + (n - m) : (s \o rest)[i] = IF i <= m THEN s[i] ELSE rest[i - m]
  <2>1. s \in Seq(STRING)
    BY DEF Path
  <2>2. /\ s \o rest \in Seq(STRING) /\ Len(s \o rest) = Len(s) + Len(rest)
        /\ \A i \in 1 .. Len(s) + Len(rest) :
             (s \o rest)[i] = IF i <= Len(s) THEN s[i] ELSE rest[i - Len(s)]
    BY <1>4, <2>1, ConcatProperties
  <2>3. Len(s) + Len(rest) = m + (n - m) /\ Len(s) = m
    BY <1>5 DEF m
  <2> QED
    BY <2>2, <2>3
<1>7. m + (n - m) = n
  BY <1>1
<1>8. ASSUME NEW i \in 1 .. n PROVE (s \o rest)[i] = t[i]
  <2>1. CASE i <= m
    BY <1>1, <1>2, <1>6, <1>7, <2>1
  <2>2. CASE ~(i <= m)
    <3>1. i - m \in 1 .. n - m /\ m + (i - m) = i
      BY <1>1, <2>2
    <3> QED
      BY <1>5, <1>6, <1>7, <2>2, <3>1
  <2> QED
    BY <2>1, <2>2
<1>9. s \o rest = t
  BY <1>6, <1>7, <1>8, SeqEqual DEF n, Path
<1> QED
  BY <1>9 DEF rest, m, n

(* However much of the tree was open, and however directories are merged:  *)
(* a selected component is on screen, once, under nodes whose labels spell *)
(* its path, and no node of the tree only relays to another.               *)
THEOREM SelectionsAreRevealed == Spec => []TreeReveals
<1>1. CountedInv => TreeReveals
  <2> SUFFICES ASSUME CountedInv PROVE TreeReveals
    OBVIOUS
  <2> DEFINE ids == Known(collected)
             node == Tree!finalize(ids)
             everything == Tree!shown(ids, Tree!Directories(ids))
             branches == {n.path : n \in {m \in everything : m.children # {}}}
  <2>1. ArePaths(ids)
    BY PathAssumption, ComponentAssumption DEF CountedInv, IsCounted, ArePaths, Path
  <2> HIDE DEF ids
  <2>2. \A id \in ids, open \in SUBSET branches :
          \E n \in Tree!shown(ids, Tree!revealed(open, ids, id)) : n.componentId = id
    BY <2>1, SelectionIsShown
  <2>3. ASSUME NEW n \in everything
        PROVE  \E e \in Tree!Directories(ids) :
                 /\ Arrives(ids, e) /\ n = node[e] /\ n.path = Tree!compact(ids, e)
                 /\ Len(e) \in Nat
                 /\ n.children =
                      {node[child] : child \in Tree!Entries(ids, Tree!compact(ids, e))}
    <3>1. PICK e \in Tree!Directories(ids) : Arrives(ids, e) /\ n = node[e]
      BY <2>1, ScreenHasArrived
    <3>2. Len(e) \in Nat
      BY <2>1, DirectoriesAre
    <3> QED
      BY <2>1, <3>1, <3>2, NodesAre
  <2>4. ASSUME NEW m \in everything, NEW n \in everything, m.path = n.path PROVE m = n
    <3>1. PICK d \in Tree!Directories(ids) :
            /\ Arrives(ids, d) /\ m = node[d] /\ m.path = Tree!compact(ids, d) /\ Len(d) \in Nat
      BY <2>3
    <3>2. PICK e \in Tree!Directories(ids) :
            /\ Arrives(ids, e) /\ n = node[e] /\ n.path = Tree!compact(ids, e) /\ Len(e) \in Nat
      BY <2>3
    <3>3. Len(d) <= Len(e) \/ Len(e) <= Len(d)
      BY <3>1, <3>2
    <3>4. d = e
      BY <2>1, <2>4, <3>1, <3>2, <3>3, ChainsAreApart
    <3> QED
      BY <3>1, <3>2, <3>4
  <2>5. ASSUME NEW root \in Tree!buildComponentTree(ids) PROVE root.label = root.path
    <3>1. PICK e \in Tree!Entries(ids, <<>>) : root = node[e]
      BY DEF Tree!buildComponentTree
    <3> DEFINE path == Tree!compact(ids, e)
    <3>2. e \in Tree!Directories(ids) /\ Len(e) = Len(<<>>) + 1
      BY <2>1, EntriesAre
    <3>3. root.label = SubSeq(path, Len(e), Len(path)) /\ root.path = path
      BY <2>1, <3>1, <3>2, NodesAre
    <3>4. path \in Path
      BY <2>1, <3>2, ChainsEnd, DirectoriesAre
    <3>5. Len(e) = 1
      BY <3>2, EmptySeq
    <3> HIDE DEF path
    <3>6. SubSeq(path, 1, Len(path)) = path
      BY <3>4, SubSeqFull DEF Path
    <3> QED
      BY <3>3, <3>5, <3>6
  <2>6. ASSUME NEW n \in everything, NEW c \in n.children PROVE c.path = n.path \o c.label
    <3>1. PICK e \in Tree!Directories(ids) :
            /\ n.path = Tree!compact(ids, e)
            /\ n.children = {node[child] : child \in Tree!Entries(ids, Tree!compact(ids, e))}
      BY <2>3
    <3> DEFINE path == Tree!compact(ids, e)
    <3>2. PICK child \in Tree!Entries(ids, path) : c = node[child]
      BY <3>1
    <3> DEFINE next == Tree!compact(ids, child)
    <3>3. /\ child \in Tree!Directories(ids) /\ Len(child) = Len(path) + 1
          /\ Tree!Paths!IsPrefix(path, child)
      BY <2>1, EntriesAre
    <3>4. c.path = next /\ c.label = SubSeq(next, Len(child), Len(next))
      BY <2>1, <3>2, <3>3, NodesAre
    <3>5. path \in Tree!Directories(ids) /\ next \in Tree!Directories(ids)
          /\ Tree!Paths!IsPrefix(child, next)
      BY <2>1, <3>3, ChainsEnd
    <3>6. path \in Path /\ next \in Path /\ child \in Path
      BY <2>1, <3>3, <3>5, DirectoriesAre
    <3>7. Len(path) < Len(next)
      BY <2>1, ChildrenAreLonger
    <3> HIDE DEF path, next
    <3>8. Tree!Paths!IsPrefix(path, next)
      BY <3>3, <3>5, <3>6, PrefixesAreOrdered
    <3>9. next = path \o SubSeq(next, Len(path) + 1, Len(next))
      BY <3>6, <3>7, <3>8, LabelsSpell
    <3> QED
      BY <3>1, <3>3, <3>4, <3>9 DEF path
  <2>7. ASSUME NEW n \in everything, n.componentId = NoComponent PROVE Cardinality(n.children) > 1
    <3>1. PICK e \in Tree!Directories(ids) : n = node[e]
      BY <2>3
    <3>2. n.componentId = <<>>
      BY <2>7, PathAssumption
    <3> QED
      BY <2>1, <3>1, <3>2, NodesDoNotRelay
  <2> HIDE DEF everything, branches
  <2>8. /\ \A m, n \in everything : m.path = n.path => m = n
        /\ \A root \in Tree!buildComponentTree(ids) : root.label = root.path
        /\ \A n \in everything : \A c \in n.children : c.path = n.path \o c.label
        /\ \A n \in everything : n.componentId = NoComponent => Cardinality(n.children) > 1
    BY <2>4, <2>5, <2>6, <2>7
  <2> QED
    BY <2>2, <2>8 DEF TreeReveals, ids, everything, branches
<1> QED
  BY <1>1, CountedInvInit, CountedInvNext, PTL DEF Spec

=============================================================================
