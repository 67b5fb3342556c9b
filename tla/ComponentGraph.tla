---------------------------- MODULE ComponentGraph ----------------------------
(***************************************************************************)
(* The component graph of a repository: analyzer.analyze collects one file *)
(* after the other (internal/calculation/component.go), buildGraph derives *)
(* couplings, cycles and findings from what was collected, the rules of    *)
(* internal/architecture/rules.go judge it, and the configured dependency  *)
(* policy (pkg/plugin/architecture/dependencypolicy.go) judges it again.   *)
(*                                                                         *)
(* A file is its component, whether it is a test, the components that it   *)
(* imports, how it describes each component and the types it declares.     *)
(* Classification looks at the path of a file or of an import, so two      *)
(* files may describe one component differently: with the rules            *)
(* internal/platform and internal/{component}, the component               *)
(* internal/platform has the role of the first for the files in that       *)
(* directory and the role of the second for those below it.  The component *)
(* keeps the first description.  Packages, import sites and source         *)
(* diagnostics are left out.  The selectors of a policy rule are the       *)
(* components that they match.  Ratios are pairs of numbers: for counts of *)
(* this size float64 orders them as fractions are ordered.                 *)
(***************************************************************************)
EXTENDS Digraphs, Integers, Sequences

CONSTANTS
  Components,    \* identifiers of components
  NoComponent,
  NoApplication,
  Descriptors,   \* what classification may say of a component
  Repositories,  \* what may be analyzed: files in the order of their paths
  Policies       \* the dependency policies that may be configured

Roles == {"application", "application-module", "shared-module", "library",
          "infrastructure", "development"}

Files == [component : Components, test : BOOLEAN, imports : SUBSET Components,
          describe : [Components -> Descriptors], abstract : Nat, concrete : Nat]

ASSUME ComponentAssumption ==
  /\ NoComponent \notin Components
  /\ \A d \in Descriptors : d.role \in Roles
  /\ \A r \in Repositories :
       /\ r.files \in Seq(Files)
       /\ \A i \in 1 .. Len(r.files) : IsFiniteSet(r.files[i].imports)

VARIABLES
  repository,
  read,        \* how many files have been collected
  collected,   \* the accumulators: components with their descriptions and types,
               \* and relationships
  graph,       \* the result, once it is built
  phase

vars == <<repository, read, collected, graph, phase>>

-----------------------------------------------------------------------------
(* Collection *)

NoTypes == [abstract |-> 0, concrete |-> 0]
NoFiles == [production |-> {}, test |-> {}]
NothingCollected == [describe |-> <<>>, types |-> <<>>, relationships |-> <<>>]

Known(data) == DOMAIN data.types
Relationships(data) == DOMAIN data.relationships

Targets(file) == file.imports \ {file.component}

Mentioned(file) == {file.component} \cup Targets(file)

(* The first description of c stays. *)
DescriptionWith(data, file, c) ==
  IF c \in Known(data) THEN data.describe[c] ELSE file.describe[c]

(* The types of c once file has been read: those of tests do not count. *)
TypesWith(data, file, c) ==
  LET current == IF c \in Known(data) THEN data.types[c] ELSE NoTypes IN
    IF c = file.component /\ ~file.test
      THEN [abstract |-> current.abstract + file.abstract,
            concrete |-> current.concrete + file.concrete]
      ELSE current

FilesWith(data, file, number, edge) ==
  LET current == IF edge \in Relationships(data) THEN data.relationships[edge] ELSE NoFiles IN
    IF edge[1] # file.component \/ edge[2] \notin Targets(file) THEN current
    ELSE IF file.test THEN [current EXCEPT !.test = @ \cup {number}]
    ELSE [current EXCEPT !.production = @ \cup {number}]

(* An imported component is known even if none of its files is read. *)
CollectFile(data, file, number) ==
  [describe |-> [c \in Known(data) \cup Mentioned(file) |-> DescriptionWith(data, file, c)],
   types |-> [c \in Known(data) \cup Mentioned(file) |-> TypesWith(data, file, c)],
   relationships |->
     [edge \in Relationships(data) \cup ({file.component} \X Targets(file)) |->
        FilesWith(data, file, number, edge)]]

-----------------------------------------------------------------------------
(* Couplings and metrics *)

IsTestOnlyMutant(data, edge) == FALSE

IsTestOnly(data, edge) == data.relationships[edge].production = {}

ProductionDependencies(data) ==
  [c \in Known(data) |->
     {d \in Known(data) : <<c, d>> \in Relationships(data) /\ ~IsTestOnly(data, <<c, d>>)}]

Afferent(data, c) == Cardinality(Reversed(ProductionDependencies(data))[c])
Efferent(data, c) == Cardinality(ProductionDependencies(data)[c])

RatioMutant(part, rest) == <<part, part + rest>>

Ratio(part, rest) == IF part + rest = 0 THEN <<0, 1>> ELSE <<part, part + rest>>
Below(a, b) == a[1] * b[2] < b[1] * a[2]

Instability(data, c) == Ratio(Efferent(data, c), Afferent(data, c))
Abstractness(data, c) == Ratio(data.types[c].abstract, data.types[c].concrete)

OneFifth == <<1, 5>>

IsStableWithLowAbstraction(data, c) ==
  /\ Afferent(data, c) > 0
  /\ ~Below(OneFifth, Instability(data, c))
  /\ ~Below(OneFifth, Abstractness(data, c))

(* The applications that c serves: its own and those of its importers. *)
UsingApplications(data, describe, c) ==
  {describe[d].application :
     d \in {c} \cup Reachable(c, Reversed(ProductionDependencies(data)))} \ {NoApplication}

-----------------------------------------------------------------------------
(* Rules *)

FeatureRoles == {"application", "application-module", "shared-module"}

(* The rules that source breaks by importing target in production code. *)
BrokenRules(data, describe, edge) ==
  LET source == describe[edge[1]]
      target == describe[edge[2]] IN
    {rule \in {"stable-dependency-principle"} :
       Below(Instability(data, edge[1]), Instability(data, edge[2]))}
    \cup
    {rule \in {"production-imports-development"} :
       source.role # "development" /\ target.role = "development"}
    \cup
    {rule \in {"library-imports-feature"} :
       source.role = "library" /\ target.role \in FeatureRoles}
    \cup
    {rule \in {"shared-component-imports-application"} :
       /\ source.role \in {"shared-module", "infrastructure"}
       /\ target.role \in {"application", "application-module"}}
    \cup
    {rule \in {"cross-application-module-import"} :
       /\ {source.role, target.role} = {"application-module"}
       /\ source.application # target.application}

IsJudgedMutant(data, edge) == TRUE

(* relationshipFindings skips what only tests import. *)
IsJudged(data, edge) == ~IsTestOnly(data, edge)

RelationshipFinding(rule, severity, edge) ==
  [rule |-> rule, severity |-> severity, source |-> edge[1], target |-> edge[2],
   components |-> {}]

ComponentsFinding(rule, severity, components) ==
  [rule |-> rule, severity |-> severity, source |-> NoComponent, target |-> NoComponent,
   components |-> components]

(* What Registry.Evaluate reports. *)
Findings(data, describe) ==
  {ComponentsFinding("dependency-cycle", "error", cycle) :
     cycle \in Cycles(ProductionDependencies(data))}
  \cup
  {ComponentsFinding("stable-component-low-abstraction", "warning", {c}) :
     c \in {d \in Known(data) : IsStableWithLowAbstraction(data, d)}}
  \cup
  UNION {{RelationshipFinding(rule, "warning", edge) :
            rule \in BrokenRules(data, describe, edge)} :
              edge \in {e \in Relationships(data) : IsJudged(data, e)}}

(* applyArchitectureRules annotates each production relationship with the  *)
(* rules of the findings about it.                                         *)
Violations(data, findings) ==
  [edge \in Relationships(data) |->
     {f.rule : f \in {g \in findings : /\ ~IsTestOnly(data, edge)
                                      /\ <<g.source, g.target>> = edge}}]

Total(values, edges) ==
  Cardinality({pair \in edges \X UNION {values[e] : e \in edges} : pair[2] \in values[pair[1]]})

Summary(violations, findings) ==
  [findings |-> Cardinality(findings),
   errors |-> Cardinality({f \in findings : f.severity = "error"}),
   warnings |-> Cardinality({f \in findings : f.severity = "warning"}),
   relationshipRuleViolations |-> Total(violations, DOMAIN violations)]

Graph(data, describe) ==
  LET findings == Findings(data, describe)
      violations == Violations(data, findings) IN
    [instability |-> [c \in Known(data) |-> Instability(data, c)],
     applications |-> [c \in Known(data) |-> UsingApplications(data, describe, c)],
     cycles |-> Cycles(ProductionDependencies(data)),
     violations |-> violations,
     findings |-> findings,
     summary |-> Summary(violations, findings)]

NoGraph == <<>>

-----------------------------------------------------------------------------
(* The dependency policy *)

IsNoop(policy) ==
  /\ {policy.productionDefault, policy.testDefault} = {"allow"}
  /\ policy.allow \cup policy.deny = {}

(* A rule whose selectors match no component is an error. *)
NamesComponents(rule) ==
  rule.from \cap Known(collected) # {} /\ rule.to \cap Known(collected) # {}

Accepts(policy) ==
  \/ IsNoop(policy)
  \/ \A rule \in policy.allow \cup policy.deny : NamesComponents(rule)

MatchesSome(rules, edge) ==
  LET application(c) == collected.describe[c].application IN
    \E rule \in rules :
      /\ edge[1] \in rule.from
      /\ edge[2] \in rule.to
      /\ rule.sameApplication =>
           application(edge[1]) # NoApplication /\ application(edge[1]) = application(edge[2])

Default(policy, edge) ==
  IF IsTestOnly(collected, edge) THEN policy.testDefault ELSE policy.productionDefault

Refuses(policy, edge) ==
  \/ MatchesSome(policy.deny, edge)
  \/ Default(policy, edge) = "deny" /\ ~MatchesSome(policy.allow, edge)

SummaryAfter(violations, findings) == Summary(violations, findings)

WithPolicy(policy) ==
  LET refused == {e \in Relationships(collected) : ~IsNoop(policy) /\ Refuses(policy, e)}
      violations ==
        [e \in Relationships(collected) |->
           graph.violations[e] \cup {rule \in {"configured-dependency"} : e \in refused}]
      findings ==
        graph.findings \cup
          {RelationshipFinding("configured-dependency", "error", e) : e \in refused} IN
    [graph EXCEPT !.violations = violations, !.findings = findings,
                  !.summary = SummaryAfter(violations, findings)]

-----------------------------------------------------------------------------
Init ==
  /\ repository \in Repositories
  /\ read = 0
  /\ collected = NothingCollected
  /\ graph = NoGraph
  /\ phase = "collecting"

Collect ==
  /\ phase = "collecting"
  /\ read < Len(repository.files)
  /\ read' = read + 1
  /\ collected' = CollectFile(collected, repository.files[read'], read')
  /\ UNCHANGED <<repository, graph, phase>>

BuildGraph ==
  /\ phase = "collecting"
  /\ read = Len(repository.files)
  /\ graph' = Graph(collected, collected.describe)
  /\ phase' = "built"
  /\ UNCHANGED <<repository, read, collected>>

ApplyPolicy(policy) ==
  /\ phase = "built"
  /\ IF Accepts(policy)
       THEN graph' = WithPolicy(policy) /\ phase' = "judged"
       ELSE graph' = NoGraph /\ phase' = "failed"
  /\ UNCHANGED <<repository, read, collected>>

Next == Collect \/ BuildGraph \/ \E policy \in Policies : ApplyPolicy(policy)

Spec == Init /\ [][Next]_vars

-----------------------------------------------------------------------------
IsBuilt == phase \in {"built", "judged"}

(* What the first n files leave behind if the tests among them are not     *)
(* there.                                                                  *)
WithoutTests[n \in 0 .. Len(repository.files)] ==
  IF n = 0 THEN NothingCollected
  ELSE IF repository.files[n].test THEN WithoutTests[n - 1]
  ELSE CollectFile(WithoutTests[n - 1], repository.files[n], n)

Production == WithoutTests[Len(repository.files)]

(* The graph of the repository without its tests, with the descriptions    *)
(* that the components have got.                                           *)
ProductionGraph == Graph(Production, collected.describe)

IsDescribedByTest(c) ==
  \E i \in 1 .. Len(repository.files) :
    LET file == repository.files[i] IN
      file.test /\ c \in Mentioned(file) /\ file.describe[c] = collected.describe[c]

(* Tests change no metric, no cycle and no finding of production code,     *)
(* whatever they import: not even when the same relationship is also one   *)
(* of production code, or when a component is known through tests alone.   *)
(* The exception is how a component is described: a test that comes first  *)
(* in the order of the paths decides the role and the application of the   *)
(* component, hence which rules production code breaks.  Every component   *)
(* that no test describes in its own way keeps the description that        *)
(* production code gives it.                                               *)
TestsChangeNothing ==
  phase = "built" =>
    LET production == ProductionGraph IN
      /\ graph.cycles = production.cycles
      /\ graph.findings = production.findings
      /\ \A c \in DOMAIN production.instability :
           /\ graph.instability[c] = production.instability[c]
           /\ graph.applications[c] = production.applications[c]
           /\ collected.describe[c] = Production.describe[c] \/ IsDescribedByTest(c)
      /\ \A e \in DOMAIN graph.violations :
           graph.violations[e] =
             IF e \in DOMAIN production.violations THEN production.violations[e] ELSE {}

(* A finding about a relationship and the annotation of that relationship  *)
(* never contradict each other, although rules and annotation decide       *)
(* separately which relationships count.                                   *)
FindingsAreAnnotated ==
  IsBuilt =>
    \A e \in DOMAIN graph.violations :
      graph.violations[e] = {f.rule : f \in {g \in graph.findings : <<g.source, g.target>> = e}}

StablePrinciple == "stable-dependency-principle"

=============================================================================
