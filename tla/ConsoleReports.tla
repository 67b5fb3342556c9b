---------------------------- MODULE ConsoleReports ----------------------------
(***************************************************************************)
(* The pages of the console over the graphs that the server can compute:   *)
(* ComponentGraph collects and judges a repository, GraphService sends the *)
(* result (pkg/plugin/architecture/protobuf.go), and the pages derive what *)
(* they show from that message alone (Balance, Strategy, GraphMap and      *)
(* ComponentTree).  Server and console decide several things twice, each   *)
(* from its own code; the invariants say that they agree.                  *)
(***************************************************************************)
EXTENDS ComponentGraph, Orders, Functions

CONSTANTS
  Names,            \* names of components
  Precedes(_, _),   \* localeCompare, as a strict order of identifiers
  Misrounded        \* where the double |A + I - 1| is not the one closest to its value:
                    \* abstractness, instability, and units in the last place

RuleIdentifiers ==
  {"dependency-cycle", "stable-component-low-abstraction", "stable-dependency-principle",
   "production-imports-development", "library-imports-feature",
   "shared-component-imports-application", "cross-application-module-import",
   "configured-dependency"}

Messages ==
  INSTANCE GraphMessages
    WITH Paths <- Components, NoPath <- NoComponent, Rules <- RuleIdentifiers
Weighed == INSTANCE Balance
Mined == INSTANCE Strategy
Mapped == INSTANCE GraphMap
Tree == INSTANCE ComponentTree

(* An identifier is the segments of a path. *)
ASSUME PathAssumption == NoComponent = <<>> /\ Components \subseteq Seq(STRING)

Alphabetical(paths) == {p \in paths \X paths : Precedes(p[1], p[2])}

(* A name is ordered as a path of one segment. *)
ASSUME OrderAssumption ==
  \A paths \in {Components, {Mined!GroupOf(c) : c \in Components},
                {<<name>> : name \in Names}, {<<role>> : role \in Roles}} :
    IsStrictOrder(paths, Alphabetical(paths))

(* Whatever template matches a path of one segment, it names the component *)
(* after that segment.                                                     *)
ASSUME NamesAssumption ==
  /\ \A d \in Descriptors : {d.name, d.application} \subseteq Names
  /\ \A r \in Repositories : \A i \in 1 .. Len(r.files) : \A c \in Components :
       Len(c) = 1 => c = <<r.files[i].describe[c].name>>

-----------------------------------------------------------------------------
(* The message *)

SameQuotient(p, q) == p[1] * q[2] = q[1] * p[2]

Exact(abstractness, instability) ==
  LET whole == abstractness[2] * instability[2]
      sum == abstractness[1] * instability[2] + instability[1] * abstractness[2] IN
    <<IF sum < whole THEN whole - sum ELSE sum - whole, whole>>

(* The sum of two doubles from 0 to 1, less 1, is rounded to one from -1 to*)
(* 1.                                                                      *)
ASSUME RoundingAssumption ==
  \A m \in Misrounded :
    LET exact == Exact(m.abstractness, m.instability) IN
      /\ {m.abstractness, m.instability} \subseteq Messages!Quotient /\ m.ulps \in Int
      /\ exact[1] = 0 => m.ulps >= 0
      /\ exact[1] = exact[2] => m.ulps <= 0

Rounding(abstractness, instability) ==
  LET matching == {m \in Misrounded : /\ SameQuotient(m.abstractness, abstractness)
                                      /\ SameQuotient(m.instability, instability)} IN
    IF matching = {} THEN 0 ELSE (CHOOSE m \in matching : TRUE).ulps

Distance(abstractness, instability) ==
  [exact |-> Exact(abstractness, instability), ulps |-> Rounding(abstractness, instability)]

FilesOf(c, kinds) ==
  Cardinality({i \in 1 .. read : repository.files[i].component = c
                                 /\ repository.files[i].test \in kinds})

Outgoing(c, kinds) ==
  Cardinality({e \in Relationships(collected) : e[1] = c /\ IsTestOnly(collected, e) \in kinds})

Incoming(c, kinds) ==
  Cardinality({e \in Relationships(collected) : e[2] = c /\ IsTestOnly(collected, e) \in kinds})

ComponentMessage(c) ==
  LET dependencies == ProductionDependencies(collected)
      instability == Instability(collected, c)
      abstractness == Abstractness(collected, c) IN
    [id |-> c,
     name |-> collected.describe[c].name,
     role |-> collected.describe[c].role,
     application |-> collected.describe[c].application,
     sourceFiles |-> FilesOf(c, BOOLEAN),
     productionFiles |-> FilesOf(c, {FALSE}),
     testFiles |-> FilesOf(c, {TRUE}),
     directDependencies |-> Outgoing(c, BOOLEAN),
     productionDependencies |-> Outgoing(c, {FALSE}),
     testOnlyDependencies |-> Outgoing(c, {TRUE}),
     directImportingComponents |-> Incoming(c, BOOLEAN),
     productionImportingComponents |-> Incoming(c, {FALSE}),
     testOnlyImportingComponents |-> Incoming(c, {TRUE}),
     transitiveDependencies |-> Cardinality(Reachable(c, dependencies)),
     transitiveImportingComponents |-> Cardinality(Reachable(c, Reversed(dependencies))),
     usingApplications |-> graph.applications[c],
     afferentCoupling |-> Afferent(collected, c),
     efferentCoupling |-> Efferent(collected, c),
     instability |-> instability,
     abstractTypes |-> collected.types[c].abstract,
     concreteTypes |-> collected.types[c].concrete,
     abstractness |-> abstractness,
     mainSequenceDistance |-> Distance(abstractness, instability),
     isStableWithLowAbstraction |-> IsStableWithLowAbstraction(collected, c),
     inCycle |-> c \in UNION graph.cycles]

RelationshipMessage(e) ==
  [source |-> e[1],
   target |-> e[2],
   productionReferencingFiles |-> Cardinality(collected.relationships[e].production),
   testReferencingFiles |-> Cardinality(collected.relationships[e].test),
   testOnly |-> IsTestOnly(collected, e),
   violatesStableDependencyPrinciple |-> StablePrinciple \in graph.violations[e],
   ruleViolations |-> graph.violations[e]]

CountMutant(messages, field, value) == Cardinality(messages)

Count(messages, field, value) == Cardinality({m \in messages : m[field] = value})

SummaryMessage(components, relationships) ==
  [components |-> Cardinality(components),
   relationships |-> Cardinality(relationships),
   productionRelationships |-> Count(relationships, "testOnly", FALSE),
   testOnlyRelationships |-> Count(relationships, "testOnly", TRUE),
   applications |-> Count(components, "role", "application"),
   applicationModules |-> Count(components, "role", "application-module"),
   sharedModules |-> Count(components, "role", "shared-module"),
   libraries |-> Count(components, "role", "library"),
   infrastructure |-> Count(components, "role", "infrastructure"),
   developmentTools |-> Count(components, "role", "development"),
   cycles |-> Cardinality(graph.cycles),
   relationshipRuleViolations |-> graph.summary.relationshipRuleViolations,
   stableDependencyPrincipleViolations |->
     Count(relationships, "violatesStableDependencyPrinciple", TRUE),
   stableLowAbstractionComponents |-> Count(components, "isStableWithLowAbstraction", TRUE),
   findings |-> graph.summary.findings,
   errors |-> graph.summary.errors,
   warnings |-> graph.summary.warnings]

(* What the console holds once it received the graph. *)
Received ==
  LET components == {ComponentMessage(c) : c \in Known(collected)}
      relationships == {RelationshipMessage(e) : e \in Relationships(collected)} IN
    [components |-> components,
     relationships |-> relationships,
     cycles |-> {[members |-> cycle] : cycle \in graph.cycles},
     findings |-> graph.findings,
     summary |-> SummaryMessage(components, relationships)]

-----------------------------------------------------------------------------
(* The message has the types that the console was generated for. *)
ReceivedOK == IsBuilt => Received \in Messages!Graph

(* What the balance pages call the zone of pain is what the server reports *)
(* as stable with low abstraction, although each compares the metrics with *)
(* limits of its own.                                                      *)
PainIsFound ==
  phase = "built" =>
    LET received == Received IN
      \A c \in received.components :
        (Weighed!readMetrics(c) = "pain") <=>
          \E f \in received.findings :
            f.rule = "stable-component-low-abstraction" /\ c.id \in f.components

SixTenths == [exact |-> <<6, 10>>, ulps |-> 0]

SameDouble(a, b) == Weighed!AtMostRounded(a, b) /\ Weighed!AtMostRounded(b, a)

(* The distribution holds each measured component once, in a green bucket  *)
(* exactly if it is within the balanced distance; only what lies at the    *)
(* double 0.6 falls between two buckets, whose bounds are rounded apart.   *)
BucketedOnce ==
  phase = "built" =>
    LET measured == Weighed!In(Weighed!Measured, Received.components)
        lost == {c \in measured : SameDouble(c.mainSequenceDistance, SixTenths)}
        buckets == Weighed!bucketDistances(Received.components)
        columns == Weighed!createBalanceDistributionChart(buckets) IN
      /\ Range(buckets) \subseteq Weighed!DistanceBucket
      /\ Total([c \in columns |-> 1 .. c.length], columns) = Cardinality(measured \ lost)
      /\ \A c \in measured \ lost : \E column \in columns :
           LET distance == c.mainSequenceDistance IN
             /\ Weighed!InBucket(distance, column.category[1])
             /\ column.green <=> Weighed!AtMostRounded(distance, Weighed!BALANCED_DISTANCE)

Columns == Mapped!TextColumns \cup Mapped!NumericColumns

(* The sorts of the table after one or two clicks on a column. *)
Sorts ==
  {Mapped!toggleSort(Mapped!DEFAULT_COMPONENT_SORT, column) : column \in Columns}
    \cup {Mapped!toggleSort(Mapped!toggleSort(Mapped!DEFAULT_COMPONENT_SORT, column), column) :
             column \in Columns}

(* What the console sorts, it sorts totally, so that two readings of one   *)
(* graph agree: the table by every column, the ranking and the map.        *)
OrdersAreTotal ==
  phase = "built" =>
    LET components == Received.components IN
      /\ IsStrictOrder(components, Weighed!ByRisk(components))
      /\ IsStrictOrder(components, Mapped!ByCoupling(components))
      /\ \A sort \in Sorts : IsStrictOrder(components, Mapped!InOrder(components, sort))

(* An edge outside of cycles goes strictly down, no layer is higher than it*)
(* must be, and a group is in a cycle if a sentence names it.              *)
IsLayered(report, units) ==
  LET layer(id) == (CHOOSE g \in report.groups : g.id = id).layer IN
    /\ \A e \in report.edges :
         IF e.cyclic THEN layer(e.source) = layer(e.target) ELSE layer(e.source) > layer(e.target)
    /\ \A g \in report.groups :
         /\ g.layer > 0 =>
              \E e \in report.edges :
                e.source \in Mined!UnitOf(units, g.id) /\ layer(e.target) = g.layer - 1
         /\ g.inCycle <=> \E pair \in Mined!cycleSentences(report) : g.id \in pair

(* In the map a healthy edge points down and no two groups overlap; in the *)
(* matrix it lies above the diagonal.                                      *)
IsDrawnInOrder(report) ==
  LET drawn == Mined!createStrategyMap(report)
      node == [id \in {g.id : g \in report.groups} |-> CHOOSE n \in drawn.nodes : n.id = id] IN
    /\ \A m, n \in drawn.nodes :
         m # n => m.y # n.y \/ m.x + Mined!NODE_WIDTH < n.x \/ n.x + Mined!NODE_WIDTH < m.x
    /\ \A link \in drawn.links :
         ~link.dashed => node[link.source].y + Mined!NODE_HEIGHT < node[link.target].y
    /\ \A cell \in Mined!createStrategyMatrix(report) : ~cell.cyclic => cell.column > cell.row

(* Every group is in one layer, and layers follow the dependencies between *)
(* groups, also in the map and in the matrix: only what is in a cycle goes *)
(* against the direction in which the reader is told to look.              *)
LayersAreSound ==
  phase = "built" =>
    LET received == Received
        report == Mined!buildStrategyReport(received.components, received.relationships)
        units == Mined!stronglyConnected(
                   Mined!Dependencies(Mined!Groups(received.components),
                                      Mined!GroupEdges(received.relationships))) IN
      /\ Mined!IsStrategyReport(report, Mined!Groups(received.components))
      /\ IsLayered(report, units)
      /\ IsDrawnInOrder(report)

(* A click on a cell of the matrix lists as many dependencies as the cell  *)
(* counts, and one on a group of the map those of all cells of its row.    *)
CellsAreExplained ==
  phase = "built" =>
    LET received == Received
        report == Mined!buildStrategyReport(received.components, received.relationships)
        cells == Mined!createStrategyMatrix(report)
        weights == [c \in cells |-> 1 .. c.weight]
        listed(focus) ==
          Cardinality(Mined!focusedRelationships(received.relationships, focus)) IN
      /\ \A cell \in cells : listed(cell.focuses) = cell.weight
      /\ \A node \in Mined!createStrategyMap(report).nodes :
           listed(node.focuses) =
             Total(weights, {c \in cells : c.focuses.source = node.id})

Least(m, n) == IF m < n THEN m ELSE n

(* Whatever part of the graph the map has room for, a link joins two drawn *)
(* components, and the drawer of a component explains its couplings: each  *)
(* importer and dependency that counts is listed, and known.               *)
MapIsClosed ==
  phase = "built" =>
    LET components == Received.components
        relationships == Received.relationships IN
      /\ \A limit \in {1, 2, Mapped!GRAPH_LAYOUT_LIMIT} :
           LET drawn == Mapped!createDependencyMapDiagram(
                          Mapped!buildGraphLayout(components, relationships, limit), NoComponent)
               ids == {n.id : n \in drawn.nodes} IN
             /\ Cardinality(ids) = Least(limit, Cardinality(components))
             /\ \A link \in drawn.links : {link.source, link.target} \subseteq ids
      /\ \A c \in components :
           LET importers == Mapped!importers(components, relationships, c.id)
               dependencies == Mapped!dependencies(components, relationships, c.id) IN
             /\ Cardinality({n \in importers : ~n.testOnly}) = c.afferentCoupling
             /\ Cardinality({n \in dependencies : ~n.testOnly}) = c.efferentCoupling
             /\ \A n \in importers \cup dependencies : n.known

(* However much of it was open, the tree shows a selected component once,  *)
(* under nodes whose labels spell its path, and no node only relays to     *)
(* another.                                                                *)
TreeReveals ==
  phase = "built" =>
    LET ids == Known(collected)
        everything == Tree!shown(ids, Tree!Directories(ids))
        branches == {n.path : n \in {m \in everything : m.children # {}}} IN
      /\ \A id \in ids, open \in SUBSET branches :
           \E n \in Tree!shown(ids, Tree!revealed(open, ids, id)) : n.componentId = id
      /\ \A m, n \in everything : m.path = n.path => m = n
      /\ \A root \in Tree!buildComponentTree(ids) : root.label = root.path
      /\ \A n \in everything : \A c \in n.children : c.path = n.path \o c.label
      /\ \A n \in everything : n.componentId = NoComponent => Cardinality(n.children) > 1

(* The numbers of the overview, which the server counted, are those of the*)
(* pages that its cards open, also after a policy added findings; and the  *)
(* zones of the balance page hold every component, the ranking those that  *)
(* are out of balance, each with a bar of its own in the chart.            *)
PagesAgree ==
  IsBuilt =>
    LET received == Received
        summary == received.summary
        found(severity) == Cardinality(Mapped!filterFindings(received.findings, severity))
        listed(role) ==
          Cardinality(Mapped!filterComponents(received.components, role, Components))
        zones == Range(Weighed!summarizeZones(received.components))
        counted(named) ==
          Total([z \in zones |-> 1 .. z.count], {z \in zones : z.zone \in named})
        entries == Weighed!rankOffenders(received.components, Weighed!RANKING_LIMIT)
        bars == Weighed!createBalanceRankingChart(entries) IN
      /\ summary.findings = found(Mapped!EVERY_SEVERITY)
      /\ summary.errors = found("error")
      /\ summary.warnings = found("warning")
      /\ summary.components = listed(Mapped!EVERY_ROLE)
      /\ summary.applications = listed("application")
      /\ summary.relationshipRuleViolations =
           Cardinality({f \in received.findings : f.source # NoComponent})
      /\ zones \subseteq Weighed!ZoneSummary
      /\ counted(Weighed!Zones) = summary.components
      /\ counted({"pain"}) = summary.stableLowAbstractionComponents
      /\ \A i \in DOMAIN entries : Weighed!IsBalanceEntry(entries[i])
      /\ Len(entries) = Least(Weighed!RANKING_LIMIT, counted(Weighed!Unbalanced))
      /\ UNION Range(bars) =
           {[length |-> entries[i].dependents, selects |-> entries[i].id] : i \in DOMAIN entries}
      /\ \A category \in DOMAIN bars : Cardinality(bars[category]) = 1

=============================================================================
