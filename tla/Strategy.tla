------------------------------- MODULE Strategy -------------------------------
(***************************************************************************)
(* The strategy that the dependencies of a repository follow: the groups of*)
(* components, their layers and their cycles (kernel/graph/strategy-report *)
(* .ts), and what the strategy page draws and lists of them: the map of the*)
(* layers (strategy-map), the matrix of the groups and the observations    *)
(* (pages/strategy).  Sentences and colors are left out; a list whose order*)
(* only sorts what is shown is a set.                                      *)
(***************************************************************************)
EXTENDS Orders, Digraphs

Sets == INSTANCE FiniteSetsExt

CONSTANT Precedes(_, _)   \* localeCompare, as a strict order of identifiers

THIN_EDGE_LIMIT == 2

(* The first two segments of a path. *)
GroupOf(id) == IF Len(id) > 2 THEN SubSeq(id, 1, 2) ELSE id

Groups(components) == {GroupOf(c.id) : c \in components}

CountsMutant(relationship) == GroupOf(relationship.source) # GroupOf(relationship.target)

Counts(relationship) ==
  ~relationship.testOnly /\ GroupOf(relationship.source) # GroupOf(relationship.target)

Behind(relationships, edge) ==
  {r \in relationships : Counts(r) /\ <<GroupOf(r.source), GroupOf(r.target)>> = edge}

GroupEdges(relationships) ==
  {<<GroupOf(r.source), GroupOf(r.target)>> : r \in {s \in relationships : Counts(s)}}

Dependencies(groups, edges) == [group \in groups |-> {e[2] : e \in {d \in edges : d[1] = group}}]

(* The strongly connected components, as sets of groups. *)
stronglyConnected(dependencies) == {CycleOf(group, dependencies) : group \in DOMAIN dependencies}

UnitOf(units, group) == CHOOSE unit \in units : group \in unit

BelowUnit(units, unit, edges) ==
  {UnitOf(units, e[2]) : e \in {d \in edges : d[1] \in unit}} \ {unit}

AboveAllMutant(layers) == IF layers = {} THEN 0 ELSE Sets!Min(layers) + 1

AboveAll(layers) == IF layers = {} THEN 0 ELSE Sets!Max(layers) + 1

(* The layer of each component; a trail of those above it ends a recursion *)
(* that a cycle of components would not.                                   *)
layerComponents(units, edges) ==
  LET resolve[visit \in units \X SUBSET units] ==
        LET unit == visit[1]
            trail == visit[2] IN
          IF unit \in trail THEN 0
          ELSE AboveAll({resolve[<<below, trail \cup {unit}>>] :
                           below \in BelowUnit(units, unit, edges)})
  IN [unit \in units |-> resolve[<<unit, {}>>]]

buildStrategyReport(components, relationships) ==
  LET ids == Groups(components)
      pairs == GroupEdges(relationships)
      units == stronglyConnected(Dependencies(ids, pairs))
      layerOf == layerComponents(units, pairs)
      inCycle(group) == Cardinality(UnitOf(units, group)) > 1
      groups ==
        {[id |-> group,
          components |-> Cardinality({c \in components : GroupOf(c.id) = group}),
          layer |-> layerOf[UnitOf(units, group)],
          inCycle |-> inCycle(group)] : group \in ids}
      edges ==
        {[source |-> edge[1], target |-> edge[2],
          weight |-> Cardinality(Behind(relationships, edge)),
          cyclic |-> edge[2] \in UnitOf(units, edge[1]) /\ inCycle(edge[1])] : edge \in pairs}
  IN [groups |-> groups,
      edges |-> edges,
      layers |-> [layer \in 0 .. Sets!Max({0} \cup {g.layer : g \in groups}) |->
                    {g.id : g \in {h \in groups : h.layer = layer}}]]

StrategyGroup(ids) ==
  [id : ids, components : Nat \ {0}, layer : Nat, inCycle : BOOLEAN]

StrategyEdge(ids) == [source : ids, target : ids, weight : Nat \ {0}, cyclic : BOOLEAN]

(* A report gives each group one row, and places it in one layer.          *)
IsStrategyReport(report, ids) ==
  /\ report.groups \subseteq StrategyGroup(ids)
  /\ report.edges \subseteq StrategyEdge(ids)
  /\ \A id \in ids :
       /\ Cardinality({g \in report.groups : g.id = id}) = 1
       /\ Cardinality({layer \in DOMAIN report.layers : id \in report.layers[layer]}) = 1

-----------------------------------------------------------------------------
(* What the page lists *)

(* One sentence for each pair of groups with a cyclic edge between them. *)
cycleSentences(report) ==
  {{edge.source, edge.target} : edge \in {e \in report.edges : e.cyclic}}

thinEdges(report) ==
  {edge \in report.edges : ~edge.cyclic /\ edge.weight <= THIN_EDGE_LIMIT}

(* The relationships behind a group, or behind a pair of groups. *)
focusedRelationships(relationships, focus) ==
  {r \in relationships :
     /\ ~r.testOnly
     /\ GroupOf(r.source) = focus.source
     /\ GroupOf(r.target) # focus.source
     /\ focus.target \in {<<>>, GroupOf(r.target)}}

-----------------------------------------------------------------------------
(* The matrix: rows from top to bottom and columns from left to right *)

HigherFirst(a, b) == a.layer > b.layer \/ (a.layer = b.layer /\ Precedes(a.id, b.id))

HighestFirst(groups) == {p \in groups \X groups : HigherFirst(p[1], p[2])}

matrixOrder(report) ==
  LET order == Sorted(report.groups, HighestFirst(report.groups)) IN
    [i \in DOMAIN order |-> order[i].id]

(* A click on a cell focuses its pair of groups. *)
createStrategyMatrix(report) ==
  LET order == matrixOrder(report)
      place(group) == CHOOSE i \in DOMAIN order : order[i] = group IN
    {[row |-> place(edge.source), column |-> place(edge.target),
      weight |-> edge.weight, cyclic |-> edge.cyclic,
      focuses |-> [source |-> edge.source, target |-> edge.target]] : edge \in report.edges}

-----------------------------------------------------------------------------
(* The map of the layers *)

NODE_WIDTH == 200
NODE_HEIGHT == 52
COLUMN_GAP == 48
ROW_GAP == 72
CANVAS_MARGIN == 24

RowWidth(length) == length * (NODE_WIDTH + COLUMN_GAP) - COLUMN_GAP

Alphabetical(groups) == {p \in groups \X groups : Precedes(p[1], p[2])}

(* The groups of each row, the highest layer first. *)
Rows(report) ==
  LET top == Sets!Max(DOMAIN report.layers) IN
    [row \in 0 .. top |-> Sorted(report.layers[top - row], Alphabetical(report.layers[top - row]))]

DrawnGroups(report) ==
  LET rows == Rows(report)
      canvasWidth == RowWidth(Sets!Max({1} \cup {Len(rows[r]) : r \in DOMAIN rows})) + 2 * CANVAS_MARGIN
  IN UNION
       {{[id |-> rows[r][column],
          focuses |-> [source |-> rows[r][column], target |-> <<>>],
          x |-> (canvasWidth - RowWidth(Len(rows[r]))) \div 2
                  + (column - 1) * (NODE_WIDTH + COLUMN_GAP),
          y |-> CANVAS_MARGIN + r * (NODE_HEIGHT + ROW_GAP)] :
            column \in DOMAIN rows[r]} : r \in DOMAIN rows}

buildEdge(edge) == [source |-> edge.source, target |-> edge.target, dashed |-> edge.cyclic]

(* A click on a group focuses all of its dependencies. *)
createStrategyMap(report) ==
  [nodes |-> DrawnGroups(report), links |-> {buildEdge(edge) : edge \in report.edges}]

=============================================================================
