------------------------------- MODULE GraphMap -------------------------------
(***************************************************************************)
(* The overview and the components table: which components the map places  *)
(* and where, which the table lists and in which order (kernel/graph/      *)
(* graph-layout.ts), what is drawn of the map (dependency-map), and what   *)
(* the detail drawer shows of the selected component (component-selection. *)
(* store.ts).  A query is the components whose text contains it.           *)
(***************************************************************************)
EXTENDS Orders

Sets == INSTANCE FiniteSetsExt

CONSTANT Precedes(_, _)   \* localeCompare, as a strict order of identifiers and names

EVERY_ROLE == "all"

EVERY_SEVERITY == "all"

-----------------------------------------------------------------------------
(* The table *)

filterComponents(components, role, query) ==
  {c \in components : role \in {EVERY_ROLE, c.role} /\ c.id \in query}

TextColumns == {"name", "role"}

NumericColumns ==
  {"afferentCoupling", "efferentCoupling", "instability", "mainSequenceDistance"}

DEFAULT_COMPONENT_SORT == [column |-> "afferentCoupling", direction |-> "descending"]

(* The quotient that a numeric column stands for. *)
Number(component, column) ==
  CASE column = "instability" -> component.instability
    [] column = "mainSequenceDistance" -> component.mainSequenceDistance.exact
    [] column = "afferentCoupling" -> <<component.afferentCoupling, 1>>
    [] column = "efferentCoupling" -> <<component.efferentCoupling, 1>>

Less(a, b, column) ==
  IF column \in TextColumns
    THEN Precedes(<<a[column]>>, <<b[column]>>)
    ELSE LET p == Number(a, column)
             q == Number(b, column) IN p[1] * q[2] < q[1] * p[2]

ComesFirst(a, b, sort) ==
  LET rising == sort.direction = "ascending" IN
    \/ IF rising THEN Less(a, b, sort.column) ELSE Less(b, a, sort.column)
    \/ /\ ~Less(a, b, sort.column)
       /\ ~Less(b, a, sort.column)
       /\ Precedes(a.id, b.id)

InOrder(components, sort) == {p \in components \X components : ComesFirst(p[1], p[2], sort)}

sortComponents(components, sort) == Sorted(components, InOrder(components, sort))

toggleSort(sort, column) ==
  [column |-> column,
   direction |->
     IF sort.column = column
       THEN IF sort.direction = "ascending" THEN "descending" ELSE "ascending"
       ELSE IF column \in NumericColumns THEN "descending" ELSE "ascending"]

(* The findings page keeps the findings of one severity. *)
filterFindings(findings, severity) ==
  {f \in findings : severity \in {EVERY_SEVERITY, f.severity}}

-----------------------------------------------------------------------------
(* The map *)

GRAPH_LAYOUT_LIMIT == 18

Coupling(component) == component.afferentCoupling + component.efferentCoupling

MoreCoupled(a, b) ==
  Coupling(a) > Coupling(b) \/ (Coupling(a) = Coupling(b) /\ Precedes(a.id, b.id))

(* A node's angle is its share of a turn, clockwise from the top. *)
ByCoupling(components) == {p \in components \X components : MoreCoupled(p[1], p[2])}

Positioned(components, limit) ==
  LET selected == Top(components, ByCoupling(components), limit) IN
    {[id |-> selected[i].id, angle |-> <<i - 1, Sets!Max({Len(selected), 1})>>,
      radius |-> IF Len(selected) < 8 THEN 33 ELSE 39] : i \in DOMAIN selected}

JoinsMutant(relationship, ids) == relationship.source \in ids

Joins(relationship, ids) == {relationship.source, relationship.target} \subseteq ids

buildGraphLayout(components, relationships, limit) ==
  LET nodes == Positioned(components, limit)
      ids == {n.id : n \in nodes} IN
    [nodes |-> nodes, edges |-> {r \in relationships : Joins(r, ids)}]

buildNode(node, selected) == [id |-> node.id, selected |-> node.id = selected]

buildLink(relationship) ==
  [source |-> relationship.source, target |-> relationship.target,
   dashed |-> relationship.testOnly]

createDependencyMapDiagram(layout, selected) ==
  [nodes |-> {buildNode(n, selected) : n \in layout.nodes},
   links |-> {buildLink(r) : r \in layout.edges}]

-----------------------------------------------------------------------------
(* The detail drawer *)

selectedRelationships(relationships, id) ==
  {r \in relationships : id # <<>> /\ id \in {r.source, r.target}}

neighbor(components, id, testOnly) ==
  [id |-> id, known |-> \E c \in components : c.id = id, testOnly |-> testOnly]

importers(components, relationships, id) ==
  {neighbor(components, r.source, r.testOnly) :
     r \in {s \in selectedRelationships(relationships, id) : s.target = id}}

dependencies(components, relationships, id) ==
  {neighbor(components, r.target, r.testOnly) :
     r \in {s \in selectedRelationships(relationships, id) : s.source = id}}

=============================================================================
