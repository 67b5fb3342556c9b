------------------------------- MODULE TypeDiagram -------------------------------
(***************************************************************************)
(* The diagram of the types of one component: what it places and connects  *)
(* (type-diagram/type-diagram.model.ts), which cells the engine is given,  *)
(* and what a click on one of them asks for (type-diagram.diagram.ts).     *)
(*                                                                         *)
(* Zoom, pan, colors and the text of rows are left out.  A list that only  *)
(* keeps an order to place its members is a set once they are placed.      *)
(***************************************************************************)
EXTENDS Orders

Sets == INSTANCE FiniteSetsExt

CONSTANT IdPrecedes(_, _)   \* localeCompare of identifiers of types, as a strict order

TYPE_NODE_WIDTH == 264
TYPE_HEADER_HEIGHT == 36
TYPE_ROW_HEIGHT == 20
EXTERNAL_NODE_WIDTH == 224
EXTERNAL_NODE_HEIGHT == 48
NODE_BOTTOM_PADDING == 8
COLUMN_GAP == 96
NODE_GAP == 48
CANVAS_MARGIN == 24

typeShortName(id) == id[2]

ById(S) == {p \in S \X S : IdPrecedes(p[1].id, p[2].id)}

-----------------------------------------------------------------------------
(* Nodes *)

NoPort == <<>>

(* The ports of the rows of a node, from top to bottom. *)
nodeRows(declaration) ==
  [i \in DOMAIN declaration.fields |-> <<"field", declaration.fields[i].name>>]
    \o [i \in DOMAIN declaration.methods |-> <<"method", declaration.methods[i].name>>]

nodeHeight(rowCount, collapsed) ==
  IF collapsed \/ rowCount = 0 THEN TYPE_HEADER_HEIGHT
  ELSE TYPE_HEADER_HEIGHT + rowCount * TYPE_ROW_HEIGHT + NODE_BOTTOM_PADDING

(* The rounded up square root of the number of nodes, at most four. *)
ColumnCount(count) == Sets!Min({4} \cup {k \in 1 .. 4 : k * k >= count})

(* The leftmost of the least filled columns. *)
LeastFilled(heights) ==
  CHOOSE column \in DOMAIN heights :
    \A other \in DOMAIN heights :
      \/ heights[column] < heights[other]
      \/ heights[column] = heights[other] /\ column <= other

HeightOf(declaration, collapsedIds) ==
  nodeHeight(Len(nodeRows(declaration)), declaration.id \in collapsedIds)

(* How far the columns are filled once n nodes are placed, for each n. *)
ColumnHeights(sorted, collapsedIds) ==
  LET after[n \in 0 .. Len(sorted)] ==
        IF n = 0 THEN [column \in 1 .. ColumnCount(Len(sorted)) |-> CANVAS_MARGIN]
        ELSE [after[n - 1] EXCEPT
                ![LeastFilled(after[n - 1])] = @ + HeightOf(sorted[n], collapsedIds) + NODE_GAP]
  IN after

Placed(declaration, collapsedIds, offset, incoming, heights) ==
  LET collapsed == declaration.id \in collapsedIds
      column == LeastFilled(heights) IN
    [id |-> declaration.id,
     kind |-> declaration.kind,
     incomingCount |-> Cardinality({r \in incoming : r.targetId = declaration.id}),
     rows |-> IF collapsed THEN <<>> ELSE nodeRows(declaration),
     collapsed |-> collapsed,
     x |-> CANVAS_MARGIN + offset + (column - 1) * (TYPE_NODE_WIDTH + COLUMN_GAP),
     y |-> heights[column],
     width |-> TYPE_NODE_WIDTH,
     height |-> HeightOf(declaration, collapsedIds)]

layoutNodes(sorted, collapsedIds, offset, incoming) ==
  LET heights == ColumnHeights(sorted, collapsedIds) IN
    {Placed(sorted[i], collapsedIds, offset, incoming, heights[i - 1]) : i \in DOMAIN sorted}

(* One column of references to types of other components. *)
Stacked(references, x) ==
  LET sorted == Sorted(references, ById(references)) IN
    {[id |-> sorted[i].id,
      componentId |-> sorted[i].component,
      x |-> x,
      y |-> CANVAS_MARGIN + (i - 1) * (EXTERNAL_NODE_HEIGHT + NODE_GAP \div 2),
      width |-> EXTERNAL_NODE_WIDTH,
      height |-> EXTERNAL_NODE_HEIGHT] : i \in DOMAIN sorted}

layoutExternals(targets, nodes) ==
  Stacked(targets, Sets!Max({CANVAS_MARGIN} \cup {n.x + n.width : n \in nodes}) + COLUMN_GAP)

Source(relation) == [id |-> relation.sourceId, component |-> relation.sourceComponent]

UnplacedMutant(relation, placed) == TRUE

Unplaced(relation, placed) == \A node \in placed : node.id # relation.sourceId

(* A source that is already a target keeps its node at the right. *)
layoutIncomingSources(incoming, outgoingExternals) ==
  Stacked({Source(r) : r \in {s \in incoming : Unplaced(s, outgoingExternals)}}, CANVAS_MARGIN)

-----------------------------------------------------------------------------
(* Links *)

edge(kind, source, port, target) ==
  [kind |-> kind, sourceId |-> source, sourcePort |-> port, targetId |-> target]

buildIncomingEdges(incoming) ==
  {edge(r.kind, r.sourceId, NoPort, r.targetId) : r \in incoming}

(* The first field whose type names the target. *)
memberPort(declaration, reference, embedded) ==
  LET fields == declaration.fields
      matching ==
        {i \in DOMAIN fields : fields[i].embedded = embedded
                               /\ typeShortName(reference.id) \in fields[i].type} IN
    IF matching = {} THEN NoPort ELSE <<"field", fields[Sets!Min(matching)].name>>

Anchor(declaration, reference, embedded, collapsedIds) ==
  IF declaration.id \in collapsedIds THEN NoPort ELSE memberPort(declaration, reference, embedded)

EdgesOf(d, collapsedIds) ==
  {edge("implements", d.id, NoPort, r.id) : r \in d.implements}
  \cup {edge("embeds", d.id, Anchor(d, r, TRUE, collapsedIds), r.id) : r \in d.embeds}
  \cup {edge("references", d.id, Anchor(d, r, FALSE, collapsedIds), r.id) : r \in d.references}

buildEdges(types, collapsedIds) == UNION {EdgesOf(d, collapsedIds) : d \in types}

RelatedTo(d) == d.implements \cup d.embeds \cup d.references

collectExternalTargets(types, internalIds) ==
  {r \in UNION {RelatedTo(d) : d \in types} : r.id \notin internalIds}

-----------------------------------------------------------------------------
(* The model *)

buildTypeDiagramModel(types, incoming, collapsedIds, selectedTypeId) ==
  LET internalIds == {d.id : d \in types}
      relevant ==
        {r \in incoming : r.targetId \in internalIds /\ r.sourceId \notin internalIds}
      selected == {r \in relevant : r.targetId = selectedTypeId}
      offset == IF selected = {} THEN 0 ELSE EXTERNAL_NODE_WIDTH + COLUMN_GAP
      nodes == layoutNodes(Sorted(types, ById(types)), collapsedIds, offset, relevant)
      outgoing == layoutExternals(collectExternalTargets(types, internalIds), nodes)
      externals == layoutIncomingSources(selected, outgoing) \cup outgoing
      placed == nodes \cup externals IN
    [nodes |-> nodes,
     externals |-> externals,
     edges |-> buildIncomingEdges(selected) \cup buildEdges(types, collapsedIds),
     width |-> Sets!Max({0} \cup {n.x + n.width : n \in placed}) + CANVAS_MARGIN,
     height |-> Sets!Max({0} \cup {n.y + n.height : n \in placed}) + CANVAS_MARGIN]

(* What the model promises whoever draws it (its interfaces).              *)
TypeRelationKind == {"implements", "embeds", "references"}

IsTypeNodeRow(row) == row[1] \in {"field", "method"}

IsTypeDiagramNode(node) ==
  /\ node.kind \in {"struct", "interface", "alias", "basic"}
  /\ node.incomingCount \in Nat
  /\ node.width = TYPE_NODE_WIDTH /\ node.height >= TYPE_HEADER_HEIGHT
  /\ node.collapsed => node.rows = <<>>
  /\ \A i \in DOMAIN node.rows : IsTypeNodeRow(node.rows[i])

IsExternalTypeNode(node) ==
  node.width = EXTERNAL_NODE_WIDTH /\ node.height = EXTERNAL_NODE_HEIGHT

(* A collapsed source and one that is external give their links no port.   *)
IsTypeDiagramEdge(e, nodes) ==
  /\ e.kind \in TypeRelationKind
  /\ e.sourcePort # NoPort =>
       \E n \in nodes : /\ n.id = e.sourceId
                        /\ ~n.collapsed
                        /\ \E i \in DOMAIN n.rows : n.rows[i] = e.sourcePort

IsInside(node, model) ==
  /\ node.x >= CANVAS_MARGIN /\ node.x + node.width <= model.width
  /\ node.y >= CANVAS_MARGIN /\ node.y + node.height <= model.height

IsTypeDiagramModel(model) ==
  /\ \A n \in model.nodes : IsTypeDiagramNode(n)
  /\ \A n \in model.externals : IsExternalTypeNode(n)
  /\ \A n \in model.nodes \cup model.externals : IsInside(n, model)
  /\ \A e \in model.edges : IsTypeDiagramEdge(e, model.nodes)

-----------------------------------------------------------------------------
(* What is drawn, and what a click on it asks for *)

(* A type of the component carries no external component; it alone has a   *)
(* control that collapses it.                                              *)
buildTypeNode(node, selectedId) ==
  [typeId |-> node.id, externalComponentId |-> <<>>, hasToggle |-> TRUE,
   ports |-> node.rows, selected |-> node.id = selectedId]

buildExternalNode(node) ==
  [typeId |-> node.id, externalComponentId |-> node.componentId, hasToggle |-> FALSE,
   ports |-> <<>>, selected |-> FALSE]

buildLink(e) ==
  [source |-> e.sourceId, port |-> e.sourcePort, target |-> e.targetId, style |-> e.kind]

draw(model, selectedId) ==
  LET ids == {n.id : n \in model.nodes \cup model.externals} IN
    [cells |->
       {buildTypeNode(n, selectedId) : n \in model.nodes}
         \cup {buildExternalNode(n) : n \in model.externals},
     links |-> {buildLink(e) : e \in {f \in model.edges : {f.sourceId, f.targetId} \subseteq ids}}]

Clicked(cell, onToggle) ==
  IF onToggle /\ cell.hasToggle THEN [asks |-> "toggle", of |-> cell.typeId]
  ELSE IF cell.externalComponentId # <<>>
    THEN [asks |-> "navigate", of |-> cell.externalComponentId]
    ELSE [asks |-> "select", of |-> cell.typeId]

=============================================================================
