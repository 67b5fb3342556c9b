---------------------------- MODULE ComponentTree ----------------------------
(***************************************************************************)
(* The components as a file tree (kernel/graph/component-tree.ts), and     *)
(* which of its nodes are open (component-tree.component.ts).  The order of*)
(* siblings only sorts what is shown: children are sets.                   *)
(***************************************************************************)
EXTENDS Naturals, Sequences, FiniteSets

Paths == INSTANCE SequencesExt

(* Every directory on the way to an identifier, and the identifiers. *)
Directories(identifiers) == UNION {Paths!Prefixes(id) \ {<<>>} : id \in identifiers}

Entries(identifiers, directory) ==
  {d \in Directories(identifiers) :
     Len(d) = Len(directory) + 1 /\ Paths!IsPrefix(directory, d)}

Relays(identifiers, directory) ==
  directory \notin identifiers /\ Cardinality(Entries(identifiers, directory)) = 1

(* A directory that only relays to one child is merged into that child:    *)
(* the first one from an entry on that does not.                           *)
compact(identifiers, entry) ==
  CHOOSE path \in Directories(identifiers) :
    /\ Paths!IsPrefix(entry, path) /\ ~Relays(identifiers, path)
    /\ \A d \in Directories(identifiers) :
         Paths!IsPrefix(entry, d) /\ Paths!IsStrictPrefix(d, path) => Relays(identifiers, d)

(* The node for each entry of a directory; its label begins with the last  *)
(* segment of the entry.                                                   *)
finalize(identifiers) ==
  LET node[entry \in Directories(identifiers)] ==
        LET path == compact(identifiers, entry) IN
          [label |-> SubSeq(path, Len(entry), Len(path)),
           path |-> path,
           componentId |-> IF path \in identifiers THEN path ELSE <<>>,
           children |-> {node[child] : child \in Entries(identifiers, path)}]
  IN node

Nodes(identifiers) == {finalize(identifiers)[entry] : entry \in Directories(identifiers)}

buildComponentTree(identifiers) ==
  {finalize(identifiers)[root] : root \in Entries(identifiers, <<>>)}

-----------------------------------------------------------------------------
(* The way to a component *)

Undefined == [isDefined |-> FALSE, paths |-> {}]
Found(paths) == [isDefined |-> TRUE, paths |-> paths]

AboveMutant(node, below) == below

Above(node, below) == {node.path} \cup below

(* What is found under one of the nodes. *)
Among(nodes, found) ==
  LET holders == {n \in nodes : found[n].isDefined} IN
    IF holders = {} THEN Undefined ELSE found[CHOOSE n \in holders : TRUE]

findAncestors(identifiers, id) ==
  LET found[node \in Nodes(identifiers)] ==
        LET below == Among(node.children, found) IN
          IF node.componentId = id THEN Found({})
          ELSE IF below.isDefined THEN Found(Above(node, below.paths))
          ELSE Undefined
  IN found

(* The paths above a component; none if the tree does not hold it. *)
ancestorPaths(identifiers, id) ==
  Among(buildComponentTree(identifiers), findAncestors(identifiers, id)).paths

-----------------------------------------------------------------------------
(* What is open *)

(* The effect that opens the way to the selection. *)
revealed(openPaths, identifiers, selected) ==
  openPaths \cup (IF selected = <<>> THEN {} ELSE ancestorPaths(identifiers, selected))

toggled(openPaths, node) ==
  IF node.path \in openPaths THEN openPaths \ {node.path} ELSE openPaths \cup {node.path}

(* The nodes on screen: the children of a node are while it is expanded. *)
shown(identifiers, openPaths) ==
  LET under[node \in Nodes(identifiers)] ==
        {node} \cup (IF node.path \in openPaths THEN UNION {under[c] : c \in node.children}
                     ELSE {})
  IN UNION {under[root] : root \in buildComponentTree(identifiers)}

=============================================================================
