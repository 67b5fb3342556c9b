------------------------------- MODULE Digraphs -------------------------------
(***************************************************************************)
(* What the two searches of internal/calculation/component.go return, for  *)
(* an adjacency that maps each identifier to its dependencies.  GraphSearch*)
(* checks that the code's algorithms compute it.                           *)
(***************************************************************************)
EXTENDS Naturals, FiniteSets

Edges(adjacency) == {e \in (DOMAIN adjacency) \X (DOMAIN adjacency) : e[2] \in adjacency[e[1]]}

Reversed(adjacency) ==
  [n \in DOMAIN adjacency |-> {m \in DOMAIN adjacency : n \in adjacency[m]}]

(* S holds the dependencies of start and those of its own members. *)
Closed(S, start, adjacency) ==
  /\ adjacency[start] \subseteq S
  /\ \A n \in S : adjacency[n] \subseteq S

(* What start depends on, directly or not: the least closed set, without   *)
(* start itself.                                                           *)
Reachable(start, adjacency) ==
  {n \in DOMAIN adjacency \ {start} :
     \A S \in SUBSET DOMAIN adjacency : Closed(S, start, adjacency) => n \in S}

(* The identifiers that depend on n and that n depends on, and n. *)
CycleOf(n, adjacency) ==
  {n} \cup {m \in Reachable(n, adjacency) : n \in Reachable(m, adjacency)}

Cycles(adjacency) ==
  {c \in {CycleOf(n, adjacency) : n \in DOMAIN adjacency} : Cardinality(c) > 1}

=============================================================================
