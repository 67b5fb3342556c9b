-------------------------------- MODULE Orders --------------------------------
(***************************************************************************)
(* Sorting.  An order is the set of the pairs whose first comes before the *)
(* second.  A place in a sorted sequence is the number of those before it, *)
(* which needs no induction and so can be reasoned about.                  *)
(***************************************************************************)
EXTENDS Integers, FiniteSets, Sequences

IsStrictOrder(S, before) ==
  /\ \A a, b \in S : a # b => (<<a, b>> \in before <=> <<b, a>> \notin before)
  /\ \A a, b, c \in S : <<a, b>> \in before /\ <<b, c>> \in before => <<a, c>> \in before
  /\ \A a \in S : <<a, a>> \notin before

Before(S, before, x) == {y \in S : <<y, x>> \in before}

(* The members of S in their order. *)
Sorted(S, before) ==
  [i \in 1 .. Cardinality(S) |-> CHOOSE x \in S : Cardinality(Before(S, before, x)) = i - 1]

(* The first of them. *)
Top(S, before, limit) ==
  SubSeq(Sorted(S, before), 1, IF limit < Cardinality(S) THEN limit ELSE Cardinality(S))

=============================================================================
