------------------------------ MODULE GraphSearch ------------------------------
(***************************************************************************)
(* The searches that component graphs and function graphs share            *)
(* (internal/calculation/component.go): stronglyConnectedComponents, then  *)
(* reachable from one of the identifiers.  A step is one turn of a loop.   *)
(* Identifiers are numbers, ordered as the code orders their text.         *)
(***************************************************************************)
EXTENDS Digraphs, Integers, Sequences

CONSTANT Identifiers

ASSUME IdentifiersAssumption == Identifiers \subseteq Nat \ {0}

VARIABLES
  adjacency,  \* the dependencies of each identifier
  phase,      \* which search runs
  index, indices, lowLinks, stack, onStack, cycles,
  calls,      \* the calls of connect that have not returned, innermost last
  rest,       \* the dependencies that each call has not looked at
  start, visited,
  pending     \* the identifiers on the stack of reachable

connectVars == <<index, indices, lowLinks, stack, onStack, cycles, calls, rest>>
walkVars == <<start, visited, pending>>
vars == <<adjacency, phase, connectVars, walkVars>>

(* Neither imports nor calls within one component or function are edges. *)
Adjacencies == {a \in [Identifiers -> SUBSET Identifiers] : \A n \in Identifiers : n \notin a[n]}

Unvisited == 0
NoIdentifier == 0
IsVisited(n) == indices[n] # Unvisited

Init ==
  /\ adjacency \in Adjacencies
  /\ phase = "cycles"
  /\ index = 1
  /\ indices = [n \in Identifiers |-> Unvisited]
  /\ lowLinks = [n \in Identifiers |-> Unvisited]
  /\ stack = <<>>
  /\ onStack = {}
  /\ cycles = {}
  /\ calls = <<>>
  /\ rest = [n \in Identifiers |-> {}]
  /\ start = NoIdentifier
  /\ visited = {}
  /\ pending = {}

-----------------------------------------------------------------------------
(* stronglyConnectedComponents *)

First(S) == CHOOSE n \in S : \A m \in S : n <= m
Last(s) == s[Len(s)]
WithoutLast(s) == SubSeq(s, 1, Len(s) - 1)
Lower(a, b) == IF a < b THEN a ELSE b

(* The call of connect that runs. *)
Current == Last(calls)

Connect(n) ==
  /\ indices' = [indices EXCEPT ![n] = index]
  /\ index' = index + 1
  /\ stack' = Append(stack, n)
  /\ onStack' = onStack \cup {n}
  /\ calls' = Append(calls, n)

ConnectRoot ==
  /\ phase = "cycles"
  /\ calls = <<>>
  /\ LET unvisited == {n \in Identifiers : ~IsVisited(n)} IN
       /\ unvisited # {}
       /\ Connect(First(unvisited))
       /\ lowLinks' = [lowLinks EXCEPT ![First(unvisited)] = index]
       /\ rest' = [rest EXCEPT ![First(unvisited)] = adjacency[First(unvisited)]]
  /\ UNCHANGED <<adjacency, phase, cycles, walkVars>>

(* connect takes its next dependency: a call for a new one, ... *)
ConnectDependency ==
  /\ phase = "cycles"
  /\ calls # <<>>
  /\ rest[Current] # {}
  /\ LET dependency == First(rest[Current]) IN
       /\ ~IsVisited(dependency)
       /\ Connect(dependency)
       /\ lowLinks' = [lowLinks EXCEPT ![dependency] = index]
       /\ rest' = [rest EXCEPT ![Current] = @ \ {dependency},
                               ![dependency] = adjacency[dependency]]
  /\ UNCHANGED <<adjacency, phase, cycles, walkVars>>

(* ... and its index for one that is still on the stack. *)
LowLinkOver(n, dependency) ==
  IF dependency \in onStack THEN Lower(lowLinks[n], indices[dependency]) ELSE lowLinks[n]

SkipDependency ==
  /\ phase = "cycles"
  /\ calls # <<>>
  /\ rest[Current] # {}
  /\ LET dependency == First(rest[Current]) IN
       /\ IsVisited(dependency)
       /\ lowLinks' = [lowLinks EXCEPT ![Current] = LowLinkOver(Current, dependency)]
       /\ rest' = [rest EXCEPT ![Current] = @ \ {dependency}]
  /\ UNCHANGED <<adjacency, phase, index, indices, stack, onStack, cycles, calls, walkVars>>

(* The position of n on the stack. *)
PositionOf(n) == CHOOSE i \in 1 .. Len(stack) : stack[i] = n
Above(n) == {stack[i] : i \in PositionOf(n) .. Len(stack)}

IsCycle(members) == Cardinality(members) > 1

LowLinkAfterCallMutant(caller) == lowLinks[caller]

LowLinkAfterCall(caller) == Lower(lowLinks[caller], lowLinks[Current])

(* connect returns; a root takes its component off the stack first.  The   *)
(* caller lowers its own link by that of the call.                         *)
ReturnFromConnect ==
  /\ phase = "cycles"
  /\ calls # <<>>
  /\ rest[Current] = {}
  /\ calls' = WithoutLast(calls)
  /\ lowLinks' =
       IF calls' = <<>> THEN lowLinks
       ELSE [lowLinks EXCEPT ![Last(calls')] = LowLinkAfterCall(Last(calls'))]
  /\ IF lowLinks[Current] = indices[Current]
       THEN /\ stack' = SubSeq(stack, 1, PositionOf(Current) - 1)
            /\ onStack' = onStack \ Above(Current)
            /\ cycles' = cycles \cup {c \in {Above(Current)} : IsCycle(c)}
       ELSE UNCHANGED <<stack, onStack, cycles>>
  /\ UNCHANGED <<adjacency, phase, index, indices, rest, walkVars>>

-----------------------------------------------------------------------------
(* reachable *)

StartReachable ==
  /\ phase = "cycles"
  /\ calls = <<>>
  /\ \A n \in Identifiers : IsVisited(n)
  /\ phase' = "reachable"
  /\ start' \in Identifiers
  /\ pending' = adjacency[start']
  /\ UNCHANGED <<adjacency, connectVars, visited>>

(* reachable takes one identifier off its stack.  The order and the        *)
(* number of times an identifier is on it are abstracted: a second time it *)
(* is skipped.                                                             *)
VisitedIsSkipped(n) == n \in visited

Skipped(n) == n = start \/ n \in visited

TakePending ==
  /\ phase = "reachable"
  /\ \E n \in pending :
       IF Skipped(n)
         THEN /\ pending' = pending \ {n}
              /\ UNCHANGED visited
         ELSE /\ pending' = (pending \ {n}) \cup adjacency[n]
              /\ visited' = visited \cup {n}
  /\ UNCHANGED <<adjacency, phase, connectVars, start>>

ReturnReachable ==
  /\ phase = "reachable"
  /\ pending = {}
  /\ phase' = "done"
  /\ UNCHANGED <<adjacency, connectVars, walkVars>>

Next ==
  \/ ConnectRoot
  \/ ConnectDependency
  \/ SkipDependency
  \/ ReturnFromConnect
  \/ StartReachable
  \/ TakePending
  \/ ReturnReachable

(* One goroutine runs the searches and nothing in them blocks. *)
Spec == Init /\ [][Next]_vars /\ WF_vars(Next)

-----------------------------------------------------------------------------
(* connect decides from a low link, before it has seen the other roots,    *)
(* that a component is complete.  All the same, when                       *)
(* stronglyConnectedComponents returns, it has reported the whole          *)
(* components of more than one member and nothing else, and its stack is   *)
(* empty.                                                                  *)
CyclesAreExact ==
  phase # "cycles" => cycles = Cycles(adjacency) /\ stack = <<>>

(* reachable returns what start depends on, directly or through others,    *)
(* and never start itself, not even in a cycle.                            *)
ReachableIsExact == phase = "done" => visited = Reachable(start, adjacency)

=============================================================================
