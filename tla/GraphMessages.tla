----------------------------- MODULE GraphMessages -----------------------------
(***************************************************************************)
(* The messages of goconduct.v1 that the console reads                     *)
(* (lib-api-gen/src/gen/v1/graph_pb.ts).  A message is a record; a repeated*)
(* field whose order nothing tells apart is a set, a double is a pair of   *)
(* numbers that stands for a quotient.  Functions and their calls, the     *)
(* scope and the policy are fields that the console does not read: they    *)
(* are left out, and so are the counters of packages.                      *)
(***************************************************************************)
EXTENDS Integers

CONSTANTS
  Paths,    \* identifiers of components
  NoPath,   \* of a finding that is about no relationship
  Names,    \* of components and applications, the empty one included
  Rules     \* identifiers of rules

Roles ==
  {"application", "application-module", "shared-module", "library", "infrastructure",
   "development"}

Severities == {"error", "warning"}

Quotient == {q \in Nat \X Nat : q[2] > 0}

(* What a double is, next to the quotient it stands for: how many units in *)
(* the last place it lies above the closest double.                        *)
Rounded == [exact : Quotient, ulps : Int]

Component ==
  [id : Paths,
   name : Names,
   role : Roles,
   application : Names,
   sourceFiles : Nat,
   productionFiles : Nat,
   testFiles : Nat,
   directDependencies : Nat,
   productionDependencies : Nat,
   testOnlyDependencies : Nat,
   directImportingComponents : Nat,
   productionImportingComponents : Nat,
   testOnlyImportingComponents : Nat,
   transitiveDependencies : Nat,
   transitiveImportingComponents : Nat,
   usingApplications : SUBSET Names,
   afferentCoupling : Nat,
   efferentCoupling : Nat,
   instability : Quotient,
   abstractTypes : Nat,
   concreteTypes : Nat,
   abstractness : Quotient,
   mainSequenceDistance : Rounded,
   isStableWithLowAbstraction : BOOLEAN,
   inCycle : BOOLEAN]

Relationship ==
  [source : Paths,
   target : Paths,
   productionReferencingFiles : Nat,
   testReferencingFiles : Nat,
   testOnly : BOOLEAN,
   violatesStableDependencyPrinciple : BOOLEAN,
   ruleViolations : SUBSET Rules]

Cycle == [members : SUBSET Paths]

Finding ==
  [rule : Rules,
   severity : Severities,
   source : Paths \cup {NoPath},
   target : Paths \cup {NoPath},
   components : SUBSET Paths]

GraphSummary ==
  [components : Nat,
   relationships : Nat,
   productionRelationships : Nat,
   testOnlyRelationships : Nat,
   applications : Nat,
   applicationModules : Nat,
   sharedModules : Nat,
   libraries : Nat,
   infrastructure : Nat,
   developmentTools : Nat,
   cycles : Nat,
   relationshipRuleViolations : Nat,
   stableDependencyPrincipleViolations : Nat,
   stableLowAbstractionComponents : Nat,
   findings : Nat,
   errors : Nat,
   warnings : Nat]

Graph ==
  [components : SUBSET Component,
   relationships : SUBSET Relationship,
   cycles : SUBSET Cycle,
   findings : SUBSET Finding,
   summary : GraphSummary]

=============================================================================
