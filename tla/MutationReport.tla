---------------------------- MODULE MutationReport ----------------------------
(***************************************************************************)
(* The report of an executed mutation run (the end of                      *)
(* pkg/plugin/mutation/evaluator.go): what it says of a file whose sites   *)
(* were all judged.                                                        *)
(***************************************************************************)
EXTENDS Naturals, FiniteSets

CONSTANTS
  MaximumUncovered,   \* Configuration.MaximumUncovered
  MaximumSurvivors    \* Configuration.MaximumSurvivors

ASSUME LimitAssumption == MaximumUncovered \in Nat /\ MaximumSurvivors \in Nat

mutationMetric(path, name, value) == [name |-> name, path |-> path, value |-> <<value, 1>>]

mutationMetrics(result) ==
  LET survived == Cardinality(result.survivors)
      tested == result.killed + survived IN
    {mutationMetric(result.path, "mutation.total", result.total),
     mutationMetric(result.path, "mutation.covered", result.covered),
     mutationMetric(result.path, "mutation.uncovered", result.uncovered),
     mutationMetric(result.path, "mutation.killed", result.killed),
     mutationMetric(result.path, "mutation.survived", survived)}
      \cup {[name |-> "mutation.killed.percent", path |-> result.path,
             value |-> <<result.killed * 100, t>>] : t \in {tested} \ {0}}

survivorFindings(result) ==
  {[rule |-> "surviving-mutation", path |-> result.path, severity |-> "notice",
    site |-> {s}, actual |-> {}, limit |-> {}] : s \in result.survivors}

mutationThresholdFinding(rule, path, actualCount, limitCount) ==
  [rule |-> rule, path |-> path, severity |-> "error",
   site |-> {}, actual |-> {actualCount}, limit |-> {limitCount}]

Exceeding(rule, path, count, limit) ==
  IF count > limit THEN {mutationThresholdFinding(rule, path, count, limit)} ELSE {}

thresholdFindings(result) ==
  Exceeding("maximum-uncovered-mutations", result.path, result.uncovered, MaximumUncovered)
    \cup Exceeding("maximum-surviving-mutations", result.path, Cardinality(result.survivors),
                   MaximumSurvivors)

report(results) ==
  [plugin |-> "mutation",
   metrics |-> UNION {mutationMetrics(result) : result \in results},
   findings |->
     UNION {survivorFindings(result) \cup thresholdFindings(result) : result \in results}]

=============================================================================
