---------------------------- MODULE QualityMessages ----------------------------
(***************************************************************************)
(* The messages of goconduct.v1.QualityService                             *)
(* (lib-api-gen/src/gen/v1/quality_pb.ts) and what the quality module puts *)
(* into them (cmd/goconduct/internal/module/quality).  Text is left out;   *)
(* an identifier is a tuple of what it is put together from, a double is a *)
(* quotient, and a list whose order nothing tells apart is a set.          *)
(***************************************************************************)
EXTENDS Integers, FiniteSets

CONSTANTS
  PluginNames,   \* what a request may name, registered or not
  CheckPaths,    \* the paths that a request may select
  ReportPaths,   \* the files that reports are about
  MetricNames,
  FindingRules,
  FindingSites   \* what a finding points at inside a file

FindingSeverity == {"notice", "warning", "error"}

RunCheckRequest == [plugins : SUBSET PluginNames, paths : SUBSET CheckPaths]

QualityMetric ==
  [name : MetricNames, path : ReportPaths, value : Nat \X (Nat \ {0})]

(* A survivor carries no limit, a threshold points at no site.             *)
QualityFinding ==
  [rule : FindingRules, path : ReportPaths, severity : FindingSeverity,
   site : SUBSET FindingSites, actual : SUBSET Nat, limit : SUBSET Nat]

PluginReport ==
  [plugin : PluginNames,
   metrics : SUBSET QualityMetric,
   findings : SUBSET QualityFinding]

QualitySummary ==
  [plugins : Nat, metrics : Nat, findings : Nat, notices : Nat, warnings : Nat, errors : Nat]

RunCheckResponse == [summary : QualitySummary, reports : SUBSET PluginReport]

-----------------------------------------------------------------------------
(* How many there are in all reports together. *)
Listed(reports, of) == Cardinality(UNION {{r} \X of[r] : r \in reports})

Severe(reports, severity) ==
  Listed(reports, [r \in reports |-> {f \in r.findings : f.severity = severity}])

newCheckResult(reports) ==
  [summary |->
     [plugins |-> Cardinality(reports),
      metrics |-> Listed(reports, [r \in reports |-> r.metrics]),
      findings |-> Listed(reports, [r \in reports |-> r.findings]),
      notices |-> Severe(reports, "notice"),
      warnings |-> Severe(reports, "warning"),
      errors |-> Severe(reports, "error")],
   reports |-> reports]

(* Identifiers of metrics and findings are unique: NewReport refuses others.*)
HasUniqueIds(report) ==
  /\ \A a, b \in report.metrics : a.name = b.name /\ a.path = b.path => a = b
  /\ \A a, b \in report.findings :
       a.rule = b.rule /\ a.path = b.path /\ a.site = b.site => a = b

=============================================================================
