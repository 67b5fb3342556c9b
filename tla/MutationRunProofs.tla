--------------------------- MODULE MutationRunProofs ---------------------------
(***************************************************************************)
(* Proofs about mutation runs, for any files, sites, suites, requests and  *)
(* failures.                                                               *)
(*                                                                         *)
(* What is on disk is proved of a run that is the only one: what two of    *)
(* them do to each other is the counterexample of the run                  *)
(* mutation_concurrent.  SourceRestored speaks of the end; the invariant   *)
(* says what is on disk on the way: nothing but the file at hand is ever   *)
(* changed (OneFileChanged), by the one mutation under test (OneMutation). *)
(*                                                                         *)
(* That a report is complete is proved of any number of runs: the books    *)
(* of a run (Bookkeeping) say at every point of its loops which sites are  *)
(* judged, and the lemmas about the response count what they say.          *)
(***************************************************************************)
EXTENDS MutationRun, FiniteSetTheorems, TLAPS

OneRun == \E r \in Runs : Runs = {r}

Phases == Active \cup {"idle", "returned", "gone"}

Typed ==
  /\ disk \in [Files -> SUBSET Sites]
  /\ pc \in [Runs -> Phases]
  /\ file \in [Runs -> Files \cup {NoFile}]
  /\ original \in [Runs -> SUBSET Sites]
  /\ site \in [Runs -> SUBSET Sites]
  /\ killed \in [Runs -> SUBSET Sites]
  /\ survivors \in [Runs -> SUBSET Sites]
  /\ inconclusive \in [Runs -> SUBSET Sites]

CleanBut(files) == \A f \in Files \ files : disk[f] = {}

OneFileChanged ==
  \A r \in Runs :
    /\ pc[r] \in {"idle", "measuring", "choosing"} => unrestored = {} /\ CleanBut({})
    /\ pc[r] \in {"mutating", "testing", "restoring"} =>
         unrestored = {} /\ file[r] \in Files /\ original[r] = {} /\ CleanBut({file[r]})
    /\ pc[r] = "returned" => CleanBut(unrestored)

OneMutation ==
  \A r \in Runs :
    pc[r] = "testing" => \E s \in Sites : site[r] = {s} /\ disk[file[r]] = {s}

RunInv == Typed /\ OneFileChanged /\ OneMutation /\ VerdictsAreTrue

LEMMA InitHolds == Init => RunInv
<1> SUFFICES ASSUME Init PROVE RunInv
  OBVIOUS
<1>1. Typed
  BY DEF Init, Typed, Phases
<1>2. OneFileChanged /\ OneMutation
  BY DEF Init, OneFileChanged, OneMutation, CleanBut
<1>3. VerdictsAreTrue
  BY DEF Init, VerdictsAreTrue
<1> QED
  BY <1>1, <1>2, <1>3 DEF RunInv

(* While a mutation is under test, the suite fails exactly if it detects   *)
(* that mutation.                                                          *)
LEMMA SuiteSeesTheMutation ==
  ASSUME RunInv, NEW r \in Runs, pc[r] = "testing"
  PROVE  /\ SuiteFails => site[r] \subseteq Detectable
         /\ ~SuiteFails => site[r] \cap Detectable = {}
<1>1. PICK s \in Sites : site[r] = {s} /\ disk[file[r]] = {s}
  BY DEF RunInv, OneMutation
<1>2. file[r] \in Files /\ \A f \in Files : f # file[r] => disk[f] = {}
  BY DEF RunInv, OneFileChanged, CleanBut
<1>3. SuiteFails <=> s \in Detectable
  BY <1>1, <1>2 DEF SuiteFails
<1> QED
  BY <1>1, <1>3

(* The steps that leave every file alone. *)
LEMMA QuietStep ==
  ASSUME OneRun, RunInv, NEW r \in Runs,
         \/ \E request \in Requests : Start(r, request)
         \/ Cancel(r) \/ Measure(r) \/ EndRun(r) \/ Survive(r) \/ Kill(r) \/ StopTest(r)
         \/ \E f \in Files : ChooseFile(r, f)
  PROVE  RunInv'
<1> USE DEF RunInv, Typed, Phases, Active, OneFileChanged, OneMutation, CleanBut, VerdictsAreTrue,
            OneRun, fileVars, resultVars, Return
<1>1. ASSUME NEW request \in Requests, Start(r, request) PROVE RunInv'
  BY <1>1 DEF Start
<1>2. CASE Cancel(r)
  BY <1>2 DEF Cancel
<1>3. CASE Measure(r)
  BY <1>3 DEF Measure
<1>4. CASE EndRun(r)
  BY <1>4 DEF EndRun
<1>5. CASE Survive(r)
  BY <1>5, SuiteSeesTheMutation DEF Survive
<1>6. CASE Kill(r)
  BY <1>6, SuiteSeesTheMutation DEF Kill, CountsFailure
<1>7. CASE StopTest(r)
  BY <1>7 DEF StopTest
<1>8. ASSUME NEW f \in Files, ChooseFile(r, f) PROVE RunInv'
  BY <1>8 DEF ChooseFile
<1> QED
  BY <1>1, <1>2, <1>3, <1>4, <1>5, <1>6, <1>7, <1>8

(* The steps that write: a mutation, a write that fails and the restore.   *)
LEMMA WritingStep ==
  ASSUME OneRun, RunInv, NEW r \in Runs,
         LeaveFile(r) \/ Restore(r) \/ \E s \in Sites : WriteMutation(r, s)
  PROVE  RunInv'
<1> USE DEF RunInv, Typed, Phases, Active, OneFileChanged, OneMutation, CleanBut, VerdictsAreTrue,
            OneRun, fileVars, resultVars, Return
<1>1. ASSUME NEW f \in Files, disk' \in Torn(f)
      PROVE  disk' \in [Files -> SUBSET Sites] /\ \A g \in Files \ {f} : disk'[g] = disk[g]
  BY <1>1 DEF Torn, CoveredIn
<1>2. CASE LeaveFile(r)
  BY <1>1, <1>2 DEF LeaveFile
<1>3. CASE Restore(r)
  BY <1>1, <1>3 DEF Restore, Restored
<1>4. ASSUME NEW s \in Sites, WriteMutation(r, s) PROVE RunInv'
  BY <1>4 DEF WriteMutation, Apply
<1> QED
  BY <1>2, <1>3, <1>4

LEMMA RunStep == OneRun /\ RunInv /\ [Next]_vars => RunInv'
<1> SUFFICES ASSUME OneRun, RunInv, [Next]_vars PROVE RunInv'
  OBVIOUS
<1>1. CASE Exit
  BY <1>1 DEF Exit, RunInv, Typed, Phases, Active, OneFileChanged, OneMutation, CleanBut,
              VerdictsAreTrue, OneRun, fileVars, resultVars
<1>2. CASE UNCHANGED vars
  BY <1>2 DEF vars, fileVars, resultVars, RunInv, Typed, OneFileChanged, OneMutation, CleanBut,
              VerdictsAreTrue
<1> QED
  BY <1>1, <1>2, QuietStep, WritingStep DEF Next, Proceed

-----------------------------------------------------------------------------
(* runMutations restores the source: a run that no other run disturbs      *)
(* leaves every file as it was, whichever error, cancellation or failed    *)
(* write ended it, but for a file whose restore reported an error.         *)
THEOREM OneRunRestores ==
  ASSUME OneRun
  PROVE  Spec => []SourceRestored
<1>1. RunInv => SourceRestored
  BY DEF OneRun, RunInv, OneFileChanged, CleanBut, SourceRestored
<1> QED
  BY <1>1, InitHolds, RunStep, PTL DEF Spec

(* Its verdicts are those of the suite, also when it is cancelled while a  *)
(* mutation is under test, but for a kill whose command failed of its      *)
(* deadline or could not be run; a survivor is always one the suite misses.*)
THEOREM OneRunIsTrue ==
  ASSUME OneRun
  PROVE  Spec => []VerdictsAreTrue
<1>1. RunInv => VerdictsAreTrue
  BY DEF RunInv
<1> QED
  BY <1>1, InitHolds, RunStep, PTL DEF Spec

-----------------------------------------------------------------------------
(* The books of a run, whatever other runs do meanwhile to the disk: which *)
(* sites are judged at which point of the loops over files and sites.      *)
Books ==
  /\ pc \in [Runs -> Phases]
  /\ cancelled \in [Runs -> BOOLEAN] /\ failed \in [Runs -> BOOLEAN]
  /\ selected \in [Runs -> SUBSET Files] /\ left \in [Runs -> SUBSET Files]
  /\ file \in [Runs -> Files \cup {NoFile}]
  /\ todo \in [Runs -> SUBSET Sites] /\ site \in [Runs -> SUBSET Sites]
  /\ killed \in [Runs -> SUBSET Sites] /\ survivors \in [Runs -> SUBSET Sites]

(* What is not judged of the file at hand.                                 *)
Pending(r) ==
  CASE pc[r] = "mutating" -> todo[r]
    [] pc[r] = "testing" -> todo[r] \cup site[r]
    [] OTHER -> {}

Judged(r) == killed[r] \cup survivors[r]

(* Every file that is not left is judged but for what is pending.          *)
UpToDate(r) ==
  \A s \in Sites : s \in Judged(r) <=> FileOf[s] \in selected[r] \ left[r] /\ s \notin Pending(r)

AtHand(r) ==
  /\ file[r] \in selected[r] \ left[r]
  /\ \A s \in Pending(r) : FileOf[s] = file[r]

Bookkeeping(r) ==
  /\ left[r] \subseteq selected[r]
  /\ killed[r] \cap survivors[r] = {}
  /\ pc[r] \in {"idle", "measuring"} => Judged(r) = {} /\ left[r] = selected[r]
  /\ pc[r] \in Active \cup {"idle"} => UpToDate(r) \/ failed[r]
  /\ failed[r] => pc[r] \in {"restoring", "returned", "gone"}
  /\ pc[r] \in {"mutating", "testing"} => AtHand(r)
  /\ pc[r] = "restoring" /\ ~failed[r] => todo[r] = {}
  /\ pc[r] = "testing" => \E s \in Sites : site[r] = {s} /\ s \notin todo[r]
  /\ pc[r] = "returned" /\ ~failed[r] => UpToDate(r) /\ left[r] = {}

BooksInv == Books /\ \A r \in Runs : Bookkeeping(r)

LEMMA BooksBegin == Init => BooksInv
BY DEF Init, BooksInv, Books, Bookkeeping, Phases, Active, Judged, UpToDate, Pending, AtHand

SelectsFiles == \A request \in Requests : SelectedFiles(request) \subseteq Files

LEMMA SelectionIsOfFiles == SelectsFiles
<1> SUFFICES ASSUME NEW request \in Requests PROVE SelectedFiles(request) \subseteq Files
  BY DEF SelectsFiles
<1>1. request.paths \subseteq DOMAIN FilesUnder
  BY MutationAssumption DEF RunCheckRequest
<1>2. OrElse(request.paths, ConfiguredPaths) \subseteq DOMAIN FilesUnder
  BY <1>1, MutationAssumption DEF OrElse
<1>3. \A path \in DOMAIN FilesUnder : FilesUnder[path] \subseteq Files
  BY MutationAssumption
<1> QED
  BY <1>2, <1>3 DEF SelectedFiles

Step(r) == (\E request \in Requests : Start(r, request)) \/ Cancel(r) \/ Proceed(r)

(* A step of a run leaves the books of the others alone.                   *)
Untouched(q) ==
  /\ pc'[q] = pc[q] /\ failed'[q] = failed[q]
  /\ selected'[q] = selected[q] /\ left'[q] = left[q]
  /\ file'[q] = file[q] /\ todo'[q] = todo[q] /\ site'[q] = site[q]
  /\ killed'[q] = killed[q] /\ survivors'[q] = survivors[q]

LEMMA StepOfOne ==
  ASSUME Books, NEW r \in Runs, Step(r)
  PROVE  Books' /\ \A q \in Runs \ {r} : Untouched(q)
<1> USE DEF Books, Untouched, Phases, Active, fileVars, resultVars, Return
<1>1. ASSUME NEW request \in Requests, Start(r, request)
      PROVE  Books' /\ \A q \in Runs \ {r} : Untouched(q)
  <2>1. SelectedFiles(request) \in SUBSET Files
    BY SelectionIsOfFiles DEF SelectsFiles
  <2> QED
    BY <1>1, <2>1 DEF Start
<1>2. CASE Cancel(r)
  BY <1>2 DEF Cancel
<1>3. CASE Measure(r)
  BY <1>3 DEF Measure
<1>4. CASE EndRun(r)
  BY <1>4 DEF EndRun, Partial
<1>5. CASE LeaveFile(r)
  BY <1>5 DEF LeaveFile
<1>6. CASE Survive(r)
  BY <1>6 DEF Survive
<1>7. CASE Kill(r)
  BY <1>7 DEF Kill
<1>8. CASE StopTest(r)
  BY <1>8 DEF StopTest
<1>9. CASE Restore(r)
  BY <1>9 DEF Restore
<1>10. ASSUME NEW f \in Files, ChooseFile(r, f)
       PROVE  Books' /\ \A q \in Runs \ {r} : Untouched(q)
  BY <1>10 DEF ChooseFile, CoveredIn
<1>11. ASSUME NEW s \in Sites, WriteMutation(r, s)
       PROVE  Books' /\ \A q \in Runs \ {r} : Untouched(q)
  BY <1>11 DEF WriteMutation, Further
<1> QED
  BY <1>1, <1>2, <1>3, <1>4, <1>5, <1>6, <1>7, <1>8, <1>9, <1>10, <1>11 DEF Step, Proceed

(* It keeps its own.                                                       *)
LEMMA StepKeepsBooks ==
  ASSUME Books, NEW r \in Runs, Bookkeeping(r), Step(r)
  PROVE  Bookkeeping(r)'
<1> USE DEF Books, Bookkeeping, Phases, Active, Judged, UpToDate, Pending, AtHand, fileVars,
            resultVars, Return
<1>1. ASSUME NEW request \in Requests, Start(r, request) PROVE Bookkeeping(r)'
  BY <1>1 DEF Start
<1>2. CASE Cancel(r)
  BY <1>2 DEF Cancel
<1>3. CASE Measure(r)
  BY <1>3 DEF Measure
<1>4. CASE EndRun(r)
  BY <1>4 DEF EndRun, Partial
<1>5. CASE LeaveFile(r)
  BY <1>5 DEF LeaveFile
<1>6. CASE Survive(r)
  BY <1>6 DEF Survive
<1>7. CASE Kill(r)
  BY <1>7 DEF Kill
<1>8. CASE StopTest(r)
  BY <1>8 DEF StopTest
<1>9. CASE Restore(r)
  BY <1>9 DEF Restore
<1>10. ASSUME NEW f \in Files, ChooseFile(r, f) PROVE Bookkeeping(r)'
  <2> DEFINE of == CoveredIn(f)
  <2>1. of = {s \in Sites : FileOf[s] = f} /\ f \in selected[r]
    BY <1>10 DEF ChooseFile, CoveredIn
  <2>2. CASE of = {}
    BY <1>10, <2>1, <2>2 DEF ChooseFile
  <2>3. CASE of # {}
    BY <1>10, <2>1, <2>3 DEF ChooseFile
  <2> QED
    BY <2>2, <2>3
<1>11. ASSUME NEW s \in Sites, WriteMutation(r, s) PROVE Bookkeeping(r)'
  BY <1>11 DEF WriteMutation, Further
<1> QED
  BY <1>1, <1>2, <1>3, <1>4, <1>5, <1>6, <1>7, <1>8, <1>9, <1>10, <1>11 DEF Step, Proceed

LEMMA BooksStep == BooksInv /\ [Next]_vars => BooksInv'
<1> SUFFICES ASSUME BooksInv, [Next]_vars PROVE BooksInv'
  OBVIOUS
<1> USE DEF BooksInv
<1>1. CASE Exit
  BY <1>1 DEF Exit, Books, Bookkeeping, Phases, Active, Judged, UpToDate, Pending, fileVars,
              resultVars
<1>2. CASE UNCHANGED vars
  BY <1>2 DEF vars, fileVars, resultVars, Books, Bookkeeping, Judged, UpToDate, Pending, AtHand
<1>3. ASSUME NEW r \in Runs, Step(r) PROVE BooksInv'
  <2>1. Books' /\ Bookkeeping(r)' /\ \A q \in Runs \ {r} : Untouched(q)
    BY <1>3, StepOfOne, StepKeepsBooks
  <2>2. ASSUME NEW q \in Runs \ {r} PROVE Bookkeeping(q)'
    BY <2>1 DEF Untouched, Bookkeeping, Judged, UpToDate, Pending, AtHand
  <2> QED
    BY <2>1, <2>2
<1> QED
  BY <1>1, <1>2, <1>3 DEF Next, Step


-----------------------------------------------------------------------------
(* The response about one run.  The files of the repository and the sites  *)
(* are finite, so every count is a number.                                 *)
Results(r) == {ResultOf(r, f) : f \in selected[r]}

LEMMA CountsAreNumbers ==
  ASSUME BooksInv, NEW r \in Runs, NEW f \in Files
  PROVE  /\ Cardinality(CoveredIn(f)) \in Nat
         /\ IsFiniteSet(survivors[r]) /\ IsFiniteSet(selected[r])
         /\ Cardinality(killed[r] \cap CoveredIn(f)) \in Nat
         /\ Cardinality(survivors[r] \cap CoveredIn(f)) \in Nat
         /\ Uncovered[f] \in Nat
<1>1. IsFiniteSet(CoveredIn(f))
  BY FS_Subset, MutationAssumption DEF CoveredIn
<1>2. IsFiniteSet(killed[r] \cap CoveredIn(f)) /\ IsFiniteSet(survivors[r] \cap CoveredIn(f))
  BY <1>1, FS_Intersection
<1>3. survivors[r] \in SUBSET Sites /\ selected[r] \in SUBSET Files
  BY DEF BooksInv, Books
<1>4. IsFiniteSet(survivors[r]) /\ IsFiniteSet(selected[r])
  BY <1>3, FS_Subset, MutationAssumption
<1> QED
  BY <1>1, <1>2, <1>4, FS_CardinalityType, MutationAssumption

(* Every site of a file of a complete run is counted once.                 *)
LEMMA SitesAddUp ==
  ASSUME BooksInv, NEW r \in Runs, pc[r] = "returned", ~failed[r], NEW f \in selected[r]
  PROVE  Cardinality(CoveredIn(f)) =
           Cardinality(killed[r] \cap CoveredIn(f)) + Cardinality(survivors[r] \cap CoveredIn(f))
<1> DEFINE dead == killed[r] \cap CoveredIn(f)
           alive == survivors[r] \cap CoveredIn(f)
<1>1. CoveredIn(f) = dead \cup alive /\ dead \cap alive = {}
  BY DEF BooksInv, Books, Bookkeeping, UpToDate, Judged, Pending, CoveredIn
<1>2. IsFiniteSet(CoveredIn(f))
  BY FS_Subset, MutationAssumption DEF CoveredIn
<1>3. IsFiniteSet(dead) /\ IsFiniteSet(alive)
  BY <1>2, FS_Intersection
<1>4. Cardinality(dead \cup alive) = Cardinality(dead) + Cardinality(alive) - Cardinality(dead \cap alive)
  BY <1>3, FS_Union
<1>5. Cardinality(dead) \in Nat /\ Cardinality(alive) \in Nat
  BY <1>3, FS_CardinalityType
<1>6. Cardinality(dead \cap alive) = 0
  BY <1>1, FS_EmptySet
<1> HIDE DEF dead, alive
<1>7. Cardinality(CoveredIn(f)) = Cardinality(dead) + Cardinality(alive)
  BY <1>1, <1>4, <1>5, <1>6
<1> QED
  BY <1>7 DEF dead, alive

(* A list about one report is as long as the report's own.                 *)
LEMMA OfOneReport ==
  ASSUME NEW p, NEW S, IsFiniteSet(S)
  PROVE  Cardinality({p} \X S) = Cardinality(S)
<1>1. IsFiniteSet({p}) /\ Cardinality({p}) = 1
  BY FS_Singleton
<1>2. Cardinality({p} \X S) = Cardinality({p}) * Cardinality(S)
  BY <1>1, FS_Product
<1>3. Cardinality(S) \in Nat
  BY FS_CardinalityType
<1> QED
  BY <1>1, <1>2, <1>3

WithSeverity(p, severity) == {x \in p.findings : x.severity = severity}

LEMMA SummaryOfOne ==
  ASSUME NEW p, IsFiniteSet(p.metrics), IsFiniteSet(p.findings)
  PROVE  newCheckResult({p}) =
           [summary |->
              [plugins |-> 1,
               metrics |-> Cardinality(p.metrics),
               findings |-> Cardinality(p.findings),
               notices |-> Cardinality(WithSeverity(p, "notice")),
               warnings |-> Cardinality(WithSeverity(p, "warning")),
               errors |-> Cardinality(WithSeverity(p, "error"))],
            reports |-> {p}]
<1>1. Cardinality({p}) = 1
  BY FS_Singleton
<1>2. UNION {{q} \X [r \in {p} |-> r.metrics][q] : q \in {p}} = {p} \X p.metrics
  OBVIOUS
<1>3. UNION {{q} \X [r \in {p} |-> r.findings][q] : q \in {p}} = {p} \X p.findings
  OBVIOUS
<1>4. ASSUME NEW severity
      PROVE  /\ UNION {{q} \X [r \in {p} |-> {x \in r.findings : x.severity = severity}][q] :
                        q \in {p}} =
                  {p} \X WithSeverity(p, severity)
             /\ Cardinality({p} \X WithSeverity(p, severity)) = Cardinality(WithSeverity(p, severity))
  <2>1. UNION {{q} \X [r \in {p} |-> {x \in r.findings : x.severity = severity}][q] : q \in {p}} =
          {p} \X WithSeverity(p, severity)
    BY DEF WithSeverity
  <2>2. IsFiniteSet(WithSeverity(p, severity))
    BY FS_Subset DEF WithSeverity
  <2> QED
    BY <2>1, <2>2, OfOneReport
<1>5. Cardinality({p} \X p.metrics) = Cardinality(p.metrics)
  BY OfOneReport
<1>6. Cardinality({p} \X p.findings) = Cardinality(p.findings)
  BY OfOneReport
<1> QED
  BY <1>1, <1>2, <1>3, <1>4, <1>5, <1>6 DEF newCheckResult, Severe, Listed

(* What the metrics of a report about a run say, and of which file.        *)
MetricOf(r, f) ==
  {mutationMetric(f, "mutation.total", Cardinality(CoveredIn(f)) + Uncovered[f]),
   mutationMetric(f, "mutation.covered", Cardinality(CoveredIn(f))),
   mutationMetric(f, "mutation.uncovered", Uncovered[f]),
   mutationMetric(f, "mutation.killed", Cardinality(killed[r] \cap CoveredIn(f))),
   mutationMetric(f, "mutation.survived", Cardinality(survivors[r] \cap CoveredIn(f)))}

Names == {"mutation.total", "mutation.covered", "mutation.uncovered", "mutation.killed",
          "mutation.survived", "mutation.killed.percent"}

LEMMA MetricsOfOneFile ==
  ASSUME BooksInv, NEW r \in Runs, NEW f \in Files
  PROVE  /\ MetricOf(r, f) \subseteq mutationMetrics(ResultOf(r, f))
         /\ mutationMetrics(ResultOf(r, f)) \subseteq QualityMetric
         /\ \A m \in mutationMetrics(ResultOf(r, f)) : m.path = f
         /\ \A m, n \in mutationMetrics(ResultOf(r, f)) : m.name = n.name => m = n
<1> DEFINE dead == Cardinality(killed[r] \cap CoveredIn(f))
           alive == Cardinality(survivors[r] \cap CoveredIn(f))
           covered == Cardinality(CoveredIn(f))
<1>1. dead \in Nat /\ alive \in Nat /\ covered \in Nat /\ Uncovered[f] \in Nat
  BY CountsAreNumbers
<1>2. mutationMetrics(ResultOf(r, f)) =
        {mutationMetric(f, "mutation.total", covered + Uncovered[f]),
         mutationMetric(f, "mutation.covered", covered),
         mutationMetric(f, "mutation.uncovered", Uncovered[f]),
         mutationMetric(f, "mutation.killed", dead),
         mutationMetric(f, "mutation.survived", alive)}
          \cup {[name |-> "mutation.killed.percent", path |-> f,
                 value |-> <<dead * 100, t>>] : t \in {dead + alive} \ {0}}
  BY DEF mutationMetrics, ResultOf
<1> HIDE DEF dead, alive, covered
<1>3. \A t \in {dead + alive} \ {0} : t = dead + alive /\ t \in Nat \ {0}
  BY <1>1
<1>4. dead * 100 \in Nat /\ covered + Uncovered[f] \in Nat
  BY <1>1
<1>5. mutationMetrics(ResultOf(r, f)) \subseteq QualityMetric
  BY <1>1, <1>2, <1>3, <1>4 DEF mutationMetric, QualityMetric
<1>6. \A m \in mutationMetrics(ResultOf(r, f)) : m.path = f
  BY <1>2 DEF mutationMetric
<1>7. \A m, n \in mutationMetrics(ResultOf(r, f)) : m.name = n.name => m = n
  BY <1>2, <1>3 DEF mutationMetric
<1>8. MetricOf(r, f) \subseteq mutationMetrics(ResultOf(r, f))
  BY <1>2 DEF MetricOf, dead, alive, covered
<1> QED
  BY <1>5, <1>6, <1>7, <1>8

Metrics(r) == UNION {mutationMetrics(result) : result \in Results(r)}

LEMMA MetricsOfARun ==
  ASSUME BooksInv, NEW r \in Runs
  PROVE  /\ Metrics(r) \subseteq QualityMetric
         /\ \A m, n \in Metrics(r) : m.name = n.name /\ m.path = n.path => m = n
         /\ \A f \in selected[r] : MetricOf(r, f) \subseteq Metrics(r)
         /\ IsFiniteSet(Metrics(r))
<1>1. selected[r] \subseteq Files
  BY DEF BooksInv, Books
<1>2. Metrics(r) = UNION {mutationMetrics(ResultOf(r, f)) : f \in selected[r]}
  BY DEF Metrics, Results
<1>3. \A m \in Metrics(r) : m.path \in selected[r] /\ m \in mutationMetrics(ResultOf(r, m.path))
  BY <1>1, <1>2, MetricsOfOneFile
<1>4. Metrics(r) \subseteq QualityMetric
  BY <1>1, <1>3, MetricsOfOneFile
<1>5. \A m, n \in Metrics(r) : m.name = n.name /\ m.path = n.path => m = n
  BY <1>1, <1>3, MetricsOfOneFile
<1>6. \A f \in selected[r] : MetricOf(r, f) \subseteq Metrics(r)
  BY <1>1, <1>2, MetricsOfOneFile
<1>7. IsFiniteSet(Metrics(r))
  <2> DEFINE key == [m \in Metrics(r) |-> <<m.name, m.path>>]
  <2>1. \A m \in Metrics(r) : m.name \in Names /\ m.path \in Files
    BY <1>4 DEF QualityMetric, Names
  <2>2. key \in Injection(Metrics(r), Names \X Files)
    BY <1>5, <2>1 DEF Injection, IsInjective
  <2>3. IsFiniteSet(Names)
    <3>1. Names = {} \cup {"mutation.total"} \cup {"mutation.covered"} \cup {"mutation.uncovered"}
                  \cup {"mutation.killed"} \cup {"mutation.survived"} \cup {"mutation.killed.percent"}
      BY DEF Names
    <3> QED
      BY <3>1, FS_EmptySet, FS_AddElement
  <2>4. IsFiniteSet(Names \X Files)
    BY <2>3, FS_Product, MutationAssumption
  <2> QED
    BY <2>2, <2>4, FS_Injection
<1> QED
  BY <1>4, <1>5, <1>6, <1>7

(* The findings about a run: a notice for each survivor, an error for each *)
(* file that exceeds a limit.                                              *)
Findings(r) ==
  UNION {survivorFindings(result) \cup thresholdFindings(result) : result \in Results(r)}

Notice(s) ==
  [rule |-> "surviving-mutation", path |-> FileOf[s], severity |-> "notice",
   site |-> {s}, actual |-> {}, limit |-> {}]

Notices(r) == {Notice(s) : s \in survivors[r]}

Passed(r, f) == Cardinality(survivors[r] \cap CoveredIn(f))

TooUncovered(r) == {f \in selected[r] : Uncovered[f] > MaximumUncovered}
TooWeak(r) == {f \in selected[r] : Passed(r, f) > MaximumSurvivors}

UncoveredError(f) ==
  mutationThresholdFinding("maximum-uncovered-mutations", f, Uncovered[f], MaximumUncovered)
SurvivorsError(r, f) ==
  mutationThresholdFinding("maximum-surviving-mutations", f, Passed(r, f), MaximumSurvivors)

Errors(r) ==
  {UncoveredError(f) : f \in TooUncovered(r)} \cup {SurvivorsError(r, f) : f \in TooWeak(r)}

LEMMA FindingsOfARun ==
  ASSUME BooksInv, NEW r \in Runs, pc[r] = "returned", ~failed[r]
  PROVE  Findings(r) = Notices(r) \cup Errors(r)
<1>1. \A f \in selected[r] :
        survivorFindings(ResultOf(r, f)) = {Notice(s) : s \in survivors[r] \cap CoveredIn(f)}
  BY DEF survivorFindings, ResultOf, Notice, CoveredIn
<1>2. \A s \in survivors[r] : FileOf[s] \in selected[r] /\ s \in CoveredIn(FileOf[s])
  BY DEF BooksInv, Books, Bookkeeping, UpToDate, Judged, Pending, CoveredIn
<1>3. Notices(r) = UNION {survivorFindings(ResultOf(r, f)) : f \in selected[r]}
  BY <1>1, <1>2 DEF Notices
<1>4. \A f \in selected[r] :
        thresholdFindings(ResultOf(r, f)) =
          {UncoveredError(g) : g \in {f} \cap TooUncovered(r)}
            \cup {SurvivorsError(r, g) : g \in {f} \cap TooWeak(r)}
  BY DEF thresholdFindings, Exceeding, ResultOf, TooUncovered, TooWeak, Passed, UncoveredError,
         SurvivorsError
<1>5. Errors(r) = UNION {thresholdFindings(ResultOf(r, f)) : f \in selected[r]}
  BY <1>4 DEF Errors, TooUncovered, TooWeak
<1>6. Findings(r) = UNION {survivorFindings(ResultOf(r, f)) \cup thresholdFindings(ResultOf(r, f)) :
                             f \in selected[r]}
  BY DEF Findings, Results
<1> QED
  BY <1>3, <1>5, <1>6

LEMMA FindingsAreFindings ==
  ASSUME BooksInv, NEW r \in Runs
  PROVE  Notices(r) \cup Errors(r) \subseteq QualityFinding
<1>1. Notices(r) \subseteq QualityFinding
  BY MutationAssumption DEF Notices, Notice, QualityFinding, FindingSeverity, BooksInv, Books
<1>2. \A f \in selected[r] : f \in Files /\ Passed(r, f) \in Nat /\ Uncovered[f] \in Nat
  BY CountsAreNumbers DEF Passed, BooksInv, Books
<1>3. Errors(r) \subseteq QualityFinding
  BY <1>2, LimitAssumption
     DEF Errors, TooUncovered, TooWeak, UncoveredError, SurvivorsError, mutationThresholdFinding,
         QualityFinding, FindingSeverity
<1> QED
  BY <1>1, <1>3

LEMMA FindingsAreUnique ==
  ASSUME BooksInv, NEW r \in Runs,
         NEW a \in Notices(r) \cup Errors(r), NEW b \in Notices(r) \cup Errors(r),
         a.rule = b.rule, a.path = b.path, a.site = b.site
  PROVE  a = b
<1> USE DEF Notices, Notice, Errors, UncoveredError, SurvivorsError, mutationThresholdFinding
<1>1. CASE a \in Notices(r)
  BY <1>1
<1>2. CASE a \in {UncoveredError(f) : f \in TooUncovered(r)}
  BY <1>2
<1>3. CASE a \in {SurvivorsError(r, f) : f \in TooWeak(r)}
  BY <1>3
<1> QED
  BY <1>1, <1>2, <1>3

(* There are as many notices as survivors, and finitely many errors.       *)
LEMMA FindingsAreCounted ==
  ASSUME BooksInv, NEW r \in Runs
  PROVE  /\ IsFiniteSet(Notices(r)) /\ Cardinality(Notices(r)) = Cardinality(survivors[r])
         /\ IsFiniteSet(Errors(r))
<1> DEFINE notice == [s \in survivors[r] |-> Notice(s)]
           uncovered == [f \in TooUncovered(r) |-> UncoveredError(f)]
           weak == [f \in TooWeak(r) |-> SurvivorsError(r, f)]
<1>1. survivors[r] \in SUBSET Sites /\ selected[r] \in SUBSET Files
  BY DEF BooksInv, Books
<1>2. IsFiniteSet(survivors[r]) /\ IsFiniteSet(selected[r])
  BY <1>1, FS_Subset, MutationAssumption
<1>3. IsFiniteSet(TooUncovered(r)) /\ IsFiniteSet(TooWeak(r))
  BY <1>2, FS_Subset DEF TooUncovered, TooWeak
<1>4. notice \in Bijection(survivors[r], Notices(r))
  <2>1. \A s, t \in survivors[r] : Notice(s) = Notice(t) => s = t
    <3> SUFFICES ASSUME NEW s \in survivors[r], NEW t \in survivors[r], Notice(s) = Notice(t)
                 PROVE  s = t
      OBVIOUS
    <3>1. Notice(s).site = {s} /\ Notice(t).site = {t}
      BY DEF Notice
    <3> QED
      BY <3>1
  <2>2. notice \in [survivors[r] -> Notices(r)]
    BY DEF Notices
  <2>3. \A x \in Notices(r) : \E s \in survivors[r] : notice[s] = x
    BY DEF Notices
  <2> QED
    BY <2>1, <2>2, <2>3 DEF Bijection, Injection, IsInjective, Surjection
<1>5. uncovered \in Surjection(TooUncovered(r), {UncoveredError(f) : f \in TooUncovered(r)})
  BY DEF Surjection
<1>6. weak \in Surjection(TooWeak(r), {SurvivorsError(r, f) : f \in TooWeak(r)})
  BY DEF Surjection
<1>7. IsFiniteSet(Notices(r)) /\ Cardinality(Notices(r)) = Cardinality(survivors[r])
  BY <1>2, <1>4, FS_Bijection DEF ExistsBijection
<1>8. /\ IsFiniteSet({UncoveredError(f) : f \in TooUncovered(r)})
      /\ IsFiniteSet({SurvivorsError(r, f) : f \in TooWeak(r)})
  BY <1>3, <1>5, <1>6, FS_Surjection
<1>9. IsFiniteSet(Errors(r))
  BY <1>8, FS_Union DEF Errors
<1> QED
  BY <1>7, <1>9

(* No notice is an error.                                                  *)
LEMMA FindingsBySeverity ==
  ASSUME NEW r \in Runs
  PROVE  /\ \A x \in Notices(r) : x.severity = "notice"
         /\ \A x \in Errors(r) : x.severity = "error"
BY DEF Notices, Notice, Errors, UncoveredError, SurvivorsError, mutationThresholdFinding

TheReport(r) == [plugin |-> "mutation", metrics |-> Metrics(r), findings |-> Findings(r)]

LEMMA ResponseOfARun ==
  ASSUME BooksInv, NEW r \in Runs, pc[r] = "returned", ~failed[r]
  PROVE  Response(r) =
           [summary |->
              [plugins |-> 1,
               metrics |-> Cardinality(Metrics(r)),
               findings |-> Cardinality(Findings(r)),
               notices |-> Cardinality(Notices(r)),
               warnings |-> 0,
               errors |-> Cardinality(Errors(r))],
            reports |-> {TheReport(r)}]
<1> DEFINE p == TheReport(r)
<1>1. left[r] = {}
  BY DEF BooksInv, Bookkeeping
<1>2. Response(r) = newCheckResult({p})
  BY <1>1 DEF Response, report, TheReport, Metrics, Findings, Results
<1>3. p.metrics = Metrics(r) /\ p.findings = Findings(r)
  BY DEF TheReport
<1>4. IsFiniteSet(Findings(r))
  BY FindingsOfARun, FindingsAreCounted, FS_Union
<1>5. IsFiniteSet(p.metrics) /\ IsFiniteSet(p.findings)
  BY <1>3, <1>4, MetricsOfARun
<1>6. /\ WithSeverity(p, "notice") = Notices(r)
      /\ WithSeverity(p, "warning") = {}
      /\ WithSeverity(p, "error") = Errors(r)
  BY <1>3, FindingsOfARun, FindingsBySeverity DEF WithSeverity
<1>7. Cardinality(WithSeverity(p, "warning")) = 0
  BY <1>6, FS_EmptySet
<1> HIDE DEF p
<1>8. newCheckResult({p}) =
           [summary |->
              [plugins |-> 1,
               metrics |-> Cardinality(Metrics(r)),
               findings |-> Cardinality(Findings(r)),
               notices |-> Cardinality(Notices(r)),
               warnings |-> 0,
               errors |-> Cardinality(Errors(r))],
            reports |-> {p}]
  BY <1>3, <1>5, <1>6, <1>7, SummaryOfOne
<1> QED
  BY <1>2, <1>8 DEF p

(* The value that a metric was given is the one that is found again.       *)
LEMMA ValueOfMetric ==
  ASSUME BooksInv, NEW r \in Runs, NEW f \in selected[r], NEW name, NEW v,
         mutationMetric(f, name, v) \in MetricOf(r, f)
  PROVE  Value(TheReport(r), f, name) = v
<1> DEFINE m == mutationMetric(f, name, v)
<1>1. m \in Metrics(r) /\ m.path = f /\ m.name = name /\ m.value = <<v, 1>>
  BY MetricsOfARun DEF mutationMetric
<1>2. \A n \in Metrics(r) : n.path = f /\ n.name = name => n = m
  BY <1>1, MetricsOfARun
<1>3. (CHOOSE n \in Metrics(r) : n.path = f /\ n.name = name) = m
  BY <1>1, <1>2
<1>4. TheReport(r).metrics = Metrics(r)
  BY DEF TheReport
<1>5. Value(TheReport(r), f, name) = (CHOOSE n \in Metrics(r) : n.path = f /\ n.name = name).value[1]
  BY <1>4, Zenon DEF Value
<1> HIDE DEF m
<1>6. Value(TheReport(r), f, name) = m.value[1]
  BY <1>3, <1>5
<1> QED
  BY <1>1, <1>6

LEMMA ResponseAddsUp ==
  ASSUME BooksInv, NEW r \in Runs, pc[r] = "returned", ~failed[r]
  PROVE  AddsUp(Response(r), selected[r], survivors[r])
<1> DEFINE response == Response(r)
           summary == response.summary
<1>1. /\ summary.plugins = 1 /\ summary.metrics = Cardinality(Metrics(r))
      /\ summary.findings = Cardinality(Findings(r)) /\ summary.warnings = 0
      /\ summary.notices = Cardinality(Notices(r)) /\ summary.errors = Cardinality(Errors(r))
      /\ response.reports = {TheReport(r)}
  BY ResponseOfARun
<1>2. /\ IsFiniteSet(Notices(r)) /\ IsFiniteSet(Errors(r)) /\ IsFiniteSet(Metrics(r))
      /\ Findings(r) = Notices(r) \cup Errors(r) /\ IsFiniteSet(Findings(r))
  <2>1. IsFiniteSet(Notices(r)) /\ IsFiniteSet(Errors(r)) /\ Findings(r) = Notices(r) \cup Errors(r)
    BY FindingsAreCounted, FindingsOfARun
  <2>2. IsFiniteSet(Metrics(r))
    BY MetricsOfARun
  <2>3. IsFiniteSet(Notices(r) \cup Errors(r))
    BY <2>1, FS_Union
  <2> QED
    BY <2>1, <2>2, <2>3
<1>3. /\ Cardinality(Notices(r)) \in Nat /\ Cardinality(Errors(r)) \in Nat
      /\ Cardinality(Metrics(r)) \in Nat /\ Cardinality(Findings(r)) \in Nat
  BY <1>2, FS_CardinalityType
<1>4. response \in RunCheckResponse
  <2>1. TheReport(r) \in PluginReport
    <3>1. "mutation" \in PluginNames
      BY MutationAssumption DEF PluginNames
    <3>2. Findings(r) \subseteq QualityFinding
      BY <1>2, FindingsAreFindings
    <3> QED
      BY <3>1, <3>2, MetricsOfARun DEF TheReport, PluginReport
  <2>2. response =
          [summary |->
             [plugins |-> 1, metrics |-> Cardinality(Metrics(r)),
              findings |-> Cardinality(Findings(r)), notices |-> Cardinality(Notices(r)),
              warnings |-> 0, errors |-> Cardinality(Errors(r))],
           reports |-> {TheReport(r)}]
    BY ResponseOfARun
  <2> QED
    BY <1>3, <2>1, <2>2 DEF RunCheckResponse, QualitySummary
<1>5. HasUniqueIds(TheReport(r))
  BY <1>2, MetricsOfARun, FindingsAreUnique DEF HasUniqueIds, TheReport
<1>6. ASSUME NEW f \in selected[r]
      PROVE  Value(TheReport(r), f, "mutation.total") =
               Value(TheReport(r), f, "mutation.killed") + Value(TheReport(r), f, "mutation.survived")
                 + Value(TheReport(r), f, "mutation.uncovered")
  <2>1. f \in Files
    BY DEF BooksInv, Books
  <2>2. /\ Value(TheReport(r), f, "mutation.total") = Cardinality(CoveredIn(f)) + Uncovered[f]
        /\ Value(TheReport(r), f, "mutation.killed") = Cardinality(killed[r] \cap CoveredIn(f))
        /\ Value(TheReport(r), f, "mutation.survived") = Cardinality(survivors[r] \cap CoveredIn(f))
        /\ Value(TheReport(r), f, "mutation.uncovered") = Uncovered[f]
    <3>1. ASSUME NEW name, NEW v, mutationMetric(f, name, v) \in MetricOf(r, f)
          PROVE  Value(TheReport(r), f, name) = v
      BY <3>1, ValueOfMetric
    <3> QED
      BY <3>1 DEF MetricOf
  <2> QED
    BY <2>1, <2>2, SitesAddUp, CountsAreNumbers
<1>7. summary.notices = Cardinality(survivors[r])
  BY <1>1, FindingsAreCounted
<1>8. summary.findings = summary.notices + summary.warnings + summary.errors
  <2>1. Notices(r) \cap Errors(r) = {}
    BY FindingsBySeverity
  <2>2. Cardinality(Notices(r) \cap Errors(r)) = 0
    BY <2>1, FS_EmptySet
  <2>3. Cardinality(Findings(r)) =
          Cardinality(Notices(r)) + Cardinality(Errors(r)) - Cardinality(Notices(r) \cap Errors(r))
    BY <1>2, FS_Union
  <2> QED
    BY <1>1, <1>3, <2>2, <2>3
<1>9. summary.errors = 0 <=>
        \A f \in selected[r] : /\ Cardinality(survivors[r] \cap CoveredIn(f)) <= MaximumSurvivors
                             /\ Uncovered[f] <= MaximumUncovered
  <2>1. summary.errors = 0 <=> Errors(r) = {}
    BY <1>1, <1>2, FS_EmptySet
  <2>2. Errors(r) = {} <=> \A f \in selected[r] : ~(Passed(r, f) > MaximumSurvivors)
                                               /\ ~(Uncovered[f] > MaximumUncovered)
    BY DEF Errors, TooUncovered, TooWeak
  <2>3. \A f \in selected[r] : Passed(r, f) \in Nat /\ Uncovered[f] \in Nat
    BY CountsAreNumbers DEF Passed, BooksInv, Books
  <2>4. MaximumSurvivors \in Nat /\ MaximumUncovered \in Nat
    BY LimitAssumption
  <2> QED
    BY <2>1, <2>2, <2>3, <2>4 DEF Passed
<1> HIDE DEF response
<1>10. \A p \in response.reports :
         /\ HasUniqueIds(p)
         /\ \A f \in selected[r] :
              Value(p, f, "mutation.total") =
                Value(p, f, "mutation.killed") + Value(p, f, "mutation.survived")
                  + Value(p, f, "mutation.uncovered")
  BY <1>1, <1>5, <1>6
<1>11. AddsUp(response, selected[r], survivors[r])
  BY <1>4, <1>7, <1>8, <1>9, <1>10 DEF AddsUp
<1> QED
  BY <1>11 DEF response

(* The report of a run that returns no error is complete and adds up,      *)
(* however many runs share the repository: every covered site of every     *)
(* selected file has one verdict, and the response counts each once.       *)
THEOREM RunsReportEverything == Spec => []ReportIsComplete
<1>1. BooksInv => ReportIsComplete
  <2> SUFFICES ASSUME BooksInv, NEW r \in Runs
               PROVE  /\ killed[r] \cap survivors[r] = {}
                      /\ pc[r] = "returned" /\ ~failed[r] =>
                           /\ killed[r] \cup survivors[r] = UNION {CoveredIn(f) : f \in selected[r]}
                           /\ AddsUp(Response(r), selected[r], survivors[r])
    BY DEF ReportIsComplete
  <2>1. killed[r] \cap survivors[r] = {}
    BY DEF BooksInv, Bookkeeping
  <2>2. ASSUME pc[r] = "returned", ~failed[r]
        PROVE  killed[r] \cup survivors[r] = UNION {CoveredIn(f) : f \in selected[r]}
    BY <2>2 DEF BooksInv, Books, Bookkeeping, UpToDate, Judged, Pending, CoveredIn
  <2> QED
    BY <2>1, <2>2, ResponseAddsUp
<1> QED
  BY <1>1, BooksBegin, BooksStep, PTL DEF Spec

=============================================================================
