----------------------------- MODULE MutationRun -----------------------------
(***************************************************************************)
(* Mutation execution (pkg/plugin/mutation/evaluator.go) on behalf of a    *)
(* RunCheck request (cmd/goconduct/internal/module/quality).  Every run is *)
(* one call of Evaluate: it measures the unchanged suite, then writes one  *)
(* mutation after the other into the repository's own source, runs the     *)
(* suite and finally writes back what it read first.                       *)
(*                                                                         *)
(* A file is abstracted to the set of sites at which its text differs from *)
(* what the author wrote.  The suite fails on a repository that differs at *)
(* a detectable site.  Other evaluators of a request write nothing and are *)
(* left out.  The server runs one Evaluate per RunCheck request, and       *)
(* requests are concurrent.                                                *)
(***************************************************************************)
EXTENDS MutationReport, Sequences

CONSTANTS
  Runs,           \* calls of Evaluate
  Files,          \* the production Go files of the repository
  NoFile,
  Sites,          \* the covered mutation sites
  FileOf,         \* the file of each site
  Detectable,     \* the sites at which the suite notices a change
  Uncovered,      \* how many more mutation sites each file has
  FilesUnder,     \* the production Go files under each path that can be selected
  ConfiguredPaths,
  Registered,     \* the evaluators in the catalog
  ConfiguredPlugins,
  Requests,       \* RunCheck requests that select the mutation evaluator
  FilesMayFail,   \* whether reading, parsing or writing a file may fail
  MayTimeOut,     \* whether a suite may exceed its deadline
  CommandsMayFail,\* whether a command may fail whatever its tests say: it
                  \* cannot be started, or its output cannot be read
  MayExit         \* whether the process may end while a run is in progress

PluginNames == Registered \cup UNION {request.plugins : request \in Requests}

INSTANCE QualityMessages
  WITH CheckPaths <- DOMAIN FilesUnder,
       ReportPaths <- Files,
       MetricNames <- {"mutation.total", "mutation.covered", "mutation.uncovered",
                       "mutation.killed", "mutation.survived", "mutation.killed.percent"},
       FindingRules <- {"surviving-mutation", "maximum-uncovered-mutations",
                        "maximum-surviving-mutations"},
       FindingSites <- Sites

ASSUME MutationAssumption ==
  /\ IsFiniteSet(Files) /\ NoFile \notin Files
  /\ IsFiniteSet(Sites)
  /\ FileOf \in [Sites -> Files]
  /\ Detectable \subseteq Sites
  /\ Uncovered \in [Files -> Nat]
  /\ FilesUnder \in [DOMAIN FilesUnder -> SUBSET Files]
  /\ ConfiguredPaths \subseteq DOMAIN FilesUnder
  /\ "mutation" \in ConfiguredPlugins /\ ConfiguredPlugins \subseteq Registered
  /\ Requests \subseteq RunCheckRequest
  /\ {FilesMayFail, MayTimeOut, CommandsMayFail, MayExit} \subseteq BOOLEAN

VARIABLES
  disk,        \* the sites at which each file is changed
  pc,
  cancelled,   \* whether the context of the run is done
  selected,    \* the files that the request selects
  left,        \* the files that the run has yet to analyze
  file,        \* the file that runMutations works on
  original,    \* what runMutations read from it
  todo,        \* its sites that the run has yet to mutate
  site,        \* the sites of the mutation under test: one, or none
  killed, survivors,
  failed,      \* whether the run returns an error
  inconclusive,\* history: mutations whose command failed although the suite
               \* would have passed: for its deadline, or as it could not run
  unrestored   \* history: files whose restore reported an error

fileVars == <<file, original, todo>>
resultVars == <<killed, survivors, inconclusive>>
vars == <<disk, pc, cancelled, selected, left, fileVars, site, resultVars, failed, unrestored>>

Active == {"measuring", "choosing", "mutating", "testing", "restoring"}

Init ==
  /\ disk = [f \in Files |-> {}]
  /\ pc = [r \in Runs |-> "idle"]
  /\ cancelled = [r \in Runs |-> FALSE]
  /\ selected = [r \in Runs |-> {}]
  /\ left = [r \in Runs |-> {}]
  /\ file = [r \in Runs |-> NoFile]
  /\ original = [r \in Runs |-> {}]
  /\ todo = [r \in Runs |-> {}]
  /\ site = [r \in Runs |-> {}]
  /\ killed = [r \in Runs |-> {}]
  /\ survivors = [r \in Runs |-> {}]
  /\ failed = [r \in Runs |-> FALSE]
  /\ inconclusive = [r \in Runs |-> {}]
  /\ unrestored = {}

(* What the suite says of the repository as it is on disk. *)
SuiteFails == \E f \in Files : disk[f] \cap Detectable # {}

Return(r, error) ==
  /\ pc' = [pc EXCEPT ![r] = "returned"]
  /\ failed' = [failed EXCEPT ![r] = error]

(* What a request leaves out comes from the configuration.                 *)
OrElse(chosen, configured) == IF chosen = {} THEN configured ELSE chosen

SelectedFiles(request) ==
  UNION {FilesUnder[path] : path \in OrElse(request.paths, ConfiguredPaths)}

IsRefused(request) ==
  \/ ~(OrElse(request.plugins, ConfiguredPlugins) \subseteq Registered)
  \/ SelectedFiles(request) = {}

(* A request arrives.                                                      *)
Start(r, request) ==
  /\ pc[r] = "idle"
  /\ IF IsRefused(request)
     THEN Return(r, TRUE) /\ UNCHANGED <<selected, left>>
     ELSE /\ pc' = [pc EXCEPT ![r] = "measuring"]
          /\ selected' = [selected EXCEPT ![r] = SelectedFiles(request)]
          /\ left' = [left EXCEPT ![r] = SelectedFiles(request)]
          /\ UNCHANGED failed
  /\ UNCHANGED <<disk, cancelled, fileVars, site, resultVars, unrestored>>

Cancel(r) ==
  /\ pc[r] \in Active
  /\ ~cancelled[r]
  /\ cancelled' = [cancelled EXCEPT ![r] = TRUE]
  /\ UNCHANGED <<selected, disk, pc, left, fileVars, site, resultVars, failed, unrestored>>

(* runCoverage: the unchanged suite must pass. *)
Measure(r) ==
  /\ pc[r] = "measuring"
  /\ \/ (cancelled[r] \/ SuiteFails \/ FilesMayFail \/ CommandsMayFail) /\ Return(r, TRUE)
     \/ ~SuiteFails /\ pc' = [pc EXCEPT ![r] = "choosing"] /\ UNCHANGED failed
  /\ UNCHANGED <<selected, disk, cancelled, left, fileVars, site, resultVars, unrestored>>

(* The covered sites of a file.                                            *)
CoveredIn(f) == {s \in Sites : FileOf[s] = f}

(* analyze turns to the next file, and runMutations reads it; a file       *)
(* without a covered site is left alone.                                   *)
ChooseFile(r, f) ==
  /\ pc[r] = "choosing"
  /\ f \in left[r]
  /\ ~cancelled[r]
  /\ left' = [left EXCEPT ![r] = @ \ {f}]
  /\ IF CoveredIn(f) # {}
     THEN /\ pc' = [pc EXCEPT ![r] = "mutating"]
          /\ file' = [file EXCEPT ![r] = f]
          /\ original' = [original EXCEPT ![r] = disk[f]]
          /\ todo' = [todo EXCEPT ![r] = CoveredIn(f)]
     ELSE UNCHANGED <<pc, fileVars>>
  /\ UNCHANGED <<selected, disk, cancelled, site, resultVars, failed, unrestored>>

(* The mutant hands out what it has as if it were the whole report. *)
PartialMutant(r) == FALSE
Partial(r) == left[r] # {}

(* analyze ends: every file is done, the context is, or a file cannot be   *)
(* read.                                                                   *)
EndRun(r) ==
  /\ pc[r] = "choosing"
  /\ left[r] = {} \/ cancelled[r] \/ FilesMayFail
  /\ Return(r, Partial(r))
  /\ UNCHANGED <<selected, disk, cancelled, left, fileVars, site, resultVars, unrestored>>

(* Site.Apply changes what was read first, not what is there now.          *)
Apply(r, s) == original[r] \cup {s}

(* The mutant stays at the same site. *)
FurtherMutant(r, s) == todo[r]
Further(r, s) == todo[r] \ {s}

(* runMutation writes the next mutation. *)
WriteMutation(r, s) ==
  /\ pc[r] = "mutating"
  /\ s \in todo[r]
  /\ ~cancelled[r]
  /\ disk' = [disk EXCEPT ![file[r]] = Apply(r, s)]
  /\ todo' = [todo EXCEPT ![r] = Further(r, s)]
  /\ site' = [site EXCEPT ![r] = {s}]
  /\ pc' = [pc EXCEPT ![r] = "testing"]
  /\ UNCHANGED <<selected, cancelled, left, file, original, resultVars, failed, unrestored>>

(* What is in a file after a write to it failed: os.WriteFile truncates it *)
(* first.                                                                  *)
Torn(f) == {[disk EXCEPT ![f] = text] : text \in SUBSET CoveredIn(f)}

(* The end of the loop, and the error paths of runMutation before the      *)
(* suite runs: the deferred restore is next.                               *)
LeaveFile(r) ==
  /\ pc[r] = "mutating"
  /\ \/ todo[r] = {} /\ UNCHANGED <<disk, failed>>
     \/ /\ todo[r] # {}
        /\ \/ cancelled[r] /\ UNCHANGED disk
           \/ ~cancelled[r] /\ FilesMayFail /\ disk' \in Torn(file[r])
        /\ failed' = [failed EXCEPT ![r] = TRUE]
  /\ pc' = [pc EXCEPT ![r] = "restoring"]
  /\ UNCHANGED <<selected, cancelled, left, fileVars, site, resultVars, unrestored>>

(* The suite passed. *)
Survive(r) ==
  /\ pc[r] = "testing"
  /\ ~SuiteFails
  /\ survivors' = [survivors EXCEPT ![r] = @ \cup site[r]]
  /\ site' = [site EXCEPT ![r] = {}]
  /\ pc' = [pc EXCEPT ![r] = "mutating"]
  /\ UNCHANGED <<selected, disk, cancelled, left, fileVars, killed, inconclusive, failed, unrestored>>

(* A failed command counts as a detection, whatever it failed of, unless   *)
(* the context of the run is done: it may be the cancellation that made it *)
(* fail.  The mutant does not make that exception.                         *)
CountsFailureMutant(r) == TRUE
CountsFailure(r) == ~cancelled[r]

(* The command failed: its suite did, it ran out of its own time, or the   *)
(* runner could not run it at all.                                         *)
Kill(r) ==
  /\ pc[r] = "testing"
  /\ CountsFailure(r)
  /\ SuiteFails \/ cancelled[r] \/ MayTimeOut \/ CommandsMayFail
  /\ killed' = [killed EXCEPT ![r] = @ \cup site[r]]
  /\ inconclusive' = IF SuiteFails \/ cancelled[r]
                     THEN inconclusive
                     ELSE [inconclusive EXCEPT ![r] = @ \cup site[r]]
  /\ site' = [site EXCEPT ![r] = {}]
  /\ pc' = [pc EXCEPT ![r] = "mutating"]
  /\ UNCHANGED <<selected, disk, cancelled, left, fileVars, survivors, failed, unrestored>>

(* The command failed under a context that is done. *)
StopTest(r) ==
  /\ pc[r] = "testing"
  /\ cancelled[r]
  /\ failed' = [failed EXCEPT ![r] = TRUE]
  /\ site' = [site EXCEPT ![r] = {}]
  /\ pc' = [pc EXCEPT ![r] = "restoring"]
  /\ UNCHANGED <<selected, disk, cancelled, left, fileVars, resultVars, unrestored>>

(* The mutant restores only on the way out of a complete loop. *)
RestoredMutant(r) == IF failed[r] THEN disk[file[r]] ELSE original[r]
Restored(r) == original[r]

(* The deferred restore of runMutations; its own error ends the run too.   *)
Restore(r) ==
  /\ pc[r] = "restoring"
  /\ \/ /\ disk' = [disk EXCEPT ![file[r]] = Restored(r)]
        /\ UNCHANGED unrestored
        /\ IF failed[r] THEN Return(r, TRUE)
                        ELSE pc' = [pc EXCEPT ![r] = "choosing"] /\ UNCHANGED failed
     \/ /\ FilesMayFail
        /\ disk' \in Torn(file[r])
        /\ unrestored' = unrestored \cup {file[r]}
        /\ Return(r, TRUE)
  /\ file' = [file EXCEPT ![r] = NoFile]
  /\ original' = [original EXCEPT ![r] = {}]
  /\ todo' = [todo EXCEPT ![r] = {}]
  /\ UNCHANGED <<selected, cancelled, left, site, resultVars>>

(* The process ends: killed, or main returned without waiting for the      *)
(* handlers of requests that outlived the HTTP server's shutdown timeout.  *)
Exit ==
  /\ MayExit
  /\ \E r \in Runs : pc[r] \in Active
  /\ pc' = [r \in Runs |-> IF pc[r] \in Active THEN "gone" ELSE pc[r]]
  /\ UNCHANGED <<selected, disk, cancelled, left, fileVars, site, resultVars, failed, unrestored>>

(* What the handler answers when Evaluate returned no error.               *)
ResultOf(r, f) ==
  [path |-> f,
   total |-> Cardinality(CoveredIn(f)) + Uncovered[f],
   covered |-> Cardinality(CoveredIn(f)),
   uncovered |-> Uncovered[f],
   killed |-> Cardinality(killed[r] \cap CoveredIn(f)),
   survivors |-> survivors[r] \cap CoveredIn(f)]

Response(r) == newCheckResult({report({ResultOf(r, f) : f \in selected[r] \ left[r]})})

Proceed(r) ==
  \/ Measure(r) \/ EndRun(r) \/ LeaveFile(r) \/ Survive(r) \/ Kill(r) \/ StopTest(r) \/ Restore(r)
  \/ \E f \in Files : ChooseFile(r, f)
  \/ \E s \in Sites : WriteMutation(r, s)

Next == Exit \/ \E r \in Runs :
  \/ \E request \in Requests : Start(r, request)
  \/ Cancel(r)
  \/ Proceed(r)

(* A run that started goes on: commands end, by their deadline at the      *)
(* latest, and writes return.                                              *)
Spec == Init /\ [][Next]_vars /\ \A r \in Runs : WF_vars(Proceed(r))

-----------------------------------------------------------------------------
(* runMutations "restores the source": when no run is in progress, every   *)
(* file is as its author left it, whichever error, cancellation or failed  *)
(* write ended the runs, unless a run reported that it could not restore.  *)
SourceRestored ==
  (\A r \in Runs : pc[r] \in {"idle", "returned"}) =>
    \A f \in Files \ unrestored : disk[f] = {}

(* "A test failure means the suite detects the changed behavior": a killed *)
(* mutation is one the suite detects, also when the run was cancelled      *)
(* meanwhile, but for one whose command failed of something else, since    *)
(* the code takes every failed command for a detection; and a survivor is  *)
(* one the suite misses, without exception.                                *)
VerdictsAreTrue ==
  \A r \in Runs : /\ killed[r] \subseteq Detectable \cup inconclusive[r]
                  /\ survivors[r] \cap Detectable = {}

(* The value of the metric name of the file f in a report.                 *)
Value(p, f, name) == (CHOOSE m \in p.metrics : m.path = f /\ m.name = name).value[1]

(* A response about files of which the survivors passed adds up: each site *)
(* is counted under one verdict, the summary counts what is listed, and    *)
(* the check passes exactly if no file exceeds a limit.                    *)
AddsUp(response, files, passed) ==
  LET summary == response.summary IN
    /\ response \in RunCheckResponse
    /\ \A p \in response.reports :
         /\ HasUniqueIds(p)
         /\ \A f \in files :
              Value(p, f, "mutation.total") =
                Value(p, f, "mutation.killed") + Value(p, f, "mutation.survived")
                  + Value(p, f, "mutation.uncovered")
    /\ summary.notices = Cardinality(passed)
    /\ summary.findings = summary.notices + summary.warnings + summary.errors
    /\ summary.errors = 0 <=>
         \A f \in files : /\ Cardinality(passed \cap CoveredIn(f)) <= MaximumSurvivors
                         /\ Uncovered[f] <= MaximumUncovered

(* A run that reports no error judged every covered site of the selected   *)
(* files once, whatever command failed on the way; its response adds up.   *)
ReportIsComplete ==
  \A r \in Runs :
    /\ killed[r] \cap survivors[r] = {}
    /\ pc[r] = "returned" /\ ~failed[r] =>
         /\ killed[r] \cup survivors[r] = UNION {CoveredIn(f) : f \in selected[r]}
         /\ AddsUp(Response(r), selected[r], survivors[r])

(* A run that starts ends. *)
RunsEnd == \A r \in Runs : pc[r] = "measuring" ~> pc[r] \in {"returned", "gone"}

=============================================================================
