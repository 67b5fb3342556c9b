# A verification of goconduct in TLA+

goconduct measures the architecture and the quality of a Go repository. One Go
process analyzes the source files, publishes a dependency graph, serves it to an
Angular console over Connect RPC, refreshes it while the files change, and runs
quality checks (coverage, complexity, CRAP, duplication, size, mutations).

This directory holds TLA+ models of that program, the TLC instances that
model-check them, and TLAPS proofs. Paths below are relative to the repository's
root; `PROJECT.json` maps every definition to the lines it models.

## 1. Inventory

| Component | State | Operations | Talks to | Status |
|---|---|---|---|---|
| Graph monitor (`pkg/plugin/architecture/monitor.go`) | graph, snapshot, refresh permit (channel of one), subscribers | `freshGraph`, `run`, `currentGraph`, `subscribe` | analyzer (calls), graph service (calls and channels) | modelled, proved |
| Repository analyzer (`analyzer.go`, `functionanalysis.go`, `typeanalysis.go`) | none: reads the file system | `snapshot`, `analyze` | file system, `go list` | partly: when files are read, not what is extracted |
| Graph service (`graphservice.go`) | none | `GetGraph`, `WatchGraph`, `GetComponentTypes` | monitor, console | partly |
| Console graph store (`web/.../kernel/graph/graph.store.ts`) | graph, error, loading, refreshing, liveState, load sequence | `initialize`, `load`, `refresh`, `watch` | graph service | partly, proved |
| Component types store (`component-types.store.ts`, `component-selection.store.ts`) | types, relations, selection, collapsed set, load sequence | `load`, `select`, `toggle` | graph service, types page | modelled, proved |
| Console pages and diagrams (`web/.../contexts/architecture`, `app.routing.ts`) | history and address, filters, the selected type, drawing engines | navigation, filters, selection, drawing | stores, router, browser | partly, proved |
| Console reports (`strategy-report.ts`, `balance-report.ts`, `graph-layout.ts`, `component-tree.ts`) | none: pure | rankings, buckets, layers, matrix, map, tree | received graph | modelled, proved |
| Console startup and preferences (`main.ts`, `runtime-environment.ts`, `user-preferences.store.ts`) | application or error, density of the sidebar | bootstrap, `set` | server, `localStorage` | modelled |
| Mutation evaluator (`pkg/plugin/mutation/evaluator.go`) | the repository's own source files | `Evaluate` | process runner, file system | partly, proved |
| Process runner (`pkg/plugin/process.go`) | none | `Run` | operating system | as the mutation run sees it |
| Quality module, plugin catalog (`cmd/goconduct/internal/module/quality`, `catalog.go`, `report.go`) | registered plugins | `RunCheck`, `Evaluate` | every evaluator | partly: requests and responses |
| Server lifecycle (`cmd/goconduct/main.go`, `application.go`, `internal/library/httpserver/server.go`, `architecture/dashboard.go`) | activation flags, service context, dashboard mutex and handler, HTTP server | `Activate`, `Serve`, `initialize`, `Shutdown` | signals, clients, monitor | partly, proved |
| Component calculation (`internal/calculation/component.go`, `metrics.go`) | accumulators of the files collected so far | `collectComponentFile`, `collectRelationships`, `buildGraph`, cycles, reachability, metrics | analyzer, rules | partly; its searches proved |
| Architecture rules (`internal/architecture/rules.go`, `dependencypolicy.go`) | none: pure | rules over the graph, the configured policy | calculation | partly, proved |
| Transport and conversion (`protobuf.go`, `web/projects/lib-api-gen/src/gen/v1`) | none | conversion | console | partly: the fields that reach the console |
| Graph cache, function calculation, graph queries, path policy, other evaluators, configuration and commands, event stream, vendored messages | – | – | – | not modelled, see 5 |

Which behaviours are hard, and what makes each component correct:

* **Monitor.** The ticker and any number of requests refresh at once; files change
  under the snapshot and under the analysis; a call may fail or be cancelled at
  every point; channels of capacity one drop offers. Correct means: one refresh at
  a time; a skipped analysis would have found what is published; a successful refresh is
  as recent as its call; the published graph never goes back and catches up in the end
  (for the one exception see *Exceptions* in 3); no watcher sleeps through a change.
* **Console stores.** Answers overtake each other, events queue behind loads,
  refreshes run beside the stream, loads fail late, a reader selects another
  component before the types of the first arrive. Correct means: never an older
  graph over a newer one, current while it says `live`, the types of the component
  that was asked for last.
* **Pages.** The address and the filters copy each other, a rendering later; code,
  graph, types and engines arrive in any order or fail; a page outlives the
  surfaces it draws on. Correct means: at rest a reload shows the same, every
  diagram is closed and drawn, no engine is lost, the console comes to rest.
* **Reports.** What pages derive in several ways from one message must agree with
  the server and with each other, whatever shape the graph has.
* **Mutation run.** The program edits the user's own files. Correct means: the source
  is restored on every path, a verdict belongs to one mutation, a report is complete.
* **Calculation and rules.** The search for cycles decides before it has seen the
  whole graph; whether only tests import a component is known after the last file;
  a policy changes a graph that is already summarized. Correct means: exactly the
  strongly connected components and exactly what is reachable, no influence of tests
  on production metrics and findings but through a description of a component, and
  findings, annotations and summary that agree.
* **Lifecycle.** First requests race for one initialization that holds a mutex
  through a whole analysis, a signal arrives at any time, streams do not end by
  themselves. Correct means: one monitor per dashboard, no request punished for
  another's failure, the process ends.

## 2. Modules

| Module | Models | Extends / composes |
|---|---|---|
| `GraphFeed` | the published graph and the subscribers' channels | – |
| `GraphMonitor` | `freshGraph`, `run` and the analyzer's file-by-file reads | extends `GraphFeed`; implements `FreshGraph` |
| `FreshGraph` | the promise of `freshGraph`: one atomic, sufficiently recent analysis per call | – |
| `LiveConsole` | `GraphStore` with `GetGraph` and `WatchGraph` | extends `GraphFeed` |
| `MutationRun` | a check request and `Evaluate` of the mutation plugin, several runs on one repository | extends `MutationReport` |
| `MutationReport`, `QualityMessages` | metrics, thresholds, findings and summary of a run; the messages that carry them | – |
| `ServerLifecycle` | `runCommand`, the HTTP server and the dashboard's first request | – |
| `Digraphs` | reference definitions: reachable as the least closed set, cycles as mutual reachability | – |
| `GraphSearch` | `stronglyConnectedComponents` and `reachable`, loop turn by loop turn | extends `Digraphs` |
| `ComponentGraph` | collection, couplings, metrics, rules, summary, dependency policy | extends `Digraphs` |
| `ConsoleReports` | what the console derives from the graph of `ComponentGraph` | composes `ComponentGraph`, `GraphMessages`, `Balance`, `Strategy`, `GraphMap`, `ComponentTree` |
| `GraphMessages` | the fields of a graph that the generated messages hand to the console | – |
| `Orders` | a sorted sequence and its first members, for any strict order | – |
| `Balance`, `Strategy`, `GraphMap` | zones, buckets and ranking; groups, layers and matrix; the map and the drawer | extend `Orders` |
| `ComponentTree` | the tree of directories, the way to a component in it, and which nodes are open | – |
| `TypesStore`, `TypeMessages` | the types of one component, and their messages | – |
| `TypeDiagram` | which nodes, rows, edges and placements the diagram of types has | – |
| `Engines` | the drawing engines that components and pages own | – |
| `Address`, `PageFilters`, `Startup` | history, router and query parameters; the filters of two pages; what a tab starts with | – |
| `ConsolePages` | a reader moving through all of these | extends `PageFilters`, `Startup`, `TypesStore`, `Engines`, `TypeDiagram` |
| `GraphMonitorProofs`, `LiveConsoleProofs`, `ServerLifecycleProofs`, `MutationRunProofs`, `GraphSearchProofs` | the proofs | extend the module they name, and TLAPS |
| `ComponentGraphProofs`, `ConsolePagesProofs` | the proofs about the graph with its reports, and about the pages with their types | extend `ConsoleReports`, `ConsolePages`; both `OrdersProofs` |
| `OrdersProofs` | the facts both need: finite sets, sorted sequences, functions defined by recursion | extends `Orders` |
| `MCGraphMonitor`, `MCMutationRun`, `MCComponentGraph`, `MCConsolePages` | definitions of the instances for TLC | the module they name (`MCComponentGraph`: `ConsoleReports`) |

### GraphMonitor

A file is a version that every edit increments; creating and removing it are edits too,
so some versions are its absence. The code does not see versions: a snapshot is a digest
of path, size and modification time of the files that exist. `StatOf`, an arbitrary
function, is what the snapshot has of each version, and two versions with the same value
are `Alike`: two absences, or an edit that keeps size and time. Equal snapshots say that
the files look alike, not that nothing was edited. Variables hold versions, so that the
properties can speak of the order of reads; the guards only ask what looks alike.
`Tracked` is the set
of files the snapshot covers, `Reads` the reads of one analysis (`inspectSourceFile`
parses a file and `packages.Load` parses it again, so one analysis may see two
versions of one file), and `RevisionOf`, an arbitrary function, is the revision of
the graph computed from what the reads found. Two inputs may have the same
revision: reformatting a file does not change the graph, and undoing an edit brings
an old revision back.

`pc[c]` follows a caller through `freshGraph`: *waiting* in `acquireRefreshPermit`,
*inspecting* in `snapshot`, *analyzing* in `analyze`, *returned*. Each stat and each
read is a step of its own. Comparing the snapshot, publishing, and releasing the
permit are one step with what follows or precedes them, because nothing another
goroutine does can come between: the fields change only under the permit, and what
runs under `monitor.mutex` is atomic. `since` remembers the files as they were when
the call began, `analyzed` what the reads behind the published graph found; both are
history variables. `FreshGraph` has two ways to succeed: `Analyze` moves the analysis to
reads no older than the call, `Reuse` keeps it if every file that was read looked the
same at some moment since the call, or looks since the call as it did before it was read.

### LiveConsole

The store runs on one thread, so each stretch between two awaits is one action.
GetGraph calls are concurrent and are answered in any order with the graph that is
current at that moment, or fail; stream events are ordered and at most
`StreamCapacity` of them are in flight before `stream.Send` blocks. `epoch` counts
publications, so "older" has a meaning although revisions repeat. `response.graph`
is never undefined here because `GetGraph` always sets it, and the page is never
destroyed, so the abort paths are not taken.

### MutationRun, MutationReport, QualityMessages

A request selects plugins and paths; what it leaves out comes from the configuration,
and an unknown plugin or a selection without a Go file is refused. A file is the set of
sites at which its text differs from the author's. The suite is external: it fails when
the repository differs at a detectable site. A command fails with its suite, when its
deadline passes, when the run is cancelled, or because it cannot be run at all
(`CommandsMayFail`); `inconclusive` remembers the mutations whose command failed although
the suite would have passed. A failed write leaves the file arbitrary, because `os.WriteFile`
truncates first. `Runs` are concurrent `Evaluate` calls, one per RunCheck request. The
response is computed from the verdicts as the code computes it: values, thresholds,
findings, statuses and the summary that the console shows.

### ServerLifecycle

`main` follows `runCommand`; `pc[r]` follows a request through `ServeHTTP` and
`initialize`. The mutex of the dashboard is held over several steps by the request
that runs the first analysis. Cancellation follows the code: the contexts of
requests come from `context.WithoutCancel`, so only a departing client or
`httpServer.Close` ends them; `service.ctx` ends with the signal or with `Shutdown`.
`Patient` says that handlers other than streams end within the shutdown timeout; it
is TRUE only in `lifecycle_stream`, where it removes every other reason for the
timeout to pass.

### Digraphs, GraphSearch, ComponentGraph

The calculation is split where its difficulty is split. `Digraphs` says what a search
ought to return, without an algorithm. `GraphSearch` is the algorithm: Tarjan's
`connect` with its recursion as the explicit sequence `calls`, and `rest` for the
dependencies each call has still to look at, so that every turn of a loop is a step
and `index`, `indices`, `lowLinks`, `stack` and `onStack` are the variables of the code.
Identifiers are numbers because the code sorts them; the result `cycles` is a set
because the code sorts it at the end. The stack of `reachable` is the set `pending`: the
order in which it is emptied does not matter, and an identifier that is on it a second
time is skipped as visited.

`ComponentGraph` is everything around the searches, and uses the reference definitions
that `GraphSearch` checks in their place. `Collect` is one turn of the loop over the
files, `BuildGraph` is `buildGraph` with the registered rules, `ApplyPolicy` is
`applyDependencyPolicy`. A relationship keeps the numbers of the test and production
files it was seen in, which is what decides `TestOnly`. Instability and abstractness are
pairs of numbers compared as fractions. A component is identified by the sequence of
its path's segments. Every file describes the components it mentions (their role,
application and name), since classification looks at one path or import at a time; the
first description of a component stays (`DescriptionWith`). Packages, import sites and the rule that copies the diagnostics of
the source are left out; a selector of a policy is the set of components it matches.

### ConsoleReports and its parts

The invariants of `ConsoleReports` speak of states of `ComponentGraph`, so the
pages are checked on graphs that the server really computes, with and without a policy.
Where the console sorts by several criteria the model has the comparison, as the set of
the pairs it puts in order, and the instance gives the order of paths and names
(`Precedes`). `Orders!Sorted` places a member after as many as come before it, which is
what any sort does with a strict order. Where a `float64` differs from the
fraction it stands for, the difference decides: `Misrounded` lists, in units of the last
place, by how much the double of |A + I - 1| misses the one closest to the fraction,
for the pairs where it does; the instance has all pairs of tenths. The nodes of the tree are
nested records as in the code; a loop that merges directories is the directory at which it
stops, and a recursion over nodes is a recursive function on them. Colours, sentences and sizes
in pixels are left out, except where something must not overlap.

### Address, PageFilters, TypesStore, TypeDiagram, Engines, Startup, ConsolePages

An entry of the history is a page with its query parameters. The code of a page is
loaded when it is first visited: until then the navigation is pending and a newer one
replaces it; a navigation to a loaded page is one step, because the router runs it in
microtasks. Links of the sidebar drop the parameters, selecting a component pushes an
entry, filters replace the current one. A reload loses what is in memory and keeps the
history and the stored preference.

`ConsolePages` answers each event (a click, an arrival, a failure, a key) in one step.
Effects, templates and what runs after a rendering happen in a later step `Tick`, because
the application is zoneless and signals schedule it; several events may come before it.
`tour` is the reader: where they start, which links, queries, roles and severities they
use, and how many events they and the graph cause.

An engine of `Engines` is imported on demand, and is *importing*, *alive* or *failed*;
`hosted` says that its owner still exists, `onScreen` that its surface does. A component
of its own (`type-diagram`, `dependency-map`, `strategy-map`) creates its engine once and
dies with its surface. The balance and strategy pages outlive their surfaces, and create
an engine after a rendering while they hold none; an engine that arrives for a page that
holds one is destroyed.

## 3. Runs

| Run | Question | Bounds |
|---|---|---|
| `monitor_safety` | mutual exclusion, what equal snapshots prove, freshness, no lost wake-up, monotonicity, refinement of `FreshGraph` | a request and the ticker; two files and three reads, one file read twice; the latter is absent, is created and is removed, the other is edited once; one failure; two watchers (symmetric), which come while the other file is not edited (`MCWatchedEdits`); Init starts with every combination of versions and torn reads |
| `monitor_liveness` | the published graph catches up, refreshes return, the ticker stops | the same without watchers, which those properties do not mention, and without edits of the other file |
| `console` | announcements, order, currency and liveness of the graph store | two publications over three revisions (so a revision can come back), two refreshes, one failed load, one event in flight, a stream that may break |
| `console_ready`, `console_error` (violations) | what the comments of `graph.store.ts` say | the smallest bounds that show it |
| `mutation` | restoration, verdicts, a complete response that adds up, termination | one run; three files with two, one and no site, one site undetectable, one uncovered; requests with every kind of selection; every failure, cancellation and exit enabled |
| `mutation_concurrent` (violation) | restoration with two runs | failures disabled, so nothing else can be the cause |
| `lifecycle` | one monitor, refusals, answers, the end of the process | two calls and a stream, one analysis that fails by itself |
| `lifecycle_stream` (violation) | a clean shutdown | one call and a stream |
| `graph_search` | the searches return what `Digraphs` defines, and end | all 4096 graphs over four identifiers, every start |
| `component_graph` | what tests, rules and policies may do to a graph, and what the pages make of it | every production graph over three components under four classifications, with no test file or one of 24; every graph of three of four components in three or four groups; three components of which files, imports and tests describe one differently, with the test first or last; one component with every combination of couplings and abstractness; five policies |
| `pages` | reload, types, diagrams, engines and rest of the composed console | six readers of four to six events each, over all pages; two components that declare types, five types with every kind of relation; history of four entries |

Why the bounds are enough: the hazards need two callers of one critical section, two
files or two reads (a torn snapshot, a torn analysis), one edit between any two steps, two
for a file that comes and goes, and one failure at any step; all of these happen within them. Watchers and edits of a
second file have no part in each other's hazards, so they do not occur together. What TLC
shows for the monitor's safety is then proved without bounds. The console needs two publications and a
refresh for an answer to be overtaken and for a revision to return. Four identifiers are
the fewest on which two cycles exist at once, a cycle can be entered in its middle, and
a link can point to a component that is already complete. Three components
give every shape of a chain and of a cycle to the rules, and one test file can be the
only user of a relationship, one among others, or the only file of its component; layers
need two groups in a cycle and a third on either side. The hazards of the pages are an
event between a step and the rendering that follows it, so each tour allows at least
two events around each pair of renderings: leaving and coming back while code or an
engine is on its way, two selections with both answers outstanding, going back after a
filter was written.

Deadlock is checked for the monitor only, where the ticker or its end keeps the system
going. The other systems really stop: a search returns, a run reports, the process
ends, and the console rests once its bounded environment has nothing left to send.

### Fairness

* Goroutines that can run do run (`WF` on the steps of a call, a handler, a callback).
* A sender blocked on `refreshPermit` is served in order, and a mutex is granted to
  every waiter (Go's channels queue first-in first-out; `sync.Mutex` avoids
  starvation): `SF` on acquiring.
* `select` picks at random among ready cases: `SF` on the ticker seeing its done
  context and on `WatchGraph` receiving and sending.
* The searches and a mutation run proceed in one goroutine: `WF` on their next step.
* GetGraph and GetComponentTypes requests are answered or fail, imports of pages and
  engines succeed or fail, analyses and commands end, timers fire; a scheduled
  rendering runs.
* Editors, readers, clients, signals, cancellations and publications owe nothing.

### What the violations show

1. `mutation_concurrent`: `runMutations` "restores the source", but two concurrent
   RunCheck requests are not serialized. One reads the other's mutation as the
   original, and writes it back after the other restored the file: a mutation stays in
   the user's source and no run reports an error.
2. `console_ready`: a graph published after the first GetGraph answer and before the
   subscription is announced by `READY`, which `watch` does not compare with the held
   revision. The console says `live` and shows the old graph until the next change.
3. `console_error`: `load` guards its success path with the load sequence and not its
   failure path, so a superseded failure overwrites a later success's empty message.
4. `lifecycle_stream`: with one open `WatchGraph` stream, SIGTERM makes `Shutdown` wait
   its 15 seconds and `Serve` return an error, because request contexts do not descend
   from the signal's and no `OnShutdown` hook exists.

### Exceptions that passing properties name

Some properties hold except in a case that they spell out. The case is what the code
does, and each property shows that there is no further one.

* `UnchangedMeansCurrent`, `RefreshIsFresh`, `ImplementsFreshGraph` and `EventuallyCurrent`:
  `snapshot` hashes only files that exist (`analyzer.go:168-212`). When a file is absent in
  the snapshot, is created, read by the analysis and removed, every later snapshot equals
  the stored one (`monitor.go:91`) and the graph keeps showing the file until something
  else changes. The same holds for edits that bring back size and modification time.
  `IsMissed` and `LookedAgain` describe exactly this case: a version that was read lies
  between two that look alike.
* `VerdictsAreTrue`: `runMutation` answers `err != nil` for any error of the runner
  (`evaluator.go:276-282`), also for a deadline that passed and for a command that could not
  be started or read from (`process.go:59-73`). Such a kill need not be a detection, although
  the comment at `evaluator.go:258` says that the function "reports whether the test suite
  detects one changed expression". Survivors have no exception.
* `TestsChangeNothing`: `getOrCreateComponent` keeps the first description it sees
  (`component.go:140-157`), and classification may give one component several
  (`classification.go:209-279`). A test that sorts first decides the role and the
  application, hence findings. Compared are therefore the graphs with and without tests
  under the descriptions the components have got, and a component that no test describes
  that way has the description production code gives it.
* `CurrentUnlessDiscarded`: the console stays behind when it ignores a `READY`
  (`console_ready`), and when a channel of capacity one drops the later of two offers:
  `CHANGED` then carries the first revision, and a console that holds it does not load.
* `BucketedOnce`: the bounds of the buckets are products of doubles
  (`balance-report.ts:145-150`). The fourth begins at `3 * 0.2`, which is above the double
  0.6, and the third ends below 0.6: a component exactly at 0.6 is in no bucket.
* `DrawnUnlessReplaced`: `balance.page.ts:81-122` and `strategy.page.ts:122-160` create an
  engine only while they hold none. When their surface disappears and comes back, or is
  replaced while a creation is pending, the page holds an engine of the earlier one
  and the chart stays blank.
* `ReloadShowsTheSame` speaks of addresses that name a component: when the address
  loses it, `types.page.ts:45-53` does nothing, and the panel keeps the old types.
* `TypesOfTheComponent`: a load that failed leaves the store empty until another component is
  selected, because the same one is never asked for again
  (`component-types.store.ts:73`); nor are types loaded again after a `CHANGED`.
* `DiagramIsClosed`: the "Port identifier, unique inside the node"
  (`type-diagram.model.ts:32`) is not unique for two fields named `_`, which
  `typeanalysis.go:230-236` reports.
* `LayersAreSound`: healthy cells of the matrix lie above its diagonal, where the comment
  at `strategy-matrix.chart.ts:132-133` says below.

## 4. Proofs

All proofs hold for every value of the constants that satisfies the named assumptions.

| Module | Theorem | States |
|---|---|---|
| `GraphMonitorProofs` | `TypeCorrect` | `Spec => []TypeOK` |
| | `MutualExclusion` | `Spec => []OneRefresh` |
| | `Freshness` | `Spec => []RefreshIsFresh` |
| | `SkippingIsSound` | `Spec => []UnchangedMeansCurrent` |
| | `MovesForward` | `Spec => PublishedMovesForward` |
| | `Refinement` | `Spec => ImplementsFreshGraph` |
| | `Wakeups` | `Spec => []NoLostWakeup` |
| `GraphSearchProofs` | `ReachableCorrect` | `Spec => []ReachableIsExact` |
| | `CyclesCorrect` | `Spec => []CyclesAreExact` |
| | `CyclesAreDisjoint` | two components are the same or disjoint |
| `ComponentGraphProofs` | `TestsAreIgnored` | `Spec => []TestsChangeNothing` |
| | `AnnotationsMatch` | `Spec => []FindingsAreAnnotated` |
| | `ReceivedIsTyped` | `Spec => []ReceivedOK` |
| | `PainIsTheRule` | `Spec => []PainIsFound` |
| | `DistributionIsComplete` | `Spec => []BucketedOnce` |
| | `SortsAreTotal` | `Spec => []OrdersAreTotal` |
| | `MapsAreClosed` | `Spec => []MapIsClosed` |
| | `NumbersAreListed` | `Spec => []CellsAreExplained` |
| | `CountersAgree` | `Spec => []PagesAgree` |
| | `LayersFollowDependencies` | `Spec => []LayersAreSound` |
| | `SelectionsAreRevealed` | `Spec => []TreeReveals` |
| `LiveConsoleProofs` | `ConsoleTypeCorrect` | `Spec => []TypeOK` |
| | `EverythingIsAnnounced` | `Spec => []NothingUnannounced` |
| | `AnswersDoNotGoBack` | `Spec => NeverGoesBack` |
| `ServerLifecycleProofs` | `OneMonitorRuns` | `Spec => []OneMonitor` |
| | `RefusalsHaveACause` | `Spec => RefusedForCause` |
| `MutationRunProofs` | `OneRunRestores` | with one run, `Spec => []SourceRestored` |
| | `OneRunIsTrue` | with one run, `Spec => []VerdictsAreTrue` |
| | `RunsReportEverything` | `Spec => []ReportIsComplete`, for any number of runs |
| `ConsolePagesProofs` | `TypesAreOfTheComponent` | `StoreSpec => []TypesOfTheComponent` |
| | `PagesDriveTheStore` | `Spec => StoreSpec`: the console refines its types store |
| | `PagesShowTheTypes` | `Spec => []TypesOfTheComponent` for the whole console |
| | `DiagramsAreClosed` | `Spec => []DiagramIsClosed` |
| | `EnginesDoNotLeak` | `EnginesSpec => []NoEngineLeaks` |
| | `PagesOwnEngines` | `Spec => EnginesSpec`: the console refines its engines |
| | `PagesDoNotLeak` | `Spec => []NoEngineLeaks` for the whole console |
| | `SurfacesAreDrawn` | `Spec => []DrawnUnlessReplaced` |
| | `ReloadsShowTheSame` | `Spec => []ReloadShowsTheSame` |

**Monitor.** One inductive invariant, `TypeOK /\ OrderedReads`. Neither freshness nor the
soundness of skipping is inductive: that the result of a call is no older than the call
follows only if what the call has read so far is known to be ordered. `OrderedReads` says
it: versions only grow, so for the holder of the permit `since <= stats <= input <= disk`,
file by file, for what it has done already; and the published analysis and the stored
snapshot satisfy `snapshot <= analyzed <= disk`, because only the holder replaces them,
together, with a snapshot taken before the analysis. `OneRefresh` is part of it, since a
second holder could store an older snapshot over a newer analysis. When an analysis is
skipped, each tracked file looked at `stats`, which is since the call, as it did at
`snapshot`, which is no newer than what was analyzed (`EqualSnapshots`). If the version that
was read is one since the call, or looks like one, the file is shown as it looked since the
call; otherwise it lies between two versions that look alike, the exception. Both survive
later edits (`ReusedLater`), and what was read since the call is reusable (`ReadIsReusable`).
Nothing is assumed of `StatOf` but that it is defined for every version of every file
(`StatAssumption`). The refinement maps a call to *none*, *pending* or *returned*; storing
(`Analyze`) and skipping (`Reuse`) are the linearization points, and all other steps
stutter.

**Searches.** What is reachable is usually defined by paths, and facts about paths need
induction over their length. `Digraphs` defines it as the intersection of all closed sets
instead, so each fact follows by exhibiting one closed set. The invariant `WalkInv` of
`reachable` says that what is visited or pending lies in every closed set, and that only
what is pending can have dependencies not yet found; when nothing is pending the visited
set, with the start, is itself closed.

`stronglyConnectedComponents` is Tarjan's algorithm with the recursion of `connect` made
explicit, and `SearchInv` is its loop invariant. Indices grow along the stack and along the
open calls (`NumberedInOrder`); whatever is off the stack is closed under dependencies
(`CompleteIsClosed`); each identifier on the stack reaches those above it and an open call
at or below it (`StackIsConnected`). A low link is the index of something on the stack that
the call reaches (`LowLinkIsReached`) and no higher than any that its findings depend on
(`LowLinkIsLowest`). When the low link of a returning call is its own index, nothing above
it leaves the segment, which is therefore a whole component (`AboveIsComponent`); otherwise
the caller inherits the low link. That the next root is the first unvisited identifier
needs a least element of a set of numbers, which the well-foundedness of `<` on `Nat` gives.

**Component graph.** `FindingsAreAnnotated` needs only that relationships join components
(`IsGathered`): then a finding about a relationship is never confused with one about a
component. `TestsChangeNothing` compares the collection of all files with that of the
production files. `Agrees` says, file by file, how their accumulators differ: by nodes and
relationships that tests alone contribute, while a component that no test described as it
is has the description of production code (`DescribedAs`). Such nodes have no production edge (`Padded`), so
reachability, cycles, metrics and rules are the same with and without them. What the second
collection is after n files is a recursive function, `WithoutTests`; that its defining
equation has a solution is proved by taking the least number at which it would have none.

**Reports.** A page computes from one received graph, so most of the work is about operators.
Two invariants connect them to the server. `CountedInv` says that the collected files are
counted (`IsCounted`): finitely many components, each with natural numbers of types, finite sets of
referencing files, and descriptions of `Descriptors`. `ReportedInv` adds to it that findings are finitely many,
each of a known rule and about a relationship or about components that exist, also after a
policy (`JudgedInv`); and that the summary counts them. It is what makes
`PagesAgree` hold in the state after `ApplyPolicy`, where the graph has changed since it was
summarized. The lemmas that the theorems rest on:

* *Orders.* Each sort is a lexicographic product of weak orders whose last one is of
  identifiers (`LexicographicIsStrict`, `IdentifiersDecide`). Comparing quotients by cross
  products is transitive (`SmallerIsWeak`), and so is the product of a distance and a
  coupling by which the ranking sorts. `Sorted` is defined by the number of members that come before instead. With a
  strict order that number is different for each, and there are as many numbers as members,
  so the sequence holds each once (`SortedIsTotal`), and a prefix of it those that come first
  (`TopIsFirst`).
* *Counting.* Cardinalities of different sets are equal when a bijection joins them
  (`SameSize`): importers with the relationships they come from, findings about relationships
  with annotations (`AnnotationsAreCounted`), the sentences behind a cell with the pairs it
  counts. That the sizes of disjoint sets add up (`SizesAddUp`) gives the sums of zones,
  rows and buckets.
* *Rounding.* A bucket is an interval of doubles, and each begins where the one before ends
  except around 0.6; a value from 0 to 1 is therefore in exactly one (`OneBucket`). That a
  distance is such a value, whatever pair of metrics and rounding (`DistancesAreDistances`), and
  does not depend on how the two quotients are reduced (`SumsAgree`), is arithmetic.

* *Layers.* The layer of a group is one more than the highest layer of the units that its own
  unit depends on, a unit being a group with those it is in a cycle with. Units divide the
  groups (`UnitsDivide`), and a unit has strictly fewer units below it than one that depends
  on it (`UnitsDescend`), since what is below is below and a cycle through both would have
  made them one unit. The recursion of the code carries a trail of the units it came through,
  which cuts cycles; as the number of units below falls along any trail, the trail is never
  met, and the layer does not depend on it. The recursive function exists because iterating
  its equation as often as there are units leaves nothing open (`ResolutionIsDefined`); that
  every unit is above those it depends on, with no layer skipped, follows (`UnitsAreLayered`).
  The order of rows, columns and bands is then that of the sort (`MatrixIsOrdered`,
  `ReportIsDrawnInOrder`).

* *Tree.* A chain of directories with one child each is merged into its first directory that is
  a component or branches. That there is one follows from the longest that all relays lead to
  (`ChainsEnd`); a chain does not branch (`ChainsDoNotBranch`), and a component ends it, so
  merging never passes the component that is looked for (`ChainsLeadToComponents`). Two entries
  that get a node never merge into one directory (`ChainsAreApart`), hence a path occurs once.
  Nodes are nested records: the nodes of longer entries exist first (`TreeIsDefined`), and what
  is found or shown under a node is computed from its children, which have longer paths
  (`DescentIsDefined`). Induction over the tree is replaced by the deepest node at which a fact
  fails (`NoneFails`): every directory on the way finds the component (`ComponentsAreFound`), a
  way that is open leads to it (`WaysLead`), and what is on screen arrived there entry by entry
  (`ScreenHasArrived`).

What they assume, by name: paths are sequences of segments and the empty one is no component
(`PathAssumption`, paths come from package directories); `localeCompare` orders identifiers,
their groups, names and roles strictly (`OrderAssumption`; the identifiers of one repository are
ASCII paths);
a component whose identifier is one segment is named after it (`NamesAssumption`:
`classification.go:114-221` captures the name or the application from that segment or
matches it literally, for files and imports alike), without which two bars of the ranking could share a label; a rounded
sum of two doubles from 0 to 1, less 1, stays from -1 to 1 (`RoundingAssumption`, because
`float64` rounds monotonically and 0 and 1 are exact); a file imports finitely many components.

**Console.** `ConsoleInv` adds to the two properties what relates the calls in flight to
the sequence of loads: a load of `watch` is paid for by a change that was published,
announced and is not announced again (`LoadsAreCounted`), the handler that streams is
subscribed (`StreamIsSubscribed`), an unanswered call holds no graph yet
(`UnansweredIsEmpty`), and the answer of the newest load is at least as recent as the graph
the console holds (`LastAnswerIsNewer`). An answer that is not of the
newest load is discarded, so the last one is what makes `NeverGoesBack` inductive.

**Lifecycle.** A second monitor could only come from a second first analysis. `FirstIsAlone`:
the request that runs the first analysis holds the mutex, and no handler exists yet;
`StopIsLast`: the service is stopped only when the process exits; `ServedIsActive`: a server
listens, and requests arrive, only after the dashboard was activated. With them the success
of a first analysis starts the only monitor. `RefusedForCause` is a property of steps: a
failed analysis refuses the request that ran it, and since requests arrive only after the
activation, `Enter` refuses nobody before the service is done.

**Mutation run.** The theorems assume one run (`OneRun`), and two runs are exactly the
counterexample of `mutation_concurrent`. `OneFileChanged` ties the disk to the program
counter: every file but the one being mutated is as its author left it, and that one is
held in `original`; `OneMutation` says that while a suite runs, the chosen site is the
only difference on the disk, which is why its verdict is about that site. A command that
fails although that suite would pass makes its site `inconclusive`, whether it had a deadline
or could not be run.
`RunsReportEverything` needs no such assumption: another run can spoil a verdict but not
the bookkeeping. `Bookkeeping` says for each point of the loops which sites are judged:
those of the files that are not left, but for what is pending of the file at hand. Its
response is then counted: notices are in bijection with survivors, findings are disjoint by
severity, a metric is determined by its file and name. Files and sites are assumed to be
finite, since `Cardinality` means nothing otherwise.

**Types.** The invariant `CallsInv` says that a call in flight has a sequence number of its
own that is at most `loadSequence`, and that the newest asks for `componentId`. It makes
`TypesOfTheComponent` inductive for the store's own actions, `StoreSpec`, which allow any
component to be loaded and any type of it to be selected. The pages do not choose freely: a
reader opens what an address names, and clicks what the diagram shows. `TypesInv` says what
that takes. Every entry of the history and every pending navigation names a component that
the server can be asked for, or none (`AddressesAim`); the diagram has a surface only while
types are loaded and neither a load nor a failure hides them (`CanvasIsFilled`), so that a
click finds the types it was drawn from; and no type has the identifier that stands for no
selection (`TypesAreNamed`). With it each step of the console is a step of the store
(`PagesDriveTheStore`), and the property carries over.

**Diagram.** `DiagramIsClosed` is a fact about one layout, for any types, selection and
collapsed nodes; only that the layout is of what the store holds needs the invariant. Types
are placed in order of their identifiers, each in the column that is filled least. What the
columns hold after n types is a recursive function, `ColumnHeights`; that it exists is proved
once in `OrdersProofs` for any function of which each value is computed from the one before
(`RecursionIsDefined`, from a least counterexample). Columns only grow, by the height of
the node and a gap, so of two nodes in one column the later begins below the earlier, and
nodes of different columns differ in the other coordinate. That an edge ends at a shown row
is a case analysis over what refers to what: fields, methods, embeddings, and relations into
the component. The assumptions state what the server sends: a tour begins at an address
whose component exists, if it names one (`TourAssumption`); `localeCompare` orders identifiers strictly
(`IdOrderAssumption`); the response for a component is well formed and finite, and what
comes from other components says so (`InventoryAssumption`); an identifier stands for one
type, and a type of this component that is referred to is declared in it
(`IdentifierAssumption`, because analyses are of whole components; two types named `_` in
one package would share an identifier and are left out); the compiler refuses equal names
among fields and methods but for fields named `_` (`MemberAssumption`).

**Engines.** `Shaped`, `AliveIsHosted`, `OneHolder`, `OwnOnScreen` and `OneOwned` say that an
engine without an owner is still being created, that an owner has one engine at most, and that an
engine owned by a component is created with its surface and gone with it. `PagesOwnEngines`
proves that every step of the composed console is a step of `EnginesSpec` or leaves the
engines alone, which carries the invariant over. `EachIsServed` adds that every surface has
an engine whose owner is there: a rendering creates one or finds one, and a creation that
is turned away was turned away by a holder. At rest that engine is alive or has failed,
which is `DrawnUnlessReplaced`.

**Address.** `ReadBack` says that whatever changed since the effects last ran has a rendering
scheduled, and that otherwise filters and component are those of the address. The delicate
case is a control that writes what the address already says: nothing navigates, so nothing
is read back, and the filter must agree as it is. This needs that the page on screen is
loaded (`Located`), because a write then commits at once instead of waiting for code.

### Only model-checked

Everything temporal beyond safety (TLAPS does not prove liveness under fairness or facts
about `ENABLED`): `EventuallyCurrent`, `CallsReturn`, `TickerStops`,
`CurrentUnlessDiscarded`, `LoadingEnds`, `RunsEnd`, `RequestsEnd`, `SignalEnds`,
`SettlesDown`. Every invariant that a passing run checks is proved.

For that the model is written so that it can be reasoned about. The library's induction theorems
have operators as parameters, so a least counterexample takes the place of induction (`First`,
`WithoutTests`, `ColumnHeights`, the layers, the tree); recursion is by functions, whose existence
is proved; and a sorted sequence is defined by counting.

## 5. What is not modelled

* **Graph cache** (`cache.go`, `graphapi.go`, `usecase.go`): one sequential call with a
  fallback, without state; nothing interleaves with it.
* **Function calculation**: the searches of `GraphSearch` over functions; its own part
  resolves calls in Go syntax.
* **Graph queries**: filters and sorts of a finished graph.
* **Path policy**: a glob language, character by character.
* **Coverage, complexity, CRAP, duplication and size**: numbers computed from Go syntax
  and from the output of the coverage tool; no state, nothing written.
* **Configuration, commands, printing**, and the encoding of messages.
* **`validate_pb.ts`**: generated from a third party's schema, 5034 lines, which only
  the generated schemas import.
* **`events.go`**: `graphEventStream` is reached from no handler.
* In the modelled components: the content of an analysis; how a path or an import is
  classified (an input of `ComponentGraph`); edits of files outside the analysis paths, which
  no snapshot notices; going back or forward to a page whose code is yet to be loaded; a child process whose
  grandchildren hold its pipes; what a mutation leaves on disk when the process ends in
  the middle of a run (nothing in the code recovers from it); the destruction of the
  console; the plugin catalog call, which only delays the subscription; zoom, colours,
  animation, relative times, and sort orders kept in memory. A component of the analysis
  scope that references a type outside of it is not among the instances of `pages`.

The plan that ordered this project (monitor, console store, mutation run, lifecycle,
calculation, then the console's pages and their composition, and the proofs of each) is
done. What remains open are the parts above, if they come to hold state.
