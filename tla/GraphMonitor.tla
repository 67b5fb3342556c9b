---------------------------- MODULE GraphMonitor ----------------------------
(***************************************************************************)
(* graphMonitor (pkg/plugin/architecture/monitor.go) with the analyzer it  *)
(* drives (analyzer.go).                                                   *)
(*                                                                         *)
(* Goroutines call freshGraph: the loop of monitor.run, once per tick, and *)
(* every request that asks for a refresh.  A call takes the refresh        *)
(* permit, computes a snapshot of the source files (path, size and mtime   *)
(* of each), compares it with the stored one and, if they differ, analyzes *)
(* the files and publishes the result.  Neither the snapshot nor the       *)
(* analysis is atomic: both visit the files one at a time while editors    *)
(* keep writing.                                                           *)
(*                                                                         *)
(* A file is abstracted to a version that each edit increments.  Creating  *)
(* and removing it are edits too, so some versions are its absence.  The   *)
(* code does not see versions: a snapshot holds what os.Stat tells of the  *)
(* files that exist, so versions that look alike, two absences above all,  *)
(* make equal snapshots whatever came between them.  Variables that hold   *)
(* versions say more than the program knows; the program only asks whether *)
(* they look alike.  One analysis may read a file more than once           *)
(* (inspectSourceFile parses it and packages.Load parses it again) and     *)
(* find different versions; its graph is a function, RevisionOf, of what   *)
(* each read found.                                                        *)
(***************************************************************************)
EXTENDS GraphFeed, Naturals

CONSTANTS
  Files,        \* the files the analysis reads
  Tracked,      \* the files whose path, size and mtime the snapshot covers
  Reads,        \* the reads of one analysis
  FileOf,       \* the file of each read
  MaxVersion,   \* bound: edits of one file
  LastVersion,  \* bound: the version with which the edits of each file end
  StatOf,       \* what the snapshot has of each version of a file
  Requests,     \* handlers that may call freshGraph at the same time
  Ticker,       \* the goroutine of monitor.run
  RevisionOf,   \* the revision of the graph computed from what was read
  MaxFailures   \* bound: snapshots and analyses that fail by themselves

Version == 0 .. MaxVersion
Tree == [Files -> Version]
Stats == [Tracked -> Version]
Input == [Reads -> Version]
Callers == Requests \cup {Ticker}
Phases == {"idle", "waiting", "inspecting", "analyzing", "returned", "stopped"}

ASSUME ConstantsAssumption ==
  /\ Tracked \subseteq Files
  /\ MaxVersion \in Nat
  /\ MaxFailures \in Nat
  /\ LastVersion \in [Files -> Version]
  /\ Ticker \notin Requests
  /\ FileOf \in [Reads -> Files]
  /\ RevisionOf \in [Input -> Revisions]

ASSUME StatAssumption ==
  /\ DOMAIN StatOf = Files
  /\ \A f \in Files : DOMAIN StatOf[f] = Version

VARIABLES
  disk,       \* the current version of every file
  snapshot,   \* monitor.snapshot
  analyzed,   \* history: what the reads behind `graph` found
  permits,    \* the tokens in the refreshPermit channel, of capacity one
  pc,         \* where each caller is in freshGraph
  cancelled,  \* whether the context of the call is done
  todo,       \* the files yet to inspect, or the reads yet to do
  stats,      \* the snapshot the call computed
  input,      \* what the analysis of the call has read
  since,      \* history: `disk` when the call began
  result,     \* the revision the call returned, NoRevision for an error
  failures    \* how many snapshots and analyses failed by themselves

published == <<feedVars, snapshot, analyzed>>
callVars == <<pc, todo, stats, input, since, result>>
vars == <<published, disk, permits, callVars, cancelled, failures>>

NewTree == [f \in Files |-> 0]
NewStats == [f \in Tracked |-> 0]
NewInput == [r \in Reads |-> 0]

(* t is nowhere older than s. *)
NotOlder(S, s, t) == \A x \in S : s[x] <= t[x]

(* No read found a tracked file older than in s. *)
ReadSince(s, i) == \A r \in Reads : FileOf[r] \in Tracked => s[FileOf[r]] <= i[r]

(* No read found a file newer than it is in t. *)
ReadBefore(i, t) == \A r \in Reads : i[r] <= t[FileOf[r]]

(* Two versions of a file that a snapshot does not tell apart. *)
Alike(f, v, w) == StatOf[f][v] = StatOf[f][w]

(* At some version from s to t the file f looked as it did at v. *)
LookedAs(f, v, s, t) == \E w \in s .. t : Alike(f, v, w)

(* At some version from s to t, later than v, the file f looked again as   *)
(* it did no later than at v: a file that was created, read and removed.   *)
LookedAgain(f, v, s, t) == \E u \in 0 .. v, w \in s .. t : v < w /\ Alike(f, u, w)

(* What is reused was read of each tracked file since s, or of a file that *)
(* the comparison of snapshots cannot tell from what it is since s.        *)
ReusedSince(s, t, i) ==
  \A r \in Reads : FileOf[r] \in Tracked =>
    LET f == FileOf[r] IN
      LookedAs(f, i[r], s[f], t[f]) \/ LookedAgain(f, i[r], s[f], t[f])

TypeOK ==
  /\ FeedTypeOK
  /\ disk \in Tree
  /\ snapshot \in Stats
  /\ analyzed \in Input
  /\ permits \in 0 .. 1
  /\ pc \in [Callers -> Phases]
  /\ cancelled \in [Callers -> BOOLEAN]
  /\ todo \in [Callers -> SUBSET (Files \cup Reads)]
  /\ stats \in [Callers -> Stats]
  /\ input \in [Callers -> Input]
  /\ since \in [Callers -> Tree]
  /\ result \in [Callers -> Revisions \cup {NoRevision}]
  /\ failures \in 0 .. MaxFailures

(* newGraphMonitor took the snapshot, then analyzed, while files changed. *)
Init ==
  /\ disk \in Tree
  /\ NotOlder(Files, disk, LastVersion)
  /\ analyzed \in Input
  /\ ReadBefore(analyzed, disk)
  /\ snapshot \in Stats
  /\ ReadSince(snapshot, analyzed)
  /\ FeedInit(RevisionOf[analyzed])
  /\ permits = 0
  /\ pc = [c \in Callers |-> "idle"]
  /\ cancelled = [c \in Callers |-> FALSE]
  /\ todo = [c \in Callers |-> {}]
  /\ stats = [c \in Callers |-> NewStats]
  /\ input = [c \in Callers |-> NewInput]
  /\ since = [c \in Callers |-> NewTree]
  /\ result = [c \in Callers |-> NoRevision]
  /\ failures = 0

-----------------------------------------------------------------------------
(* The environment: editors, clients and the owner of the monitor.         *)

(* Somebody changes, creates or removes a file. *)
Edit(f) ==
  /\ disk[f] < LastVersion[f]
  /\ disk' = [disk EXCEPT ![f] = @ + 1]
  /\ UNCHANGED <<published, permits, callVars, cancelled, failures>>

(* A client gives up, or the context that monitor.run was given is done. *)
Cancel(c) ==
  /\ pc[c] \in {"waiting", "inspecting", "analyzing"} \/ c = Ticker
  /\ ~cancelled[c]
  /\ cancelled' = [cancelled EXCEPT ![c] = TRUE]
  /\ UNCHANGED <<published, disk, permits, callVars, failures>>

(* A watcher subscribes, receives or unsubscribes. *)
Watch(w) ==
  /\ Subscribe(w) \/ Receive(w) \/ Unsubscribe(w)
  /\ UNCHANGED <<snapshot, analyzed, disk, permits, callVars, cancelled, failures>>

-----------------------------------------------------------------------------
(* The callers of freshGraph.                                              *)

(* A request arrives, or run takes a tick.  A tick may win the select of   *)
(* run although its context is already done.                               *)
Call(c) ==
  /\ pc[c] = "idle"
  /\ pc' = [pc EXCEPT ![c] = "waiting"]
  /\ since' = [since EXCEPT ![c] = disk]
  /\ UNCHANGED <<published, disk, permits, todo, stats, input, result, cancelled, failures>>

(* refreshPermit has room for one token; for any number in the mutant. *)
PermitFreeMutant == TRUE
PermitFree == permits < 1

(* acquireRefreshPermit sends on the channel, even if ctx is done as well. *)
Acquire(c) ==
  /\ pc[c] = "waiting"
  /\ PermitFree
  /\ permits' = permits + 1
  /\ pc' = [pc EXCEPT ![c] = "inspecting"]
  /\ todo' = [todo EXCEPT ![c] = Tracked]
  /\ UNCHANGED <<published, disk, stats, input, since, result, cancelled, failures>>

(* acquireRefreshPermit returns ctx.Err(): no permit was taken. *)
AbandonWait(c) ==
  /\ pc[c] = "waiting"
  /\ cancelled[c]
  /\ pc' = [pc EXCEPT ![c] = "returned"]
  /\ UNCHANGED <<published, disk, permits, todo, stats, input, since, result, cancelled, failures>>

(* snapshot checks ctx, then stats one file, or misses it in the list.     *)
InspectFile(c, f) ==
  /\ pc[c] = "inspecting"
  /\ f \in todo[c]
  /\ ~cancelled[c]
  /\ stats' = [stats EXCEPT ![c][f] = disk[f]]
  /\ todo' = [todo EXCEPT ![c] = @ \ {f}]
  /\ UNCHANGED <<published, disk, permits, pc, input, since, result, cancelled, failures>>

(* The deferred releaseRefreshPermit; the mutant forgets it after an error. *)
ReleasedMutant(revision) == IF revision = NoRevision THEN permits ELSE permits - 1
Released(revision) == permits - 1

(* freshGraph returns `revision`; the deferred call releases the permit. *)
Return(c, revision) ==
  /\ permits' = Released(revision)
  /\ pc' = [pc EXCEPT ![c] = "returned"]
  /\ result' = [result EXCEPT ![c] = revision]
  /\ todo' = [todo EXCEPT ![c] = {}]
  /\ stats' = [stats EXCEPT ![c] = NewStats]
  /\ input' = [input EXCEPT ![c] = NewInput]
  /\ UNCHANGED <<disk, cancelled, since>>

(* Whether the snapshots are equal; the mutant takes it for granted. *)
UnchangedFilesMutant(c) == TRUE
UnchangedFiles(c) == \A f \in Tracked : Alike(f, stats[c][f], snapshot[f])

(* The files look as they did when the published analysis was prepared. *)
ReturnCurrent(c) ==
  /\ pc[c] = "inspecting"
  /\ todo[c] = {}
  /\ UnchangedFiles(c)
  /\ Return(c, graph)
  /\ UNCHANGED <<published, failures>>

StartAnalysis(c) ==
  /\ pc[c] = "inspecting"
  /\ todo[c] = {}
  /\ ~UnchangedFiles(c)
  /\ pc' = [pc EXCEPT ![c] = "analyzing"]
  /\ todo' = [todo EXCEPT ![c] = Reads]
  /\ UNCHANGED <<published, disk, permits, stats, input, since, result, cancelled, failures>>

(* analyze checks ctx, then reads one file. *)
ReadFile(c, r) ==
  /\ pc[c] = "analyzing"
  /\ r \in todo[c]
  /\ ~cancelled[c]
  /\ input' = [input EXCEPT ![c][r] = disk[FileOf[r]]]
  /\ todo' = [todo EXCEPT ![c] = @ \ {r}]
  /\ UNCHANGED <<published, disk, permits, pc, stats, since, result, cancelled, failures>>

(* The snapshot or the analysis fails: a file cannot be read, the packages *)
(* do not load, the context is done.  The stored snapshot stays as it was. *)
Fail(c) ==
  /\ pc[c] \in {"inspecting", "analyzing"}
  /\ IF cancelled[c] THEN UNCHANGED failures
                     ELSE failures < MaxFailures /\ failures' = failures + 1
  /\ Return(c, NoRevision)
  /\ UNCHANGED published

(* The snapshot to store is the one taken before the analysis; the mutant  *)
(* takes it afterwards.                                                    *)
SnapshotToStoreMutant(c) == [f \in Tracked |-> disk[f]]
SnapshotToStore(c) == stats[c]

(* The analysis succeeded: the snapshot and the graph change together. *)
Store(c) ==
  /\ pc[c] = "analyzing"
  /\ todo[c] = {}
  /\ snapshot' = SnapshotToStore(c)
  /\ analyzed' = input[c]
  /\ Publish(RevisionOf[input[c]])
  /\ Return(c, RevisionOf[input[c]])
  /\ UNCHANGED failures

(* A request has a context of its own; run passes its own to every tick,   *)
(* the mutant a new one.                                                   *)
ContextAfterMutant(c) == FALSE
ContextAfter(c) == c = Ticker /\ cancelled[c]

(* The handler answers its client, or refresh returns to the loop of run. *)
Finish(c) ==
  /\ pc[c] = "returned"
  /\ pc' = [pc EXCEPT ![c] = "idle"]
  /\ cancelled' = [cancelled EXCEPT ![c] = ContextAfter(c)]
  /\ since' = [since EXCEPT ![c] = NewTree]
  /\ result' = [result EXCEPT ![c] = NoRevision]
  /\ UNCHANGED <<published, disk, permits, todo, stats, input, failures>>

(* run returns. *)
StopTicker ==
  /\ pc[Ticker] = "idle"
  /\ cancelled[Ticker]
  /\ pc' = [pc EXCEPT ![Ticker] = "stopped"]
  /\ UNCHANGED <<published, disk, permits, todo, stats, input, since, result, cancelled, failures>>

(* What a call that holds the permit, or is over, does next. *)
Proceed(c) ==
  \/ AbandonWait(c)
  \/ \E f \in Files : InspectFile(c, f)
  \/ \E r \in Reads : ReadFile(c, r)
  \/ ReturnCurrent(c)
  \/ StartAnalysis(c)
  \/ Fail(c)
  \/ Store(c)
  \/ Finish(c)

Next ==
  \/ \E f \in Files : Edit(f)
  \/ \E w \in Watchers : Watch(w)
  \/ \E c \in Callers : Cancel(c) \/ Call(c) \/ Acquire(c) \/ Proceed(c)
  \/ StopTicker

(* A goroutine that can run does run.  A sender blocked on a channel waits *)
(* in a first-in first-out queue, so it gets the permit if the permit is   *)
(* released again and again.  The ticker keeps firing, and the select of   *)
(* run, which picks at random among what is ready, does not ignore a done  *)
(* context forever.  Editors, clients and watchers owe nothing.            *)
Fairness ==
  /\ \A c \in Callers : WF_vars(Proceed(c)) /\ SF_vars(Acquire(c))
  /\ WF_vars(Call(Ticker))
  /\ SF_vars(StopTicker)

Spec == Init /\ [][Next]_vars /\ Fairness

-----------------------------------------------------------------------------
(* The abstraction: a caller has no call, a pending one or an answer. *)
CallOf(c) == CASE pc[c] \in {"idle", "stopped"} -> "none"
               [] pc[c] = "returned"            -> "returned"
               [] OTHER                         -> "pending"

Fresh == INSTANCE FreshGraph WITH call <- [c \in Callers |-> CallOf(c)]

(* freshGraph is linearizable: the permit, the snapshot comparison and the *)
(* file by file reads together behave as FreshGraph says: a successful     *)
(* call is one atomic and sufficiently recent analysis, or the reuse of an *)
(* earlier one that equal snapshots vouch for.                             *)
ImplementsFreshGraph == Fresh!Spec

Holds(c) == pc[c] \in {"inspecting", "analyzing"}

(* One refresh at a time, and the token in refreshPermit is its token: no  *)
(* path out of freshGraph keeps the permit or gives back another's.        *)
OneRefresh ==
  /\ \A c, d \in Callers : Holds(c) /\ Holds(d) => c = d
  /\ permits = 1 <=> \E c \in Callers : Holds(c)

(* The read r came between two edits of its file that a comparison of      *)
(* snapshots misses: the file looks as in the stored snapshot, which is    *)
(* older than the edit that the read saw.                                  *)
IsMissed(r) ==
  LET f == FileOf[r] IN
    /\ snapshot[f] < analyzed[r] /\ analyzed[r] < disk[f]
    /\ Alike(f, snapshot[f], disk[f])

(* The published graph is the graph of the files in S as they are now.     *)
ShowsFiles(S) ==
  /\ graph = RevisionOf[analyzed]
  /\ \A r \in Reads : FileOf[r] \in S =>
       Alike(FileOf[r], analyzed[r], disk[FileOf[r]]) \/ IsMissed(r)

(* The stored snapshot is never newer than what was analyzed: freshGraph   *)
(* takes it before the analysis and stores it only with a result.  While   *)
(* the files look as in the snapshot, the published graph is therefore     *)
(* theirs, torn reads included, except for what a missed read found.       *)
UnchangedMeansCurrent ==
  (\A f \in Tracked : Alike(f, snapshot[f], disk[f])) => ShowsFiles(Tracked)

(* A refresh that succeeds returns a graph at least as recent as the call: *)
(* it shows each tracked file as it looked at some moment since freshGraph *)
(* was called, although the call may return a graph that another analyzed. *)
(* Only a file that looks again as it did in an earlier snapshot may be    *)
(* shown as it was in between: one that was created, read and removed.     *)
ResultIsFresh(c) ==
  pc[c] = "returned" /\ result[c] # NoRevision =>
    \E i \in Input : /\ ReusedSince(since[c], disk, i)
                     /\ ReadBefore(i, disk)
                     /\ result[c] = RevisionOf[i]

RefreshIsFresh == \A c \in Callers : ResultIsFresh(c)

(* The inductive strengthening of the three invariants above.  Versions    *)
(* only grow, so what a call reads later is never older: since <= stats <= *)
(* input <= disk, file by file, and the stored snapshot and the published  *)
(* analysis, which only the holder of the permit replaces, keep the order. *)
PublishedInv ==
  /\ graph = RevisionOf[analyzed]
  /\ ReadSince(snapshot, analyzed)
  /\ ReadBefore(analyzed, disk)

InspectingInv(c) ==
  \A f \in Tracked \ todo[c] : since[c][f] <= stats[c][f] /\ stats[c][f] <= disk[f]

AnalyzingInv(c) ==
  /\ \A f \in Tracked : since[c][f] <= stats[c][f] /\ stats[c][f] <= disk[f]
  /\ \A r \in Reads \ todo[c] :
       /\ analyzed[r] <= input[c][r] /\ input[c][r] <= disk[FileOf[r]]
       /\ FileOf[r] \in Tracked => stats[c][FileOf[r]] <= input[c][r]

CallInv(c) ==
  /\ NotOlder(Files, since[c], disk)
  /\ pc[c] = "inspecting" => InspectingInv(c)
  /\ pc[c] = "analyzing" => AnalyzingInv(c)
  /\ pc[c] # "returned" => result[c] = NoRevision

OrderedReads ==
  /\ OneRefresh
  /\ PublishedInv
  /\ \A c \in Callers : CallInv(c) /\ ResultIsFresh(c)

(* The published graph never goes back to older files. *)
PublishedMovesForward == [][NotOlder(Reads, analyzed, analyzed')]_analyzed

(* Once editors rest, the published graph becomes and stays the graph of   *)
(* the files, whatever failed before, unless the ticker is stopped.  What  *)
(* a missed read found stays too: every later snapshot equals the stored   *)
(* one.                                                                    *)
EventuallyCurrent == <>[](cancelled[Ticker] \/ ShowsFiles(Files))

(* Every call of freshGraph returns. *)
CallsReturn == \A c \in Requests : pc[c] = "waiting" ~> pc[c] = "returned"

(* The goroutine of run ends once its context is done, even one that waits *)
(* behind the refresh of a request.                                        *)
TickerStops == cancelled[Ticker] ~> pc[Ticker] = "stopped"

=============================================================================
