------------------------- MODULE GraphMonitorProofs -------------------------
(***************************************************************************)
(* Proofs about GraphMonitor for every set of files, callers and watchers  *)
(* and every bound.                                                        *)
(***************************************************************************)
EXTENDS GraphMonitor, TLAPS

(* The caller that releases the permit holds it, so the channel held one   *)
(* token; types need that, because a second release would underflow it.    *)
LEMMA ReturnTypes ==
  ASSUME TypeOK, OneRefresh,
         NEW c \in Callers, Holds(c),
         NEW r \in Revisions \cup {NoRevision}, Return(c, r)
  PROVE  /\ permits' = 0
         /\ pc' = [pc EXCEPT ![c] = "returned"]
         /\ pc' \in [Callers -> Phases]
         /\ todo' \in [Callers -> SUBSET (Files \cup Reads)]
         /\ stats' \in [Callers -> Stats]
         /\ input' \in [Callers -> Input]
         /\ result' \in [Callers -> Revisions \cup {NoRevision}]
         /\ UNCHANGED <<disk, cancelled, since>>
<1>1. permits = 1
  BY DEF TypeOK, OneRefresh
<1>2. NewStats \in Stats /\ NewInput \in Input
  BY ConstantsAssumption DEF NewStats, NewInput, Stats, Input, Version
<1>3. QED
  BY <1>1, <1>2 DEF Return, TypeOK, Phases, Released

(* What a watcher does to the channels keeps their types. *)
LEMMA FeedTypes ==
  ASSUME FeedTypeOK,
         \/ \E w \in Watchers : Subscribe(w) \/ Receive(w) \/ Unsubscribe(w)
         \/ \E r \in Revisions : Publish(r)
  PROVE  FeedTypeOK'
<1>1. ASSUME NEW w \in Watchers, Subscribe(w) PROVE FeedTypeOK'
  BY <1>1 DEF Subscribe, FeedTypeOK
<1>2. ASSUME NEW w \in Watchers, Receive(w) PROVE FeedTypeOK'
  BY <1>2 DEF Receive, FeedTypeOK
<1>3. ASSUME NEW w \in Watchers, Unsubscribe(w) PROVE FeedTypeOK'
  BY <1>3 DEF Unsubscribe, FeedTypeOK
<1>4. ASSUME NEW r \in Revisions, Publish(r) PROVE FeedTypeOK'
  BY <1>4 DEF Publish, FeedTypeOK, feedVars
<1>5. QED
  BY <1>1, <1>2, <1>3, <1>4

LEMMA FeedUnchanged == FeedTypeOK /\ UNCHANGED feedVars => FeedTypeOK'
  BY DEF FeedTypeOK, feedVars

LEMMA TypeStep == TypeOK /\ OneRefresh /\ [Next]_vars => TypeOK'
<1> SUFFICES ASSUME TypeOK, OneRefresh, [Next]_vars PROVE TypeOK'
  OBVIOUS
<1> USE ConstantsAssumption, FeedUnchanged
    DEF TypeOK, Tree, Stats, Input, Version, Callers, Phases, NewTree, NewStats, NewInput
<1>1. ASSUME NEW f \in Files, Edit(f) PROVE TypeOK'
  BY <1>1 DEF Edit, callVars, published
<1>2. ASSUME NEW w \in Watchers, Watch(w) PROVE TypeOK'
  <2>1. FeedTypeOK'
    BY <1>2, FeedTypes DEF Watch
  <2>2. QED
    BY <1>2, <2>1 DEF Watch, callVars
<1>3. ASSUME NEW c \in Callers, Cancel(c) PROVE TypeOK'
  BY <1>3 DEF Cancel, callVars, published
<1>4. ASSUME NEW c \in Callers, Call(c) PROVE TypeOK'
  BY <1>4 DEF Call, published
<1>5. ASSUME NEW c \in Callers, Acquire(c) PROVE TypeOK'
  BY <1>5 DEF Acquire, published, PermitFree
<1>6. ASSUME NEW c \in Callers, Proceed(c) PROVE TypeOK'
  <2>1. CASE AbandonWait(c)
    BY <2>1 DEF AbandonWait, published
  <2>2. ASSUME NEW f \in Files, InspectFile(c, f) PROVE TypeOK'
    BY <2>2 DEF InspectFile, published
  <2>3. ASSUME NEW r \in Reads, ReadFile(c, r) PROVE TypeOK'
    BY <2>3 DEF ReadFile, published
  <2>4. CASE ReturnCurrent(c)
    <3>1. graph \in Revisions \cup {NoRevision} /\ Holds(c)
      BY <2>4 DEF ReturnCurrent, FeedTypeOK, Holds
    <3>2. QED
      BY <2>4, <3>1, ReturnTypes DEF ReturnCurrent, published
  <2>5. CASE StartAnalysis(c)
    BY <2>5 DEF StartAnalysis, published
  <2>6. CASE Fail(c)
    <3>1. Holds(c) /\ failures' \in 0 .. MaxFailures
      BY <2>6 DEF Fail, Holds
    <3>2. QED
      BY <2>6, <3>1, ReturnTypes DEF Fail, published
  <2>7. CASE Store(c)
    <3>1. RevisionOf[input[c]] \in Revisions /\ Holds(c)
      BY <2>7 DEF Store, Holds
    <3>2. FeedTypeOK'
      BY <2>7, <3>1, FeedTypes DEF Store
    <3>3. snapshot' \in Stats /\ analyzed' \in Input
      BY <2>7 DEF Store, SnapshotToStore
    <3>4. QED
      BY <2>7, <3>1, <3>2, <3>3, ReturnTypes DEF Store
  <2>8. CASE Finish(c)
    BY <2>8 DEF Finish, published, ContextAfter
  <2>9. QED
    BY <1>6, <2>1, <2>2, <2>3, <2>4, <2>5, <2>6, <2>7, <2>8 DEF Proceed
<1>7. CASE StopTicker
  BY <1>7 DEF StopTicker, published
<1>8. CASE UNCHANGED vars
  BY <1>8 DEF vars, callVars, published
<1>9. QED
  BY <1>1, <1>2, <1>3, <1>4, <1>5, <1>6, <1>7, <1>8 DEF Next

(* Only Acquire takes the permit, and only when no caller holds it. *)
LEMMA PermitStep == TypeOK /\ OneRefresh /\ [Next]_vars => OneRefresh'
<1> SUFFICES ASSUME TypeOK, OneRefresh, [Next]_vars PROVE OneRefresh'
  OBVIOUS
<1>1. pc \in [Callers -> Phases] /\ permits \in 0 .. 1 /\ Ticker \in Callers
  BY DEF TypeOK, Callers
<1> USE <1>1 DEF OneRefresh, Holds
<1>2. CASE UNCHANGED <<pc, permits>>
  BY <1>2
<1>3. ASSUME NEW c \in Callers,
             Call(c) \/ AbandonWait(c) \/ Finish(c) \/ StartAnalysis(c)
      PROVE  OneRefresh'
  BY <1>3 DEF Call, AbandonWait, Finish, StartAnalysis
<1>4. ASSUME NEW c \in Callers, Acquire(c) PROVE OneRefresh'
  BY <1>4 DEF Acquire, PermitFree
<1>5. ASSUME NEW c \in Callers, ReturnCurrent(c) \/ Fail(c) \/ Store(c) PROVE OneRefresh'
  BY <1>5 DEF ReturnCurrent, Fail, Store, Return, Released
<1>6. CASE StopTicker
  BY <1>6 DEF StopTicker
<1>7. QED
  <2>1. ASSUME NEW c \in Callers, NEW x \in Files \cup Reads, InspectFile(c, x) \/ ReadFile(c, x)
        PROVE  OneRefresh'
    BY <2>1, <1>2 DEF InspectFile, ReadFile, StartAnalysis
  <2>2. ASSUME NEW c \in Callers, Cancel(c) PROVE OneRefresh'
    BY <2>2, <1>2 DEF Cancel, callVars
  <2>3. CASE (\E f \in Files : Edit(f)) \/ (\E w \in Watchers : Watch(w)) \/ UNCHANGED vars
    BY <2>3, <1>2 DEF Edit, Watch, vars, callVars
  <2>4. QED
    BY <2>1, <2>2, <2>3, <1>3, <1>4, <1>5, <1>6 DEF Next, Proceed

LEMMA InitTypes == Init => TypeOK /\ OneRefresh
  BY ConstantsAssumption, NoRevisionAssumption
     DEF Init, FeedInit, TypeOK, FeedTypeOK, OneRefresh, Holds, Tree, Stats, Version,
         Callers, Phases, NewTree, NewStats, Input, NewInput

(* Every variable keeps its type, and refreshes exclude each other. *)
THEOREM TypeCorrect == Spec => []TypeOK
  BY InitTypes, TypeStep, PermitStep, PTL DEF Spec

(* At most one goroutine is between acquireRefreshPermit and               *)
(* releaseRefreshPermit, and the token in the channel is its own.          *)
THEOREM MutualExclusion == Spec => []OneRefresh
  BY InitTypes, TypeStep, PermitStep, PTL DEF Spec

-----------------------------------------------------------------------------
(* Freshness.  `disk` only grows, so whatever a call reads later is not    *)
(* older than what it read before; and what the holder of the permit reads *)
(* is not older than what is published, because nobody else publishes.     *)

LEMMA DiskGrows == TypeOK /\ [Next]_vars => NotOlder(Files, disk, disk')
<1> SUFFICES ASSUME TypeOK, [Next]_vars PROVE NotOlder(Files, disk, disk')
  OBVIOUS
<1>1. ASSUME NEW f \in Files, Edit(f) PROVE NotOlder(Files, disk, disk')
  BY <1>1 DEF Edit, NotOlder, TypeOK, Tree, Version
<1>2. CASE disk' = disk
  BY <1>2 DEF NotOlder, TypeOK, Tree, Version
<1>3. QED
  BY <1>1, <1>2 DEF Next, vars, Watch, Cancel, Call, Acquire, Proceed, AbandonWait,
                    InspectFile, ReadFile, ReturnCurrent, StartAnalysis, Fail, Store, Finish,
                    Return, StopTicker

(* Versions from s to t are from s to anything later. *)
LEMMA ReusedLater ==
  ASSUME NEW s \in Tree, NEW t \in Tree, NEW u \in Tree, NotOlder(Files, t, u),
         NEW i \in Input, ReusedSince(s, t, i)
  PROVE  ReusedSince(s, u, i)
<1> SUFFICES ASSUME NEW r \in Reads, FileOf[r] \in Tracked, NEW f \in Files, f = FileOf[r]
             PROVE  LookedAs(f, i[r], s[f], u[f]) \/ LookedAgain(f, i[r], s[f], u[f])
  BY ConstantsAssumption DEF ReusedSince
<1>1. s[f] .. t[f] \subseteq s[f] .. u[f]
  BY ConstantsAssumption DEF NotOlder, Tree, Version
<1>2. LookedAs(f, i[r], s[f], t[f]) \/ LookedAgain(f, i[r], s[f], t[f])
  BY DEF ReusedSince
<1>3. QED
  BY <1>1, <1>2 DEF LookedAs, LookedAgain

(* What was read since s and by t may be reused between s and t. *)
LEMMA ReadIsReusable ==
  ASSUME NEW s \in Tree, NEW t \in Tree, NEW i \in Input, ReadSince(s, i), ReadBefore(i, t)
  PROVE  ReusedSince(s, t, i)
<1> SUFFICES ASSUME NEW r \in Reads, FileOf[r] \in Tracked, NEW f \in Files, f = FileOf[r]
             PROVE  LookedAs(f, i[r], s[f], t[f])
  BY ConstantsAssumption DEF ReusedSince
<1>1. i[r] \in s[f] .. t[f]
  BY ConstantsAssumption DEF ReadSince, ReadBefore, Tree, Input, Version
<1>2. QED
  BY <1>1 DEF LookedAs, Alike

(* Equal snapshots vouch for the published analysis: each file looks, at a *)
(* version since the call, as in the stored snapshot, and was read later   *)
(* than that snapshot was taken.                                           *)
LEMMA EqualSnapshots ==
  ASSUME TypeOK, PublishedInv, NEW c \in Callers, InspectingInv(c), todo[c] = {},
         UnchangedFiles(c)
  PROVE  ReusedSince(since[c], disk, analyzed)
<1> SUFFICES ASSUME NEW r \in Reads, FileOf[r] \in Tracked, NEW f \in Files, f = FileOf[r]
             PROVE  \/ LookedAs(f, analyzed[r], since[c][f], disk[f])
                    \/ LookedAgain(f, analyzed[r], since[c][f], disk[f])
  BY ConstantsAssumption DEF ReusedSince
<1> DEFINE then == snapshot[f]
           now == stats[c][f]
           v == analyzed[r]
<1>1. /\ then \in Nat /\ now \in Nat /\ v \in Nat
      /\ since[c][f] \in Nat /\ disk[f] \in Nat
  BY ConstantsAssumption DEF TypeOK, Tree, Stats, Input, Version
<1>2. then <= v /\ v <= disk[f]
  BY DEF PublishedInv, ReadSince, ReadBefore
<1>3. since[c][f] <= now /\ now <= disk[f] /\ Alike(f, then, now)
  BY DEF InspectingInv, UnchangedFiles, Alike
<1>4. CASE v < now
  <2>1. then \in 0 .. v /\ now \in since[c][f] .. disk[f]
    BY <1>1, <1>2, <1>3
  <2>2. QED
    BY <1>3, <1>4, <2>1 DEF LookedAgain
<1>5. CASE now <= v
  <2>1. v \in since[c][f] .. disk[f]
    BY <1>1, <1>2, <1>3, <1>5
  <2>2. QED
    BY <2>1 DEF LookedAs, Alike
<1>6. QED
  BY <1>1, <1>4, <1>5

(* A caller whose locals, and whose view of `analyzed`, did not change     *)
(* keeps its part of OrderedReads while the files grow.                    *)
LEMMA CallKept ==
  ASSUME TypeOK, TypeOK', NotOlder(Files, disk, disk'),
         NEW c \in Callers, CallInv(c), ResultIsFresh(c),
         pc'[c] = pc[c], todo'[c] = todo[c], stats'[c] = stats[c], input'[c] = input[c],
         since'[c] = since[c], result'[c] = result[c],
         pc[c] = "analyzing" => analyzed' = analyzed
  PROVE  CallInv(c)' /\ ResultIsFresh(c)'
<1> USE ConstantsAssumption DEF TypeOK, Tree, Stats, Input, Version
<1>1. NotOlder(Files, since[c], disk)'
  BY DEF CallInv, NotOlder
<1>2. (pc[c] = "inspecting" => InspectingInv(c))'
  BY DEF CallInv, NotOlder, InspectingInv
<1>3. (pc[c] = "analyzing" => AnalyzingInv(c))'
  BY DEF CallInv, NotOlder, AnalyzingInv
<1>4. ResultIsFresh(c)'
  <2> SUFFICES ASSUME pc'[c] = "returned", result'[c] # NoRevision
               PROVE  \E i \in Input : /\ ReusedSince(since'[c], disk', i)
                                       /\ ReadBefore(i, disk')
                                       /\ result'[c] = RevisionOf[i]
    BY DEF ResultIsFresh
  <2>1. PICK i \in Input : /\ ReusedSince(since[c], disk, i)
                           /\ ReadBefore(i, disk)
                           /\ result[c] = RevisionOf[i]
    BY DEF ResultIsFresh
  <2>2. ReadBefore(i, disk')
    BY <2>1 DEF ReadBefore, NotOlder
  <2>3. ReusedSince(since[c], disk', i)
    BY <2>1, ReusedLater
  <2>4. QED
    BY <2>1, <2>2, <2>3
<1>5. QED
  BY <1>1, <1>2, <1>3, <1>4 DEF CallInv

(* A step of c leaves the other calls as they are: it changes the locals   *)
(* of c only, and `analyzed` only if c holds the permit.                   *)
LEMMA OthersKept ==
  ASSUME TypeOK, TypeOK', OrderedReads, NotOlder(Files, disk, disk'),
         NEW c \in Callers,
         pc' = [pc EXCEPT ![c] = pc'[c]], todo' = [todo EXCEPT ![c] = todo'[c]],
         stats' = [stats EXCEPT ![c] = stats'[c]], input' = [input EXCEPT ![c] = input'[c]],
         since' = [since EXCEPT ![c] = since'[c]], result' = [result EXCEPT ![c] = result'[c]],
         analyzed' = analyzed \/ Holds(c),
         NEW d \in Callers, d # c
  PROVE  CallInv(d)' /\ ResultIsFresh(d)'
<1>1. /\ pc'[d] = pc[d] /\ todo'[d] = todo[d] /\ stats'[d] = stats[d]
      /\ input'[d] = input[d] /\ since'[d] = since[d] /\ result'[d] = result[d]
  BY DEF TypeOK
<1>2. pc[d] = "analyzing" => analyzed' = analyzed
  BY DEF OrderedReads, OneRefresh, Holds
<1>3. CallInv(d) /\ ResultIsFresh(d)
  BY DEF OrderedReads
<1>4. QED
  BY <1>1, <1>2, <1>3, CallKept

(* The step of a caller preserves its own part and the published part. *)
LEMMA CallerStep ==
  ASSUME TypeOK, TypeOK', OrderedReads, NotOlder(Files, disk, disk'),
         NEW c \in Callers, Call(c) \/ Acquire(c) \/ Proceed(c)
  PROVE  /\ PublishedInv'
         /\ \A d \in Callers : CallInv(d)' /\ ResultIsFresh(d)'
<1> USE ConstantsAssumption
    DEF Tree, Stats, Input, Version, NewTree, NewStats, NewInput, ReadSince, ReadBefore
<1>1. PublishedInv /\ CallInv(c) /\ ResultIsFresh(c)
  BY DEF OrderedReads
<1> DEFINE
      OwnInv == PublishedInv' /\ CallInv(c)' /\ ResultIsFresh(c)'
      OwnFrame == /\ pc' = [pc EXCEPT ![c] = pc'[c]]
                  /\ todo' = [todo EXCEPT ![c] = todo'[c]]
                  /\ stats' = [stats EXCEPT ![c] = stats'[c]]
                  /\ input' = [input EXCEPT ![c] = input'[c]]
                  /\ since' = [since EXCEPT ![c] = since'[c]]
                  /\ result' = [result EXCEPT ![c] = result'[c]]
                  /\ analyzed' = analyzed \/ Holds(c)
<1>2. SUFFICES OwnInv /\ OwnFrame
  BY <1>2, OthersKept
<1>3. CASE Call(c)
  BY <1>1, <1>3 DEF Call, TypeOK, PublishedInv, CallInv, ResultIsFresh, NotOlder, feedVars,
                    published
<1>4. CASE Acquire(c)
  BY <1>1, <1>4 DEF Acquire, TypeOK, PublishedInv, CallInv, ResultIsFresh, InspectingInv,
                    NotOlder, feedVars, published
<1>5. CASE AbandonWait(c)
  BY <1>1, <1>5 DEF AbandonWait, TypeOK, PublishedInv, CallInv, ResultIsFresh, NotOlder,
                    feedVars, published
<1>6. ASSUME NEW f \in Files, InspectFile(c, f) PROVE OwnInv /\ OwnFrame
  BY <1>1, <1>6 DEF InspectFile, TypeOK, PublishedInv, CallInv, ResultIsFresh, InspectingInv,
                    NotOlder, feedVars, published
<1>7. ASSUME NEW r \in Reads, ReadFile(c, r) PROVE OwnInv /\ OwnFrame
  BY <1>1, <1>7 DEF ReadFile, TypeOK, PublishedInv, CallInv, ResultIsFresh, AnalyzingInv,
                    NotOlder, feedVars, published
<1>8. CASE ReturnCurrent(c)
  <2>1. OwnFrame /\ PublishedInv' /\ CallInv(c)'
    BY <1>1, <1>8 DEF ReturnCurrent, Return, TypeOK, PublishedInv, CallInv, NotOlder,
                      published, feedVars
  <2>2. ReusedSince(since[c], disk, analyzed)
    BY <1>1, <1>8, EqualSnapshots DEF ReturnCurrent, CallInv
  <2>3. since'[c] = since[c] /\ disk' = disk /\ result'[c] = RevisionOf[analyzed]
    BY <1>1, <1>8 DEF ReturnCurrent, Return, PublishedInv, TypeOK
  <2>4. QED
    BY <1>1, <2>1, <2>2, <2>3 DEF ResultIsFresh, PublishedInv, TypeOK
<1>9. CASE StartAnalysis(c)
  BY <1>1, <1>9 DEF StartAnalysis, TypeOK, PublishedInv, CallInv, ResultIsFresh, InspectingInv,
                    AnalyzingInv, NotOlder, feedVars, published
<1>10. CASE Fail(c)
  BY <1>1, <1>10 DEF Fail, Return, TypeOK, PublishedInv, CallInv, ResultIsFresh, NotOlder,
                     feedVars, published
<1>11. CASE Store(c)
  <2>1. OwnFrame /\ CallInv(c)'
    BY <1>1, <1>11 DEF Store, Return, TypeOK, CallInv, NotOlder, Holds
  <2>2. /\ ReadSince(stats[c], input[c])
        /\ ReadBefore(input[c], disk)
        /\ NotOlder(Tracked, since[c], stats[c])
    BY <1>1, <1>11 DEF Store, CallInv, AnalyzingInv, NotOlder
  <2>3. graph' = RevisionOf[input[c]]
    BY <1>11 DEF Store, Publish, feedVars
  <2>4. PublishedInv'
    BY <1>11, <2>2, <2>3 DEF Store, Return, PublishedInv, NotOlder, SnapshotToStore
  <2>5. ReadSince(since[c], input[c])
    BY <2>2 DEF NotOlder, TypeOK
  <2>6. since'[c] = since[c] /\ disk' = disk /\ result'[c] = RevisionOf[input[c]]
    BY <1>11 DEF Store, Return, TypeOK
  <2>7. ResultIsFresh(c)'
    <3>1. ReusedSince(since[c], disk, input[c])
      BY <2>2, <2>5, ReadIsReusable DEF TypeOK
    <3>2. QED
      BY <2>2, <2>6, <3>1 DEF ResultIsFresh, TypeOK
  <2>8. QED
    BY <2>1, <2>4, <2>7
<1>12. CASE Finish(c)
  BY <1>1, <1>12 DEF Finish, TypeOK, PublishedInv, CallInv, ResultIsFresh, NotOlder, feedVars,
                     published
<1>13. QED
  BY <1>3, <1>4, <1>5, <1>6, <1>7, <1>8, <1>9, <1>10, <1>11, <1>12 DEF Proceed

LEMMA OrderedReadsStep == TypeOK /\ OrderedReads /\ [Next]_vars => OrderedReads'
<1> SUFFICES ASSUME TypeOK, OrderedReads, [Next]_vars PROVE OrderedReads'
  OBVIOUS
<1>1. TypeOK' /\ OneRefresh' /\ NotOlder(Files, disk, disk')
  BY TypeStep, PermitStep, DiskGrows DEF OrderedReads
<1>2. SUFFICES /\ PublishedInv'
               /\ \A c \in Callers : CallInv(c)' /\ ResultIsFresh(c)'
  BY <1>1, <1>2 DEF OrderedReads
<1>3. CASE \E c \in Callers : Call(c) \/ Acquire(c) \/ Proceed(c)
  BY <1>1, <1>3, CallerStep
<1> DEFINE OutsideCalls ==
             /\ UNCHANGED <<todo, stats, input, since, result, analyzed, snapshot, graph>>
             /\ \/ pc' = pc
                \/ pc' = [pc EXCEPT ![Ticker] = "stopped"] /\ pc[Ticker] = "idle"
<1>4. CASE OutsideCalls
  <2>1. PublishedInv'
    BY <1>1, <1>4, ConstantsAssumption
       DEF OrderedReads, PublishedInv, NotOlder, ReadSince, ReadBefore, TypeOK, Tree, Input, Version
  <2>2. ASSUME NEW c \in Callers, pc'[c] = pc[c] PROVE CallInv(c)' /\ ResultIsFresh(c)'
    BY <1>1, <1>4, <2>2, CallKept DEF OrderedReads
  <2>3. ASSUME NEW c \in Callers, pc[c] = "idle", pc'[c] = "stopped"
        PROVE  CallInv(c)' /\ ResultIsFresh(c)'
    BY <1>1, <1>4, <2>3, ConstantsAssumption
       DEF OrderedReads, CallInv, ResultIsFresh, NotOlder, TypeOK, Tree, Version
  <2>4. QED
    BY <1>4, <2>1, <2>2, <2>3 DEF TypeOK
<1>5. QED
  <2>1. ASSUME NEW f \in Files, Edit(f) PROVE OutsideCalls
    BY <2>1 DEF Edit, feedVars, callVars, published
  <2>2. ASSUME NEW w \in Watchers, Watch(w) PROVE OutsideCalls
    BY <2>2 DEF Watch, Subscribe, Receive, Unsubscribe, callVars
  <2>3. ASSUME NEW c \in Callers, Cancel(c) PROVE OutsideCalls
    BY <2>3 DEF Cancel, feedVars, callVars, published
  <2>4. CASE StopTicker
    BY <1>4, <2>4 DEF StopTicker, feedVars, published
  <2>5. CASE UNCHANGED vars
    BY <1>4, <2>5 DEF feedVars, callVars, vars, published
  <2>6. QED
    BY <1>3, <1>4, <2>1, <2>2, <2>3, <2>4, <2>5 DEF Next

LEMMA OrderedReadsInvariant == Spec => [](TypeOK /\ OrderedReads)
<1>1. Init => OrderedReads
  BY ConstantsAssumption, InitTypes
     DEF Init, FeedInit, OrderedReads, PublishedInv, CallInv, ResultIsFresh, NotOlder,
         NewTree, Tree, Version, ReadSince, ReadBefore
<1>2. TypeOK /\ OrderedReads /\ [Next]_vars => TypeOK'
  BY TypeStep DEF OrderedReads
<1>3. QED
  BY <1>1, <1>2, InitTypes, OrderedReadsStep, PTL DEF Spec

(* A refresh that succeeds returns the graph of reads of the tracked files *)
(* that show them as they looked since the call of freshGraph, or that     *)
(* equal snapshots cannot tell from that.                                  *)
THEOREM Freshness == Spec => []RefreshIsFresh
<1>1. OrderedReads => RefreshIsFresh
  BY DEF OrderedReads, RefreshIsFresh
<1>2. QED
  BY <1>1, OrderedReadsInvariant, PTL

(* When the stored snapshot matches the files, the published graph is the  *)
(* graph of these files, but for the reads that came between two edits     *)
(* after which a file looks as before both.                                *)
THEOREM SkippingIsSound == Spec => []UnchangedMeansCurrent
<1>1. TypeOK /\ OrderedReads => UnchangedMeansCurrent
  <2> SUFFICES ASSUME TypeOK, PublishedInv,
                      \A f \in Tracked : Alike(f, snapshot[f], disk[f]),
                      NEW r \in Reads, FileOf[r] \in Tracked,
                      ~Alike(FileOf[r], analyzed[r], disk[FileOf[r]])
               PROVE  IsMissed(r)
    BY DEF OrderedReads, UnchangedMeansCurrent, ShowsFiles, PublishedInv
  <2> DEFINE f == FileOf[r]
  <2>1. snapshot[f] \in Nat /\ analyzed[r] \in Nat /\ disk[f] \in Nat
    BY ConstantsAssumption DEF TypeOK, Tree, Stats, Input, Version
  <2>2. snapshot[f] <= analyzed[r] /\ analyzed[r] <= disk[f]
    BY DEF PublishedInv, ReadSince, ReadBefore
  <2>3. analyzed[r] # disk[f] /\ analyzed[r] # snapshot[f]
    BY DEF Alike
  <2>4. QED
    BY <2>1, <2>2, <2>3 DEF IsMissed
<1>2. QED
  BY <1>1, OrderedReadsInvariant, PTL

-----------------------------------------------------------------------------
(* Refinement: freshGraph implements FreshGraph.                           *)

LEMMA StoreMovesForward ==
  ASSUME TypeOK, OrderedReads, NEW c \in Callers, Store(c)
  PROVE  /\ analyzed' \in Input
         /\ NotOlder(Reads, analyzed, analyzed')
         /\ ReadSince(since[c], analyzed')
         /\ ReadBefore(analyzed', disk)
<1>1. pc[c] = "analyzing" /\ todo[c] = {} /\ analyzed' = input[c]
  BY DEF Store
<1>2. AnalyzingInv(c) /\ input[c] \in Input
  BY <1>1 DEF OrderedReads, CallInv, TypeOK
<1>3. \A r \in Reads : FileOf[r] \in Tracked =>
        /\ since[c][FileOf[r]] \in Nat /\ stats[c][FileOf[r]] \in Nat /\ input[c][r] \in Nat
  BY <1>2, ConstantsAssumption DEF TypeOK, Tree, Stats, Input, Version
<1>4. QED
  BY <1>1, <1>2, <1>3 DEF AnalyzingInv, NotOlder, ReadSince, ReadBefore

(* The published graph never goes back to older files. *)
THEOREM MovesForward == Spec => PublishedMovesForward
<1>1. TypeOK /\ OrderedReads /\ [Next]_vars => [NotOlder(Reads, analyzed, analyzed')]_analyzed
  <2>1. ASSUME TypeOK, OrderedReads, NEW c \in Callers, Store(c)
        PROVE  NotOlder(Reads, analyzed, analyzed')
    BY <2>1, StoreMovesForward
  <2>2. QED
    BY <2>1 DEF Next, Proceed, Edit, Watch, Cancel, Call, Acquire, AbandonWait, InspectFile,
                ReadFile, ReturnCurrent, StartAnalysis, Fail, Finish, StopTicker, vars,
                published
<1>2. QED
  BY <1>1, OrderedReadsInvariant, PTL DEF Spec, PublishedMovesForward

(* How the phase of a caller maps to its abstract call. *)
LEMMA CallMap ==
  ASSUME TypeOK, NEW c \in Callers, NEW p \in Phases, pc' = [pc EXCEPT ![c] = p]
  PROVE  [d \in Callers |-> CallOf(d)]' =
           [[d \in Callers |-> CallOf(d)] EXCEPT
             ![c] = CASE p \in {"idle", "stopped"} -> "none"
                      [] p = "returned" -> "returned"
                      [] OTHER -> "pending"]
  BY DEF TypeOK, CallOf

LEMMA FreshStep ==
  TypeOK /\ OrderedReads /\ [Next]_vars => [Fresh!Next]_(Fresh!vars)
<1> SUFFICES ASSUME TypeOK, OrderedReads, [Next]_vars
             PROVE  Fresh!Next \/ UNCHANGED Fresh!vars
  OBVIOUS
<1> DEFINE call == [c \in Callers |-> CallOf(c)]
<1>1. ASSUME NEW f \in Files, Edit(f) PROVE Fresh!Edit(f)
  BY <1>1 DEF Edit, Fresh!Edit, callVars, CallOf, published
<1>2. ASSUME pc' = pc, UNCHANGED <<disk, analyzed, since, result>> PROVE UNCHANGED Fresh!vars
  BY <1>2 DEF Fresh!vars, CallOf
<1>3. ASSUME NEW c \in Callers, Call(c) PROVE Fresh!Begin(c)
  <2>1. call[c] = "none" /\ call' = [call EXCEPT ![c] = "pending"]
    BY <1>3, CallMap DEF Call, CallOf, Phases
  <2>2. QED
    BY <1>3, <2>1 DEF Call, Fresh!Begin, published
<1>4. ASSUME NEW c \in Callers, Acquire(c) \/ StartAnalysis(c) PROVE UNCHANGED Fresh!vars
  <2>1. call' = call
    BY <1>4 DEF Acquire, StartAnalysis, CallOf, TypeOK
  <2>2. QED
    BY <1>4, <2>1 DEF Acquire, StartAnalysis, Fresh!vars, published
<1>5. ASSUME NEW c \in Callers, AbandonWait(c) PROVE Fresh!Fail(c)
  <2>1. call[c] = "pending" /\ call' = [call EXCEPT ![c] = "returned"]
    BY <1>5, CallMap DEF AbandonWait, CallOf, Phases
  <2>2. QED
    BY <1>5, <2>1 DEF AbandonWait, Fresh!Fail, published
<1>6. ASSUME NEW c \in Callers, Fail(c) PROVE Fresh!Fail(c)
  <2>1. call[c] = "pending" /\ call' = [call EXCEPT ![c] = "returned"]
    BY <1>6, CallMap DEF Fail, Return, CallOf, Phases
  <2>2. result' = result
    BY <1>6 DEF Fail, Return, OrderedReads, CallInv, TypeOK
  <2>3. QED
    BY <1>6, <2>1, <2>2 DEF Fail, Return, Fresh!Fail, published
<1>7. ASSUME NEW c \in Callers, ReturnCurrent(c) PROVE Fresh!Reuse(c)
  <2>1. call[c] = "pending" /\ call' = [call EXCEPT ![c] = "returned"]
    BY <1>7, CallMap DEF ReturnCurrent, Return, CallOf, Phases
  <2>2. analyzed' = analyzed /\ graph = RevisionOf[analyzed]
    BY <1>7 DEF ReturnCurrent, OrderedReads, PublishedInv, published
  <2>3. ReusedSince(since[c], disk, analyzed)
    BY <1>7, EqualSnapshots DEF ReturnCurrent, OrderedReads, CallInv
  <2>4. Fresh!ReusedSince(since[c], disk, analyzed)
    BY <2>3
       DEF ReusedSince, LookedAs, LookedAgain, Alike,
           Fresh!ReusedSince, Fresh!LookedAs, Fresh!LookedAgain, Fresh!Alike
  <2>5. QED
    BY <1>7, <2>1, <2>2, <2>4 DEF ReturnCurrent, Return, Fresh!Reuse, Fresh!Succeed
<1>8. ASSUME NEW c \in Callers, Store(c) PROVE Fresh!Analyze(c)
  <2>1. call[c] = "pending" /\ call' = [call EXCEPT ![c] = "returned"]
    BY <1>8, CallMap DEF Store, Return, CallOf, Phases
  <2>2. analyzed' = input[c]
    BY <1>8 DEF Store
  <2>3. QED
    BY <1>8, <2>1, <2>2, StoreMovesForward
       DEF Store, Return, Fresh!Analyze, Fresh!Succeed, Fresh!NotOlder, NotOlder, Fresh!Input,
           Input, Fresh!ReadSince, ReadSince, Fresh!ReadBefore, ReadBefore, Fresh!Version, Version
<1>9. ASSUME NEW c \in Callers, Finish(c) PROVE Fresh!End(c)
  <2>1. call[c] = "returned" /\ call' = [call EXCEPT ![c] = "none"]
    BY <1>9, CallMap DEF Finish, CallOf, Phases
  <2>2. QED
    BY <1>9, <2>1 DEF Finish, Fresh!End, Fresh!NewTree, NewTree, published
<1>10. CASE StopTicker
  <2>1. call' = call
    BY <1>10 DEF StopTicker, CallOf, TypeOK
  <2>2. QED
    BY <1>10, <2>1 DEF StopTicker, Fresh!vars, published
<1>11. QED
  <2>1. ASSUME NEW c \in Callers, NEW x \in Files \cup Reads, InspectFile(c, x) \/ ReadFile(c, x)
        PROVE  UNCHANGED Fresh!vars
    BY <1>2, <2>1 DEF InspectFile, ReadFile, published
  <2>2. ASSUME NEW c \in Callers, Cancel(c) PROVE UNCHANGED Fresh!vars
    BY <1>2, <2>2 DEF Cancel, callVars, published
  <2>3. ASSUME NEW w \in Watchers, Watch(w) PROVE UNCHANGED Fresh!vars
    BY <1>2, <2>3 DEF Watch, callVars
  <2>4. CASE UNCHANGED vars
    BY <1>2, <2>4 DEF vars, callVars, published
  <2>5. QED
    BY <1>1, <1>3, <1>4, <1>5, <1>6, <1>7, <1>8, <1>9, <1>10, <2>1, <2>2, <2>3, <2>4
       DEF Next, Proceed, Fresh!Next

(* freshGraph is linearizable: with its permit, its snapshots and its file *)
(* by file reads it implements the one-step refresh of FreshGraph, which   *)
(* analyzes or reuses.                                                     *)
THEOREM Refinement == Spec => ImplementsFreshGraph
<1>1. Init => Fresh!Init
  BY DEF Init, Fresh!Init, CallOf, Fresh!NewTree, NewTree, Fresh!Tree, Tree, Fresh!Version,
         Version, Fresh!Input, Input, Fresh!ReadBefore, ReadBefore, Fresh!NotOlder, NotOlder
<1>2. QED
  BY <1>1, FreshStep, OrderedReadsInvariant, PTL DEF Spec, ImplementsFreshGraph, Fresh!Spec

-----------------------------------------------------------------------------
(* The subscribers' channels.                                              *)

(* A subscriber whose channel is empty has missed no publication, although *)
(* the offer to a full channel is dropped.                                 *)
THEOREM Wakeups == Spec => []NoLostWakeup
<1>1. Init => NoLostWakeup
  BY DEF Init, FeedInit, NoLostWakeup
<1>2. TypeOK /\ NoLostWakeup /\ [Next]_vars => NoLostWakeup'
  <2> SUFFICES ASSUME TypeOK, NoLostWakeup, [Next]_vars PROVE NoLostWakeup'
    OBVIOUS
  <2>1. ASSUME NEW w \in Watchers, Watch(w) PROVE NoLostWakeup'
    <3>1. CASE Subscribe(w)
      BY <3>1 DEF Subscribe, NoLostWakeup, TypeOK, FeedTypeOK
    <3>2. CASE Receive(w)
      BY <3>2 DEF Receive, NoLostWakeup, TypeOK, FeedTypeOK
    <3>3. CASE Unsubscribe(w)
      BY <3>3 DEF Unsubscribe, NoLostWakeup, TypeOK, FeedTypeOK
    <3>4. QED
      BY <2>1, <3>1, <3>2, <3>3 DEF Watch
  <2>2. ASSUME NEW c \in Callers, Store(c) PROVE NoLostWakeup'
    <3>1. RevisionOf[input[c]] # NoRevision
      BY ConstantsAssumption, NoRevisionAssumption DEF TypeOK
    <3>2. QED
      BY <2>2, <3>1 DEF Store, Publish, feedVars, NoLostWakeup, TypeOK, FeedTypeOK, Offered
  <2>3. CASE UNCHANGED feedVars
    BY <2>3 DEF feedVars, NoLostWakeup
  <2>4. QED
    BY <2>1, <2>2, <2>3 DEF Next, Proceed, Edit, Cancel, Call, Acquire, AbandonWait,
                            InspectFile, ReadFile, ReturnCurrent, StartAnalysis, Fail, Finish,
                            StopTicker, vars, published
<1>3. QED
  BY <1>1, <1>2, TypeCorrect, PTL DEF Spec
=============================================================================
