----------------------------- MODULE LiveConsole -----------------------------
(***************************************************************************)
(* The web console that is kept current by the server: GraphStore          *)
(* (web/.../kernel/graph/graph.store.ts), the WatchGraph and GetGraph      *)
(* handlers it talks to (graphservice.go) and the published graph and      *)
(* channel of GraphFeed (monitor.go).                                      *)
(*                                                                         *)
(* The store runs on one thread: what runs between two awaits is one step. *)
(* GetGraph calls are concurrent: their answers come back in any order.    *)
(* The events of the stream come in order.  The plugin catalog, which      *)
(* initialize and refresh load beside the graph, only delays them here.    *)
(***************************************************************************)
EXTENDS GraphFeed, Naturals, Sequences

CONSTANTS
  Console,          \* the one watcher
  MaxPublications,  \* bound: how often the published graph changes
  MaxRefreshes,     \* bound: how often the reader asks for a refresh
  MaxFailures,      \* bound: GetGraph calls that fail
  StreamCapacity,   \* events in flight before stream.Send blocks
  StreamMayEnd      \* whether the server or the network may end the stream

MaxLoads == 1 + MaxRefreshes + MaxPublications
Loads == 1 .. MaxLoads
Epochs == 0 .. MaxPublications

ASSUME ConsoleAssumption ==
  /\ Watchers = {Console}
  /\ MaxPublications \in Nat
  /\ MaxRefreshes \in Nat
  /\ MaxFailures \in Nat
  /\ StreamCapacity \in Nat \ {0}
  /\ StreamMayEnd \in BOOLEAN

VARIABLES
  (* the server *)
  epoch,         \* history: how often `graph` changed
  stream,        \* the WatchGraph call of the console
  events,        \* its events in flight
  told,          \* history: `epoch` when its last READY or CHANGED was made
  failures,      \* how many GetGraph calls failed
  (* the store *)
  loadSequence,
  loads,         \* every call of load: where it is and what was answered
  held,          \* graphState().revision, NoRevision while undefined
  heldEpoch,     \* history: `epoch` when the held graph was answered
  error,         \* whether error() is not empty
  loading,
  refreshLoad,   \* the load that refresh awaits, 0 while not refreshing
  refreshes,     \* how often the reader asked for a refresh
  liveState,
  phase,         \* where initialize is
  awaited        \* the load that initialize or watch awaits, 0 for none

serverVars == <<epoch, stream, events, told, failures>>
loadVars == <<loadSequence, loads>>
viewVars == <<held, heldEpoch, error, loading>>
taskVars == <<refreshLoad, refreshes, liveState, phase, awaited>>
vars == <<feedVars, serverVars, loadVars, viewVars, taskVars>>

GraphEventType == {"READY", "CHANGED", "HEARTBEAT"}

WatchGraphResponse == [type : GraphEventType, revision : Revisions]

TypeOK ==
  /\ FeedTypeOK
  /\ epoch \in Epochs /\ told \in Epochs /\ heldEpoch \in Epochs
  /\ stream \in {"none", "opening", "subscribed", "streaming", "ended"}
  /\ events \in Seq(WatchGraphResponse) /\ Len(events) <= StreamCapacity
  /\ failures \in 0 .. MaxFailures
  /\ loadSequence \in Loads
  /\ loads \in [Loads -> [state : {"unsent", "sent", "answered", "done"},
                          reply : Revisions \cup {NoRevision},
                          epoch : Epochs]]
  /\ held \in Revisions \cup {NoRevision}
  /\ error \in BOOLEAN /\ loading \in BOOLEAN
  /\ refreshLoad \in {0} \cup Loads /\ refreshes \in 0 .. MaxRefreshes
  /\ liveState \in {"connecting", "live", "disconnected"}
  /\ phase \in {"initializing", "watching", "ended"}
  /\ awaited \in {0} \cup Loads

(* initialize has already called load(false). *)
Init ==
  /\ \E revision \in Revisions : FeedInit(revision)
  /\ epoch = 0 /\ told = 0 /\ failures = 0
  /\ stream = "none" /\ events = <<>>
  /\ loadSequence = 1
  /\ loads = [k \in Loads |-> [state |-> IF k = 1 THEN "sent" ELSE "unsent",
                               reply |-> NoRevision, epoch |-> 0]]
  /\ held = NoRevision /\ heldEpoch = 0
  /\ error = FALSE /\ loading = TRUE
  /\ refreshLoad = 0 /\ refreshes = 0
  /\ liveState = "connecting"
  /\ phase = "initializing" /\ awaited = 1

-----------------------------------------------------------------------------
(* The server.                                                             *)

(* freshGraph stores another graph, for a tick or for any client. *)
PublishNext ==
  /\ epoch < MaxPublications
  /\ \E revision \in Revisions \ {graph} : Publish(revision)
  /\ epoch' = epoch + 1
  /\ UNCHANGED <<stream, events, told, failures, loadVars, viewVars, taskVars>>

(* GetGraph answers with the graph that is current when it is answered, or *)
(* fails: a refresh that cannot analyze, a server that cannot be reached.  *)
Answer(k) ==
  /\ loads[k].state = "sent"
  /\ \/ /\ loads' = [loads EXCEPT ![k] = [state |-> "answered", reply |-> graph,
                                          epoch |-> epoch]]
        /\ UNCHANGED failures
     \/ /\ failures < MaxFailures
        /\ failures' = failures + 1
        /\ loads' = [loads EXCEPT ![k].state = "answered"]
  /\ UNCHANGED <<feedVars, epoch, stream, events, told, loadSequence, viewVars, taskVars>>

(* WatchGraph subscribes before it reads the graph for READY. *)
OpenStream ==
  /\ stream = "opening"
  /\ stream' = "subscribed"
  /\ Subscribe(Console)
  /\ UNCHANGED <<epoch, events, told, failures, loadVars, viewVars, taskVars>>

(* stream.Send blocks while the connection is full.                        *)
ConnectionHasRoom == Len(events) < StreamCapacity

Send(type, revision) ==
  /\ ConnectionHasRoom
  /\ events' = Append(events, [type |-> type, revision |-> revision])

SendReady ==
  /\ stream = "subscribed"
  /\ stream' = "streaming"
  /\ Send("READY", graph)
  /\ told' = epoch
  /\ UNCHANGED <<feedVars, epoch, failures, loadVars, viewVars, taskVars>>

SendChanged ==
  /\ stream = "streaming"
  /\ Receive(Console)
  /\ Send("CHANGED", updates[Console])
  /\ told' = epoch
  /\ UNCHANGED <<epoch, stream, failures, loadVars, viewVars, taskVars>>

(* A heartbeat leaves the channel alone; the mutant drains it, because the *)
(* heartbeat carries the current revision anyway.                          *)
AfterHeartbeatMutant == [updates EXCEPT ![Console] = NoRevision]
AfterHeartbeat == updates

SendHeartbeat ==
  /\ stream = "streaming"
  /\ Send("HEARTBEAT", graph)
  /\ updates' = AfterHeartbeat
  /\ UNCHANGED <<graph, subscribers, seen, epoch, stream, told, failures, loadVars, viewVars, taskVars>>

(* The call fails, the handler returns, or the connection breaks under it  *)
(* and takes the events in flight with it.                                 *)
EndStream ==
  /\ StreamMayEnd
  /\ \/ stream = "opening" /\ UNCHANGED feedVars
     \/ stream \in {"subscribed", "streaming"} /\ Unsubscribe(Console)
  /\ stream' = "ended"
  /\ events' \in {events, <<>>}
  /\ UNCHANGED <<epoch, told, failures, loadVars, viewVars, taskVars>>

-----------------------------------------------------------------------------
(* The store.                                                              *)

(* load, up to its await. *)
StartLoad ==
  /\ loadSequence' = loadSequence + 1
  /\ loads' = [loads EXCEPT ![loadSequence + 1].state = "sent"]

(* refresh does nothing while another refresh runs. *)
Refresh ==
  /\ refreshes < MaxRefreshes
  /\ refreshLoad = 0
  /\ StartLoad
  /\ refreshLoad' = loadSequence + 1
  /\ refreshes' = refreshes + 1
  /\ UNCHANGED <<feedVars, serverVars, viewVars, liveState, phase, awaited>>

(* A later load has started; the mutant lets the last answer win. *)
SupersededMutant(k) == FALSE
Superseded(k) == k # loadSequence

(* The load that stops the spinner. *)
StopsSpinner(k) == k = loadSequence

(* load, after its await.  A success is dropped when a later load started; *)
(* a failure is shown whichever load it belongs to.                        *)
FinishLoad(k) ==
  /\ loads[k].state = "answered"
  /\ loads' = [loads EXCEPT ![k].state = "done", ![k].epoch = 0]
  /\ IF loads[k].reply = NoRevision
     THEN /\ error' = TRUE
          /\ UNCHANGED <<held, heldEpoch>>
     ELSE IF Superseded(k)
          THEN UNCHANGED <<held, heldEpoch, error>>
          ELSE held' = loads[k].reply /\ heldEpoch' = loads[k].epoch /\ error' = FALSE
  /\ loading' = (loading /\ ~StopsSpinner(k))
  /\ UNCHANGED <<feedVars, serverVars, loadSequence, taskVars>>

(* load catches its failure, so refresh and watch resume after either end; *)
(* after a success only in the mutant.                                     *)
SettledMutant(k) == loads[k].state = "done" /\ loads[k].reply # NoRevision
Settled(k) == loads[k].state = "done"

EndRefresh ==
  /\ refreshLoad # 0
  /\ Settled(refreshLoad)
  /\ refreshLoad' = 0
  /\ UNCHANGED <<feedVars, serverVars, loadVars, viewVars, refreshes, liveState, phase,
                 awaited>>

(* initialize after its await: a failed load means no stream, ever. *)
StartWatch ==
  /\ phase = "initializing"
  /\ Settled(1)
  /\ awaited' = 0
  /\ IF loads[1].reply = NoRevision
     THEN phase' = "ended" /\ liveState' = "disconnected" /\ UNCHANGED stream
     ELSE phase' = "watching" /\ stream' = "opening" /\ UNCHANGED liveState
  /\ UNCHANGED <<feedVars, epoch, events, told, failures, loadVars, viewVars, refreshLoad,
                 refreshes>>

(* The events that make watch load the graph again.  In the mutant, a      *)
(* refresh that runs makes that unnecessary.                               *)
IsNewsMutant(event) == event.type = "CHANGED" /\ event.revision # held /\ refreshLoad = 0
IsNews(event) == event.type = "CHANGED" /\ event.revision # held

(* One turn of the loop of watch. *)
TakeEvent ==
  /\ phase = "watching"
  /\ awaited = 0
  /\ events # <<>>
  /\ events' = Tail(events)
  /\ liveState' = "live"
  /\ IF IsNews(Head(events))
     THEN StartLoad /\ awaited' = loadSequence + 1
     ELSE UNCHANGED <<loadVars, awaited>>
  /\ UNCHANGED <<feedVars, epoch, stream, told, failures, viewVars, refreshLoad, refreshes,
                 phase>>

ResumeWatch ==
  /\ phase = "watching"
  /\ awaited # 0
  /\ Settled(awaited)
  /\ awaited' = 0
  /\ UNCHANGED <<feedVars, serverVars, loadVars, viewVars, refreshLoad, refreshes, liveState,
                 phase>>

(* The loop ends, or throws: nothing reconnects. *)
EndWatch ==
  /\ phase = "watching"
  /\ awaited = 0
  /\ stream = "ended"
  /\ events = <<>>
  /\ phase' = "ended"
  /\ liveState' = "disconnected"
  /\ error' \in {error, TRUE}
  /\ UNCHANGED <<feedVars, serverVars, loadVars, held, heldEpoch, loading, refreshLoad,
                 refreshes, awaited>>

Next ==
  \/ PublishNext
  \/ OpenStream \/ SendReady \/ SendChanged \/ SendHeartbeat \/ EndStream
  \/ Refresh \/ EndRefresh \/ StartWatch \/ TakeEvent \/ ResumeWatch \/ EndWatch
  \/ \E k \in Loads : Answer(k) \/ FinishLoad(k)

(* Handlers run, requests are answered and the browser runs callbacks.  An *)
(* event is always taken in the end, so heartbeats do not starve the       *)
(* channel: the select of WatchGraph picks at random among what is ready.  *)
Fairness ==
  /\ WF_vars(OpenStream) /\ SF_vars(SendReady) /\ SF_vars(SendChanged)
  /\ \A k \in Loads : WF_vars(Answer(k)) /\ WF_vars(FinishLoad(k))
  /\ WF_vars(EndRefresh) /\ WF_vars(StartWatch) /\ WF_vars(TakeEvent)
  /\ WF_vars(ResumeWatch) /\ WF_vars(EndWatch)

Spec == Init /\ [][Next]_vars /\ Fairness

-----------------------------------------------------------------------------
(* WatchGraph announces every change made after its READY: while its       *)
(* channel is empty, its last READY or CHANGED was made after the graph    *)
(* last changed.  It subscribes before it reads the graph for READY, and a *)
(* dropped offer leaves an older one in the channel to be announced later. *)
NothingUnannounced ==
  stream = "streaming" /\ updates[Console] = NoRevision => told = epoch

(* The console never replaces the graph it shows by one the server         *)
(* published earlier, although answers overtake each other.                *)
NeverGoesBack == [][heldEpoch' >= heldEpoch]_heldEpoch

(* Every spinner stops: the first load's and the refresh control's. *)
LoadingEnds == <>~loading /\ (refreshLoad # 0 ~> refreshLoad = 0)

(* What graph.store.ts says of the stream: it keeps the console current. *)
KeepsCurrent == <>[](liveState = "live" => held = graph)

(* The console shows an old graph, or an old one is on its way to it. *)
Behind ==
  \/ held # graph
  \/ \E k \in Loads : loads[k].state = "answered" /\ loads[k].reply # graph

(* watch is about to discard an announcement, although the console is      *)
(* behind: a READY, whatever its revision, or a CHANGED to the revision    *)
(* the console already holds, behind which a newer offer was dropped.      *)
DiscardsNews ==
  /\ phase = "watching" /\ awaited = 0 /\ events # <<>>
  /\ Behind
  /\ \/ Head(events).type = "READY"
     \/ Head(events).type = "CHANGED" /\ Head(events).revision = held

LoadFails == \E k \in Loads : loads[k].state = "answered" /\ loads[k].reply = NoRevision

(* Those two, and a load that fails, are the only ways the console is left *)
(* behind: without them it becomes current and stays so, however answers,  *)
(* events, refreshes and publications interleave.                          *)
CurrentUnlessDiscarded == KeepsCurrent \/ <>DiscardsNews \/ <>LoadFails

(* What graph.store.ts says of error: empty when the last load succeeded. *)
ErrorIsOfLastLoad ==
  /\ loads[loadSequence].state = "done"
  /\ loads[loadSequence].reply # NoRevision
  /\ phase # "ended"
  => ~error

=============================================================================
