------------------------------ MODULE GraphFeed ------------------------------
(***************************************************************************)
(* The part of graphMonitor that its readers see (monitor.go): the         *)
(* published dependency graph, known by its revision, and one buffered     *)
(* channel of capacity one per subscriber.                                 *)
(*                                                                         *)
(* Every action below runs under graphMonitor.mutex, or is one receive on  *)
(* a channel, so each is one atomic step.  The module has no next-state    *)
(* relation of its own: GraphMonitor adds the refreshing goroutines that   *)
(* publish, LiveConsole the WatchGraph stream that subscribes.             *)
(***************************************************************************)

CONSTANTS
  Watchers,    \* callers of subscribe: one per open WatchGraph stream
  Revisions,   \* digests of analyzed graphs (Graph.Revision)
  NoRevision   \* an empty channel, or a call that returned an error

ASSUME NoRevisionAssumption == NoRevision \notin Revisions

VARIABLES
  graph,        \* monitor.graph, abstracted to its revision
  subscribers,  \* monitor.subscribers
  updates,      \* the buffer of each watcher's channel, NoRevision when empty
  seen          \* history: what `graph` was when the subscriber w last received
                \* or subscribed

feedVars == <<graph, subscribers, updates, seen>>

FeedTypeOK ==
  /\ graph \in Revisions
  /\ subscribers \subseteq Watchers
  /\ updates \in [Watchers -> Revisions \cup {NoRevision}]
  /\ seen \in [Watchers -> Revisions \cup {NoRevision}]

FeedInit(revision) ==
  /\ graph = revision
  /\ subscribers = {}
  /\ updates = [w \in Watchers |-> NoRevision]
  /\ seen = [w \in Watchers |-> NoRevision]

(* The offer to w finds room in its channel.  In the mutant, the loop over  *)
(* the subscribers stops at the first full channel.                         *)
OfferedMutant(w) == w \in subscribers /\ \A v \in subscribers : updates[v] = NoRevision
Offered(w) == w \in subscribers /\ updates[w] = NoRevision

(* The second critical section of freshGraph.  The same revision keeps the *)
(* graph and tells nobody; a new one is offered to every subscriber, and   *)
(* the offer to a subscriber whose buffer is full is dropped.              *)
Publish(revision) ==
  IF revision = graph
  THEN UNCHANGED feedVars
  ELSE /\ graph' = revision
       /\ updates' = [w \in Watchers |-> IF Offered(w) THEN revision ELSE updates[w]]
       /\ UNCHANGED <<subscribers, seen>>

(* subscribe makes an empty channel and registers it. *)
Subscribe(w) ==
  /\ w \notin subscribers
  /\ subscribers' = subscribers \cup {w}
  /\ updates' = [updates EXCEPT ![w] = NoRevision]
  /\ seen' = [seen EXCEPT ![w] = graph]
  /\ UNCHANGED graph

(* unsubscribe forgets the channel, with whatever is still in its buffer. *)
Unsubscribe(w) ==
  /\ w \in subscribers
  /\ subscribers' = subscribers \ {w}
  /\ updates' = [updates EXCEPT ![w] = NoRevision]
  /\ seen' = [seen EXCEPT ![w] = NoRevision]
  /\ UNCHANGED graph

(* `revision := <-updates` in the WatchGraph loop. *)
Receive(w) ==
  /\ w \in subscribers
  /\ updates[w] # NoRevision
  /\ updates' = [updates EXCEPT ![w] = NoRevision]
  /\ seen' = [seen EXCEPT ![w] = graph]
  /\ UNCHANGED <<graph, subscribers>>

(* No lost wake-up: a subscriber whose channel is empty has not missed a   *)
(* publication since it last received, although freshGraph drops the offer *)
(* when the buffer is full: a watcher that reads the current graph after   *)
(* every receive is never left with an old one and nothing to wake it.     *)
NoLostWakeup ==
  \A w \in subscribers : updates[w] = NoRevision => seen[w] = graph

=============================================================================
