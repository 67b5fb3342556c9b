--------------------------- MODULE LiveConsoleProofs ---------------------------
(***************************************************************************)
(* Proofs about LiveConsole, for every number of revisions, publications,  *)
(* refreshes and failures and every capacity of the stream.                *)
(*                                                                         *)
(* That every load has its record needs a count (LoadsAreCounted): watch   *)
(* starts one load at most for each change of the graph, because a change  *)
(* fills the channel once at most and is announced once at most.           *)
(***************************************************************************)
EXTENDS LiveConsole, FiniteSetTheorems, TLAPS

Changes(s) == {i \in DOMAIN s : s[i].type = "CHANGED"}

Waiting == IF updates[Console] = NoRevision THEN 0 ELSE 1

(* What watch has loaded for, is about to be told, and was not told yet. *)
LoadsAreCounted ==
  loadSequence + Cardinality(Changes(events)) + Waiting <= 1 + refreshes + epoch

(* The handler is subscribed for as long as it streams. *)
StreamIsSubscribed == stream \in {"subscribed", "streaming"} => Console \in subscribers

(* A load has no answer before it is answered, and is not sent before its  *)
(* turn.                                                                   *)
UnansweredIsEmpty ==
  \A k \in Loads :
    /\ loads[k].state \in {"unsent", "sent"} => loads[k].reply = NoRevision
    /\ k > loadSequence => loads[k].state = "unsent"

(* Only the answer of the last load is taken, and that load was sent after *)
(* the held graph had come.                                                *)
LastAnswerIsNewer ==
  /\ heldEpoch <= epoch
  /\ loads[loadSequence].state = "answered" /\ loads[loadSequence].reply # NoRevision =>
       loads[loadSequence].epoch >= heldEpoch

ConsoleInv ==
  /\ TypeOK
  /\ LoadsAreCounted
  /\ StreamIsSubscribed
  /\ NothingUnannounced
  /\ UnansweredIsEmpty
  /\ LastAnswerIsNewer

-----------------------------------------------------------------------------
(* Counting the announcements in flight *)

LEMMA NoChanges == IsFiniteSet(Changes(<<>>)) /\ Cardinality(Changes(<<>>)) = 0
<1>1. Changes(<<>>) = {}
  BY DEF Changes
<1> QED
  BY <1>1, FS_EmptySet

LEMMA ChangesAreFinite ==
  ASSUME NEW s \in Seq(WatchGraphResponse)
  PROVE  IsFiniteSet(Changes(s)) /\ Cardinality(Changes(s)) \in Nat
<1>1. Changes(s) \in SUBSET (1 .. Len(s)) /\ Len(s) \in Nat
  BY DEF Changes
<1>2. IsFiniteSet(1 .. Len(s))
  BY <1>1, FS_Interval
<1>3. IsFiniteSet(Changes(s))
  BY <1>1, <1>2, FS_Subset
<1> QED
  BY <1>3, FS_CardinalityType

LEMMA AppendedChanges ==
  ASSUME NEW s \in Seq(WatchGraphResponse), NEW e \in WatchGraphResponse
  PROVE  Cardinality(Changes(Append(s, e))) =
           Cardinality(Changes(s)) + (IF e.type = "CHANGED" THEN 1 ELSE 0)
<1> DEFINE n == Len(s)
<1>1. /\ n \in Nat /\ DOMAIN s = 1 .. n /\ DOMAIN Append(s, e) = 1 .. n + 1
      /\ \A i \in 1 .. n : Append(s, e)[i] = s[i]
      /\ Append(s, e)[n + 1] = e
  OBVIOUS
<1>2. Changes(s) = {i \in 1 .. n : s[i].type = "CHANGED"}
  BY <1>1 DEF Changes
<1>3. Changes(Append(s, e)) = {i \in 1 .. n + 1 : Append(s, e)[i].type = "CHANGED"}
  BY <1>1 DEF Changes
<1> HIDE DEF n
<1>4. CASE e.type = "CHANGED"
  <2>1. Changes(Append(s, e)) = Changes(s) \cup {n + 1} /\ n + 1 \notin Changes(s)
    BY <1>1, <1>2, <1>3, <1>4
  <2> QED
    BY <2>1, <1>4, ChangesAreFinite, FS_AddElement
<1>5. CASE e.type # "CHANGED"
  <2>1. Changes(Append(s, e)) = Changes(s)
    BY <1>1, <1>2, <1>3, <1>5
  <2> QED
    BY <2>1, <1>5, ChangesAreFinite
<1> QED
  BY <1>4, <1>5

LEMMA TailChanges ==
  ASSUME NEW s \in Seq(WatchGraphResponse), s # <<>>
  PROVE  Cardinality(Changes(s)) =
           Cardinality(Changes(Tail(s))) + (IF Head(s).type = "CHANGED" THEN 1 ELSE 0)
<1> DEFINE n == Len(s)
           later == Changes(s) \ {1}
           f == [i \in Changes(Tail(s)) |-> i + 1]
<1>1. /\ n \in Nat \ {0} /\ DOMAIN s = 1 .. n /\ DOMAIN Tail(s) = 1 .. n - 1
      /\ \A i \in 1 .. n - 1 : Tail(s)[i] = s[i + 1]
      /\ Head(s) = s[1]
  OBVIOUS
<1>2. Changes(s) = {i \in 1 .. n : s[i].type = "CHANGED"}
  BY <1>1 DEF Changes
<1>3. Changes(Tail(s)) = {i \in 1 .. n - 1 : s[i + 1].type = "CHANGED"}
  BY <1>1 DEF Changes
<1> HIDE DEF n
<1>4. f \in Bijection(Changes(Tail(s)), later)
  <2>1. f \in [Changes(Tail(s)) -> later]
    BY <1>1, <1>2, <1>3
  <2>2. \A j \in later : j - 1 \in Changes(Tail(s)) /\ f[j - 1] = j
    BY <1>1, <1>2, <1>3
  <2>3. \A a, b \in Changes(Tail(s)) : f[a] = f[b] => a = b
    BY <1>1, <1>3
  <2> QED
    BY <2>1, <2>2, <2>3 DEF Bijection, Injection, Surjection, IsInjective
<1>5. Cardinality(later) = Cardinality(Changes(Tail(s)))
  <2>1. Tail(s) \in Seq(WatchGraphResponse)
    OBVIOUS
  <2> QED
    BY <1>4, <2>1, ChangesAreFinite, FS_Bijection DEF ExistsBijection
<1>6. 1 \in Changes(s) <=> Head(s).type = "CHANGED"
  BY <1>1, <1>2
<1>7. IsFiniteSet(Changes(s)) /\ Cardinality(Changes(s)) \in Nat
  BY ChangesAreFinite
<1>8. Cardinality(later) = IF 1 \in Changes(s) THEN Cardinality(Changes(s)) - 1
                          ELSE Cardinality(Changes(s))
  BY <1>7, FS_RemoveElement
<1> HIDE DEF later
<1> QED
  BY <1>5, <1>6, <1>7, <1>8

-----------------------------------------------------------------------------
(* The invariant *)

LEMMA InitHolds == Init => ConsoleInv
<1> SUFFICES ASSUME Init PROVE ConsoleInv
  OBVIOUS
<1> USE ConsoleAssumption, NoRevisionAssumption
<1>1. events = <<>> /\ updates[Console] = NoRevision /\ stream = "none"
  BY DEF Init, FeedInit
<1>2. TypeOK
  <2>1. FeedTypeOK /\ graph \in Revisions
    BY DEF Init, FeedInit, FeedTypeOK
  <2>2. 1 \in Loads /\ 0 \in Epochs
    BY DEF Loads, MaxLoads, Epochs
  <2>3. /\ loads \in [Loads -> [state : {"unsent", "sent", "answered", "done"},
                              reply : Revisions \cup {NoRevision}, epoch : Epochs]]
        /\ events \in Seq(WatchGraphResponse) /\ Len(events) <= StreamCapacity
        /\ failures \in 0 .. MaxFailures /\ refreshes \in 0 .. MaxRefreshes
    BY <1>1, <2>2 DEF Init
  <2> QED
    BY <1>1, <2>1, <2>2, <2>3 DEF Init, TypeOK
<1>3. LoadsAreCounted
  BY <1>1, NoChanges DEF Init, LoadsAreCounted, Waiting
<1>4. LastAnswerIsNewer
  BY DEF Init, LastAnswerIsNewer, Loads, MaxLoads
<1> QED
  BY <1>1, <1>2, <1>3, <1>4
     DEF Init, ConsoleInv, StreamIsSubscribed, NothingUnannounced, UnansweredIsEmpty

(* A load that starts has a record. *)
LEMMA StartedLoad ==
  ASSUME ConsoleInv, StartLoad,
         \/ refreshes < MaxRefreshes
         \/ events # <<>> /\ Head(events).type = "CHANGED"
  PROVE  /\ loadSequence + 1 \in Loads
         /\ loads' \in [Loads -> [state : {"unsent", "sent", "answered", "done"},
                                  reply : Revisions \cup {NoRevision}, epoch : Epochs]]
         /\ loadSequence' = loadSequence + 1
         /\ loads'[loadSequence + 1].state = "sent"
<1> USE ConsoleAssumption DEF ConsoleInv
<1>1. /\ loadSequence \in Nat /\ refreshes \in Nat /\ refreshes <= MaxRefreshes
      /\ epoch \in Nat /\ epoch <= MaxPublications /\ Waiting \in {0, 1}
      /\ MaxRefreshes \in Nat /\ MaxPublications \in Nat /\ loadSequence >= 1
      /\ events \in Seq(WatchGraphResponse)
  BY DEF TypeOK, Loads, Epochs, Waiting, MaxLoads
<1>2. Cardinality(Changes(events)) \in Nat
  BY <1>1, ChangesAreFinite
<1>3. events # <<>> /\ Head(events).type = "CHANGED" => Cardinality(Changes(events)) >= 1
  <2> SUFFICES ASSUME events # <<>>, Head(events).type = "CHANGED"
               PROVE  Cardinality(Changes(events)) >= 1
    OBVIOUS
  <2>1. Cardinality(Changes(events)) = Cardinality(Changes(Tail(events))) + 1
    BY <1>1, TailChanges
  <2>2. Tail(events) \in Seq(WatchGraphResponse)
    BY <1>1
  <2>3. Cardinality(Changes(Tail(events))) \in Nat
    BY <2>2, ChangesAreFinite
  <2> QED
    BY <2>1, <2>3
<1>4. loadSequence + 1 <= MaxLoads
  BY <1>1, <1>2, <1>3 DEF LoadsAreCounted, MaxLoads
<1>5. loadSequence + 1 \in Loads
  BY <1>1, <1>4 DEF Loads, MaxLoads
<1> QED
  BY <1>5 DEF StartLoad, TypeOK

LEMMA TypeStep == ConsoleInv /\ [Next]_vars => TypeOK'
<1> SUFFICES ASSUME ConsoleInv, [Next]_vars PROVE TypeOK'
  OBVIOUS
<1> USE ConsoleAssumption DEF ConsoleInv, TypeOK, feedVars, serverVars, loadVars, viewVars, taskVars
<1>1. CASE PublishNext
  BY <1>1 DEF PublishNext, Publish, FeedTypeOK, Epochs
<1>2. CASE OpenStream
  BY <1>2 DEF OpenStream, Subscribe, FeedTypeOK
<1>3. ASSUME NEW type \in GraphEventType, NEW revision \in Revisions, Send(type, revision)
      PROVE  events' \in Seq(WatchGraphResponse) /\ Len(events') <= StreamCapacity
  BY <1>3 DEF Send, ConnectionHasRoom, WatchGraphResponse
<1>4. CASE SendReady
  BY <1>3, <1>4 DEF SendReady, FeedTypeOK, GraphEventType
<1>5. CASE SendChanged
  BY <1>3, <1>5 DEF SendChanged, Receive, FeedTypeOK, GraphEventType
<1>6. CASE SendHeartbeat
  BY <1>3, <1>6 DEF SendHeartbeat, AfterHeartbeat, FeedTypeOK, GraphEventType
<1>7. CASE EndStream
  <2>1. FeedTypeOK'
    BY <1>7 DEF EndStream, Unsubscribe, FeedTypeOK
  <2>2. events' = events \/ events' = <<>>
    BY <1>7 DEF EndStream
  <2>3. events' \in Seq(WatchGraphResponse) /\ Len(events') <= StreamCapacity
    <3>1. CASE events' = events
      BY <3>1
    <3>2. CASE events' = <<>>
      <4>1. events' \in Seq(WatchGraphResponse)
        BY <3>2
      <4>2. Len(events') = 0 /\ 0 <= StreamCapacity
        BY <3>2
      <4> QED
        BY <4>1, <4>2
    <3> QED
      BY <2>2, <3>1, <3>2
  <2> QED
    BY <1>7, <2>1, <2>3 DEF EndStream
<1>8. CASE Refresh
  BY <1>8, StartedLoad DEF Refresh, FeedTypeOK
<1>9. CASE EndRefresh
  BY <1>9 DEF EndRefresh, FeedTypeOK
<1>10. CASE StartWatch
  BY <1>10 DEF StartWatch, FeedTypeOK
<1>11. CASE TakeEvent
  <2>1. FeedTypeOK'
    BY <1>11 DEF TakeEvent, FeedTypeOK
  <2>2. events' \in Seq(WatchGraphResponse) /\ Len(events') <= StreamCapacity
    BY <1>11 DEF TakeEvent
  <2>3. /\ loadSequence' \in Loads /\ awaited' \in {0} \cup Loads
        /\ loads' \in [Loads -> [state : {"unsent", "sent", "answered", "done"},
                                reply : Revisions \cup {NoRevision}, epoch : Epochs]]
    <3>1. CASE IsNews(Head(events))
      BY <1>11, <3>1, StartedLoad DEF TakeEvent, IsNews
    <3>2. CASE ~IsNews(Head(events))
      BY <1>11, <3>2 DEF TakeEvent
    <3> QED
      BY <3>1, <3>2
  <2> QED
    BY <1>11, <2>1, <2>2, <2>3 DEF TakeEvent
<1>12. CASE ResumeWatch
  BY <1>12 DEF ResumeWatch, FeedTypeOK
<1>13. CASE EndWatch
  <2>1. error' \in BOOLEAN /\ FeedTypeOK'
    BY <1>13 DEF EndWatch, FeedTypeOK
  <2>2. UNCHANGED <<events, stream, epoch, told, failures, heldEpoch>>
    BY <1>13 DEF EndWatch
  <2> QED
    BY <1>13, <2>1, <2>2 DEF EndWatch
<1>14. ASSUME NEW k \in Loads, Answer(k) PROVE TypeOK'
  BY <1>14 DEF Answer, FeedTypeOK
<1>15. ASSUME NEW k \in Loads, FinishLoad(k) PROVE TypeOK'
  <2>1. FeedTypeOK' /\ 0 \in Epochs
    BY <1>15 DEF FinishLoad, FeedTypeOK, Epochs
  <2>2. loads' \in [Loads -> [state : {"unsent", "sent", "answered", "done"},
                             reply : Revisions \cup {NoRevision}, epoch : Epochs]]
    BY <1>15, <2>1 DEF FinishLoad
  <2>3. held' \in Revisions \cup {NoRevision} /\ heldEpoch' \in Epochs /\ error' \in BOOLEAN
    BY <1>15 DEF FinishLoad
  <2>4. loading' \in BOOLEAN
    BY <1>15 DEF FinishLoad
  <2> QED
    BY <1>15, <2>1, <2>2, <2>3, <2>4 DEF FinishLoad
<1>16. CASE UNCHANGED vars
  BY <1>16 DEF vars, FeedTypeOK
<1> QED
  BY <1>1, <1>2, <1>4, <1>5, <1>6, <1>7, <1>8, <1>9, <1>10, <1>11, <1>12, <1>13, <1>14, <1>15,
     <1>16 DEF Next

(* A change fills the channel or finds it full; an announcement empties it *)
(* and an event taken starts one load.                                     *)
LEMMA CountStep == ConsoleInv /\ [Next]_vars => LoadsAreCounted'
<1> SUFFICES ASSUME ConsoleInv, [Next]_vars PROVE LoadsAreCounted'
  OBVIOUS
<1> DEFINE count == Cardinality(Changes(events))
<1>1. /\ events \in Seq(WatchGraphResponse) /\ count \in Nat
      /\ loadSequence \in Nat /\ refreshes \in Nat /\ epoch \in Nat
  BY ChangesAreFinite, ConsoleAssumption DEF ConsoleInv, TypeOK, Loads, Epochs, MaxLoads
<1>2. (Waiting = 0 \/ Waiting = 1) /\ (Waiting' = 0 \/ Waiting' = 1)
  BY DEF Waiting
<1>3. loadSequence + count + Waiting <= 1 + refreshes + epoch
  BY DEF ConsoleInv, LoadsAreCounted
<1>4. ASSUME NEW type \in GraphEventType, NEW revision \in Revisions, Send(type, revision)
      PROVE  count' = count + (IF type = "CHANGED" THEN 1 ELSE 0)
  <2> DEFINE event == [type |-> type, revision |-> revision]
  <2>1. event \in WatchGraphResponse /\ event.type = type
    BY <1>4 DEF WatchGraphResponse
  <2>2. events' = Append(events, event)
    BY <1>4 DEF Send
  <2> HIDE DEF event
  <2> QED
    BY <1>1, <2>1, <2>2, AppendedChanges
<1> HIDE DEF count
<1>5. LoadsAreCounted' <=> loadSequence' + count' + Waiting' <= 1 + refreshes' + epoch'
  BY DEF LoadsAreCounted, count
<1>6. updates \in [Watchers -> Revisions \cup {NoRevision}] /\ graph \in Revisions
      /\ Console \in Watchers
  BY ConsoleAssumption DEF ConsoleInv, TypeOK, FeedTypeOK
<1> USE DEF feedVars, serverVars, loadVars, viewVars, taskVars
<1>7. ASSUME events' = events PROVE count' = count
  BY <1>7 DEF count
<1>8. CASE PublishNext
  <2>1. count' = count
    BY <1>7, <1>8 DEF PublishNext
  <2>2. loadSequence' = loadSequence /\ refreshes' = refreshes /\ epoch' = epoch + 1
    BY <1>8 DEF PublishNext
  <2>3. loadSequence + count + Waiting' <= 1 + refreshes + (epoch + 1)
    BY <1>1, <1>2, <1>3
  <2> QED
    BY <1>5, <2>1, <2>2, <2>3
<1>9. CASE OpenStream
  <2>1. Waiting' = 0
    BY <1>6, <1>9 DEF OpenStream, Subscribe, Waiting
  <2> QED
    BY <1>1, <1>2, <1>3, <1>5, <1>7, <1>9, <2>1 DEF OpenStream
<1>10. CASE SendReady
  <2>1. count' = count
    BY <1>1, <1>4, <1>6, <1>10 DEF SendReady, GraphEventType
  <2>2. Waiting' = Waiting
    BY <1>10 DEF SendReady, Waiting
  <2> QED
    BY <1>3, <1>5, <1>10, <2>1, <2>2 DEF SendReady
<1>11. CASE SendHeartbeat
  <2>1. count' = count
    BY <1>1, <1>4, <1>6, <1>11 DEF SendHeartbeat, GraphEventType
  <2>2. Waiting' = Waiting
    BY <1>11 DEF SendHeartbeat, AfterHeartbeat, Waiting
  <2> QED
    BY <1>3, <1>5, <1>11, <2>1, <2>2 DEF SendHeartbeat
<1>12. CASE SendChanged
  <2>1. updates[Console] \in Revisions /\ Waiting = 1 /\ Waiting' = 0
    BY <1>6, <1>12 DEF SendChanged, Receive, Waiting
  <2>2. count' = count + 1
    BY <1>4, <1>12, <2>1 DEF SendChanged, GraphEventType
  <2> QED
    BY <1>1, <1>3, <1>5, <1>12, <2>1, <2>2 DEF SendChanged
<1>13. CASE EndStream
  <2>1. Waiting' <= Waiting
    BY <1>6, <1>13 DEF EndStream, Unsubscribe, Waiting
  <2>2. count' = count \/ count' = 0
    BY <1>13, NoChanges DEF EndStream, count
  <2> QED
    BY <1>1, <1>2, <1>3, <1>5, <1>13, <2>1, <2>2 DEF EndStream
<1>14. ASSUME events' = events, updates' = updates
       PROVE  count' = count /\ Waiting' = Waiting
  BY <1>7, <1>14 DEF Waiting
<1>15. CASE Refresh
  <2>1. /\ loadSequence' = loadSequence + 1 /\ refreshes' = refreshes + 1 /\ epoch' = epoch
        /\ count' = count /\ Waiting' = Waiting
    BY <1>14, <1>15 DEF Refresh, StartLoad
  <2> QED
    BY <1>1, <1>2, <1>3, <1>5, <2>1
<1>16. CASE TakeEvent
  <2>1. count = count' + (IF Head(events).type = "CHANGED" THEN 1 ELSE 0)
    BY <1>1, <1>16, TailChanges DEF TakeEvent, count
  <2>2. Tail(events) \in Seq(WatchGraphResponse)
    BY <1>1, <1>16 DEF TakeEvent
  <2>3. count' \in Nat
    BY <1>16, <2>2, ChangesAreFinite DEF TakeEvent, count
  <2>4. Waiting' = Waiting
    BY <1>16 DEF TakeEvent, Waiting
  <2>5. loadSequence' <= loadSequence + (IF Head(events).type = "CHANGED" THEN 1 ELSE 0)
          /\ loadSequence' \in Nat
    BY <1>1, <1>16 DEF TakeEvent, IsNews, StartLoad
  <2>6. refreshes' = refreshes /\ epoch' = epoch
    BY <1>16 DEF TakeEvent
  <2>7. PICK n \in Nat, l \in Nat : n = count' /\ l = loadSequence'
    BY <2>3, <2>5
  <2>8. l + n <= loadSequence + count
    <3>1. CASE Head(events).type = "CHANGED"
      <4>1. count = n + 1 /\ l <= loadSequence + 1
        BY <2>1, <2>5, <2>7, <3>1
      <4> QED
        BY <1>1, <4>1
    <3>2. CASE Head(events).type # "CHANGED"
      <4>1. count = n + 0 /\ l <= loadSequence + 0
        BY <2>1, <2>5, <2>7, <3>2
      <4> QED
        BY <1>1, <4>1
    <3> QED
      BY <3>1, <3>2
  <2>9. l + n + Waiting <= 1 + refreshes + epoch
    BY <1>1, <1>2, <1>3, <2>8
  <2> QED
    BY <1>5, <2>4, <2>6, <2>7, <2>9
<1>17. CASE EndRefresh \/ StartWatch \/ ResumeWatch \/ EndWatch \/ UNCHANGED vars
  <2>1. UNCHANGED <<loadSequence, refreshes, epoch, events, updates>>
    BY <1>17 DEF EndRefresh, StartWatch, ResumeWatch, EndWatch, vars
  <2> QED
    BY <1>3, <1>5, <1>14, <2>1
<1>18. ASSUME NEW k \in Loads, Answer(k) \/ FinishLoad(k) PROVE LoadsAreCounted'
  <2>1. UNCHANGED <<loadSequence, refreshes, epoch, events, updates>>
    BY <1>18 DEF Answer, FinishLoad
  <2> QED
    BY <1>3, <1>5, <1>14, <2>1
<1> QED
  BY <1>8, <1>9, <1>10, <1>11, <1>12, <1>13, <1>15, <1>16, <1>17, <1>18 DEF Next

(* WatchGraph subscribes before it reads, and reads what it announces.     *)
LEMMA AnnouncementStep == ConsoleInv /\ [Next]_vars => (StreamIsSubscribed /\ NothingUnannounced)'
<1> SUFFICES ASSUME ConsoleInv, [Next]_vars PROVE (StreamIsSubscribed /\ NothingUnannounced)'
  OBVIOUS
<1>1. updates \in [Watchers -> Revisions \cup {NoRevision}] /\ Console \in Watchers
  BY ConsoleAssumption DEF ConsoleInv, TypeOK, FeedTypeOK
<1> USE <1>1, NoRevisionAssumption
    DEF ConsoleInv, StreamIsSubscribed, NothingUnannounced, feedVars, serverVars, loadVars,
        viewVars, taskVars
<1>2. CASE PublishNext
  BY <1>2 DEF PublishNext, Publish, Offered
<1>3. CASE OpenStream
  BY <1>3 DEF OpenStream, Subscribe
<1>4. CASE SendReady
  BY <1>4 DEF SendReady
<1>5. CASE SendChanged
  BY <1>5 DEF SendChanged, Receive
<1>6. CASE SendHeartbeat
  BY <1>6 DEF SendHeartbeat, AfterHeartbeat
<1>7. CASE EndStream
  BY <1>7 DEF EndStream
<1>8. CASE StartWatch
  BY <1>8 DEF StartWatch
<1>9. CASE Refresh \/ EndRefresh \/ TakeEvent \/ ResumeWatch \/ EndWatch \/ UNCHANGED vars
  BY <1>9 DEF Refresh, EndRefresh, TakeEvent, ResumeWatch, EndWatch, vars
<1>10. ASSUME NEW k \in Loads, Answer(k) \/ FinishLoad(k)
       PROVE  (StreamIsSubscribed /\ NothingUnannounced)'
  BY <1>10 DEF Answer, FinishLoad
<1> QED
  BY <1>2, <1>3, <1>4, <1>5, <1>6, <1>7, <1>8, <1>9, <1>10 DEF Next

(* A load that starts has no answer; an answer is of the current graph,    *)
(* and the held graph was current when it was answered.                    *)
LEMMA AnswerStep == ConsoleInv /\ [Next]_vars => (UnansweredIsEmpty /\ LastAnswerIsNewer)'
<1> SUFFICES ASSUME ConsoleInv, [Next]_vars PROVE (UnansweredIsEmpty /\ LastAnswerIsNewer)'
  OBVIOUS
<1>1. /\ loads \in [Loads -> [state : {"unsent", "sent", "answered", "done"},
                              reply : Revisions \cup {NoRevision}, epoch : Epochs]]
      /\ loadSequence \in Loads /\ loadSequence \in Nat /\ graph \in Revisions
      /\ heldEpoch \in Nat /\ epoch \in Nat /\ heldEpoch <= epoch
  BY ConsoleAssumption
     DEF ConsoleInv, TypeOK, FeedTypeOK, LastAnswerIsNewer, Epochs, Loads, MaxLoads
<1> USE <1>1
    DEF UnansweredIsEmpty, LastAnswerIsNewer, feedVars, serverVars, loadVars, viewVars, taskVars
<1>2. UnansweredIsEmpty /\ LastAnswerIsNewer
  BY DEF ConsoleInv
<1>3. CASE PublishNext
  BY <1>2, <1>3 DEF PublishNext
<1>4. CASE UNCHANGED <<epoch, heldEpoch, loads, loadSequence>>
  BY <1>2, <1>4
<1>5. CASE /\ StartLoad
           /\ UNCHANGED <<epoch, heldEpoch>>
           /\ \/ refreshes < MaxRefreshes
              \/ events # <<>> /\ Head(events).type = "CHANGED"
  <2>1. /\ loadSequence + 1 \in Loads /\ loadSequence' = loadSequence + 1
        /\ loads'[loadSequence'].state = "sent"
    BY <1>5, StartedLoad
  <2>2. loads' = [loads EXCEPT ![loadSequence + 1].state = "sent"]
    BY <1>5 DEF StartLoad
  <2>3. loads[loadSequence + 1].state = "unsent"
    BY <1>2, <2>1
  <2>4. UnansweredIsEmpty'
    <3> SUFFICES ASSUME NEW k \in Loads
                 PROVE  /\ loads'[k].state \in {"unsent", "sent"} => loads'[k].reply = NoRevision
                        /\ k > loadSequence' => loads'[k].state = "unsent"
      OBVIOUS
    <3>1. CASE k = loadSequence + 1
      BY <1>2, <2>1, <2>2, <2>3, <3>1
    <3>2. CASE k # loadSequence + 1
      <4>1. k \in Nat /\ loads'[k] = loads[k] /\ (k > loadSequence + 1 => k > loadSequence)
        BY <2>2, <3>2 DEF Loads
      <4> QED
        BY <1>2, <2>1, <4>1
    <3> QED
      BY <3>1, <3>2
  <2> QED
    BY <1>2, <1>5, <2>1, <2>4
<1>6. CASE OpenStream \/ SendReady \/ SendChanged \/ SendHeartbeat \/ EndStream
  BY <1>4, <1>6 DEF OpenStream, SendReady, SendChanged, SendHeartbeat, EndStream
<1>7. CASE EndRefresh \/ StartWatch \/ ResumeWatch \/ EndWatch \/ UNCHANGED vars
  BY <1>4, <1>7 DEF EndRefresh, StartWatch, ResumeWatch, EndWatch, vars
<1>8. CASE Refresh
  BY <1>5, <1>8 DEF Refresh
<1>9. CASE TakeEvent
  <2>1. CASE IsNews(Head(events))
    BY <1>5, <1>9, <2>1 DEF TakeEvent, IsNews
  <2>2. CASE ~IsNews(Head(events))
    BY <1>4, <1>9, <2>2 DEF TakeEvent
  <2> QED
    BY <2>1, <2>2
<1>10. ASSUME NEW k \in Loads, Answer(k) PROVE (UnansweredIsEmpty /\ LastAnswerIsNewer)'
  BY <1>2, <1>10 DEF Answer
<1>11. ASSUME NEW k \in Loads, FinishLoad(k) PROVE (UnansweredIsEmpty /\ LastAnswerIsNewer)'
  BY <1>2, <1>11 DEF FinishLoad, Superseded
<1> QED
  BY <1>3, <1>6, <1>7, <1>8, <1>9, <1>10, <1>11 DEF Next

LEMMA ConsoleStep == ConsoleInv /\ [Next]_vars => ConsoleInv'
BY TypeStep, CountStep, AnnouncementStep, AnswerStep DEF ConsoleInv

-----------------------------------------------------------------------------
(* Every variable keeps its type; in particular a connection never holds   *)
(* more events than it has room for, and every load that refresh or watch  *)
(* starts has a record, so the bound on loads cuts no behaviour off.       *)
THEOREM ConsoleTypeCorrect == Spec => []TypeOK
<1>1. ConsoleInv => TypeOK
  BY DEF ConsoleInv
<1> QED
  BY <1>1, InitHolds, ConsoleStep, PTL DEF Spec

(* WatchGraph announces every change that follows its READY, however       *)
(* publications, heartbeats and a full connection interleave.              *)
THEOREM EverythingIsAnnounced == Spec => []NothingUnannounced
<1>1. ConsoleInv => NothingUnannounced
  BY DEF ConsoleInv
<1> QED
  BY <1>1, InitHolds, ConsoleStep, PTL DEF Spec

(* load never replaces the graph on display by one that the server had     *)
(* published earlier, in whatever order the answers arrive.                *)
THEOREM AnswersDoNotGoBack == Spec => NeverGoesBack
<1>1. ConsoleInv /\ [Next]_vars => [heldEpoch' >= heldEpoch]_heldEpoch
  <2> SUFFICES ASSUME ConsoleInv, Next PROVE heldEpoch' >= heldEpoch \/ UNCHANGED heldEpoch
    BY DEF vars, viewVars
  <2>1. ASSUME NEW k \in Loads, FinishLoad(k)
        PROVE  heldEpoch' >= heldEpoch \/ UNCHANGED heldEpoch
    BY <2>1 DEF ConsoleInv, LastAnswerIsNewer, FinishLoad, Superseded
  <2> QED
    BY <2>1 DEF Next, PublishNext, OpenStream, SendReady, SendChanged, SendHeartbeat, EndStream,
                Refresh, EndRefresh, StartWatch, TakeEvent, ResumeWatch, EndWatch, Answer,
                viewVars
<1> QED
  BY <1>1, InitHolds, ConsoleStep, PTL DEF Spec, NeverGoesBack

=============================================================================
