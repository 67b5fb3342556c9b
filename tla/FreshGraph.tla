----------------------------- MODULE FreshGraph -----------------------------
(***************************************************************************)
(* What graphMonitor promises to the callers of freshGraph, without        *)
(* permits, snapshots, phases or torn reads: a call that succeeds behaves  *)
(* as one atomic step between its beginning and its end and returns the    *)
(* graph of the published analysis.  The step either moves the analysis    *)
(* forward to reads of the files no older than the call, or keeps it: then *)
(* every file that was read looked the same at some moment since the call, *)
(* or looks since the call as it did before it was read, as a file does    *)
(* that was created, read and removed.                                     *)
(***************************************************************************)
EXTENDS Naturals

CONSTANTS Files, Tracked, Reads, FileOf, MaxVersion, LastVersion, StatOf, Callers,
          RevisionOf, NoRevision

Version == 0 .. MaxVersion
Tree == [Files -> Version]
Input == [Reads -> Version]
NewTree == [f \in Files |-> 0]
NotOlder(S, s, t) == \A x \in S : s[x] <= t[x]
ReadSince(s, i) == \A r \in Reads : FileOf[r] \in Tracked => s[FileOf[r]] <= i[r]
ReadBefore(i, t) == \A r \in Reads : i[r] <= t[FileOf[r]]
Alike(f, v, w) == StatOf[f][v] = StatOf[f][w]
LookedAs(f, v, s, t) == \E w \in s .. t : Alike(f, v, w)
LookedAgain(f, v, s, t) == \E u \in 0 .. v, w \in s .. t : v < w /\ Alike(f, u, w)
ReusedSince(s, t, i) ==
  \A r \in Reads : FileOf[r] \in Tracked =>
    LET f == FileOf[r] IN
      LookedAs(f, i[r], s[f], t[f]) \/ LookedAgain(f, i[r], s[f], t[f])

VARIABLES
  disk,      \* the current version of every file
  analyzed,  \* what the reads behind the published graph found
  call,      \* "none", "pending" or "returned" for every caller
  since,     \* `disk` when the call began
  result     \* the revision the call returned

vars == <<disk, analyzed, call, since, result>>

Init ==
  /\ disk \in Tree
  /\ NotOlder(Files, disk, LastVersion)
  /\ analyzed \in Input
  /\ ReadBefore(analyzed, disk)
  /\ call = [c \in Callers |-> "none"]
  /\ since = [c \in Callers |-> NewTree]
  /\ result = [c \in Callers |-> NoRevision]

Edit(f) ==
  /\ disk[f] < LastVersion[f]
  /\ disk' = [disk EXCEPT ![f] = @ + 1]
  /\ UNCHANGED <<analyzed, call, since, result>>

Begin(c) ==
  /\ call[c] = "none"
  /\ call' = [call EXCEPT ![c] = "pending"]
  /\ since' = [since EXCEPT ![c] = disk]
  /\ UNCHANGED <<disk, analyzed, result>>

Succeed(c, revision) ==
  /\ call[c] = "pending"
  /\ call' = [call EXCEPT ![c] = "returned"]
  /\ result' = [result EXCEPT ![c] = revision]
  /\ UNCHANGED <<disk, since>>

Analyze(c) ==
  /\ analyzed' \in Input
  /\ NotOlder(Reads, analyzed, analyzed')
  /\ ReadSince(since[c], analyzed')
  /\ ReadBefore(analyzed', disk)
  /\ Succeed(c, RevisionOf[analyzed'])

Reuse(c) ==
  /\ ReusedSince(since[c], disk, analyzed)
  /\ Succeed(c, RevisionOf[analyzed])
  /\ UNCHANGED analyzed

Fail(c) ==
  /\ call[c] = "pending"
  /\ call' = [call EXCEPT ![c] = "returned"]
  /\ UNCHANGED <<disk, analyzed, since, result>>

End(c) ==
  /\ call[c] = "returned"
  /\ call' = [call EXCEPT ![c] = "none"]
  /\ since' = [since EXCEPT ![c] = NewTree]
  /\ result' = [result EXCEPT ![c] = NoRevision]
  /\ UNCHANGED <<disk, analyzed>>

Next ==
  \/ \E f \in Files : Edit(f)
  \/ \E c \in Callers : Begin(c) \/ Analyze(c) \/ Reuse(c) \/ Fail(c) \/ End(c)

Spec == Init /\ [][Next]_vars

=============================================================================
