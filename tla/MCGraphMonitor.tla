--------------------------- MODULE MCGraphMonitor ---------------------------
(***************************************************************************)
(* Instances of GraphMonitor for TLC: two files; the store is read twice,  *)
(* by inspectSourceFile and by packages.Load, the handler once.  The       *)
(* handler is edited; the store does not exist, is created and is removed  *)
(* again.  What packages.Load finds is the same before both edits and      *)
(* after them: an analysis of other files may have the same revision, and  *)
(* an old revision may come back.                                          *)
(***************************************************************************)
EXTENDS GraphMonitor, TLC

MCFiles == {"handler.go", "store.go"}

MCReads == {"inspect store.go", "load store.go", "load handler.go"}

MCFileOf == [r \in MCReads |-> IF r = "load handler.go" THEN "handler.go" ELSE "store.go"]

MCLastVersion == [f \in MCFiles |-> IF f = "store.go" THEN 2 ELSE 1]

(* The store alone is edited. *)
MCStoreEdits == [f \in MCFiles |-> IF f = "store.go" THEN 2 ELSE 0]

(* The versions of the store before it is created and after it is removed. *)
MCStatOf ==
  [f \in MCFiles |->
     [v \in Version |-> IF f = "store.go" /\ v # 1 THEN {} ELSE {v}]]

MCRevisionOf ==
  [i \in Input |-> <<i["inspect store.go"] % 2,
                     (i["load store.go"] + i["load handler.go"]) % 2>>]

MCRevisions == {MCRevisionOf[i] : i \in Input}

(* Watchers are interchangeable. *)
MCSymmetry == Permutations(Watchers)

(* Bound: watchers come while only the store is edited, the handler is     *)
(* edited while there are none.                                            *)
MCWatchedEdits == subscribers = {} \/ disk["handler.go"] = 0

=============================================================================
