--------------------------- MODULE MCMutationRun ---------------------------
(***************************************************************************)
(* Instances of MutationRun for TLC: a file with two sites, one with one   *)
(* and one with none.  The suite misses one of the three.                  *)
(***************************************************************************)
EXTENDS MutationRun

MCFiles == {"doc.go", "grade.go", "store.go"}

MCSites == {"grade.go:3", "grade.go:7", "store.go:5"}

MCFileOf == [s \in MCSites |-> IF s = "store.go:5" THEN "store.go" ELSE "grade.go"]

MCDetectable == MCSites \ {"grade.go:7"}

MCUncovered == [f \in MCFiles |-> IF f = "store.go" THEN 2 ELSE 0]

MCFilesUnder ==
  [path \in {"", "store", "docs"} |->
     CASE path = "" -> MCFiles
       [] path = "store" -> {"store.go"}
       [] path = "docs" -> {}]

Request(plugins, paths) == [plugins |-> plugins, paths |-> paths]

MCRequests ==
  {Request({}, {}), Request({"mutation"}, {""}), Request({"mutation"}, {"store"}),
   Request({"mutation"}, {"docs"}), Request({"mutation", "mutations"}, {})}

MCWholeRepository == {Request({}, {})}

=============================================================================
